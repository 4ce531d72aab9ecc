--------------------------------- MODULE Billing --------------------------------
(***************************************************************************)
(* One invoice of a job after it was issued: invoices.service.ts           *)
(* updateLines, addPayment and noteIfSettled.                              *)
(*                                                                         *)
(* A request's lines are written and deleted together: they are one batch, *)
(* named after the request, with its sum.  The include of findUnique is    *)
(* one snapshot.                                                           *)
(***************************************************************************)
EXTENDS Money, FiniteSets, FiniteSetsExt

CONSTANTS
  Edits,      \* PUT lines requests
  Payments,   \* POST payment requests
  Issued,     \* the batch the invoice was issued with
  NoPayment,
  Sums,       \* paise a batch of lines may amount to
  Amounts,    \* paise a payment may be of (at least 1 rupee)
  Rate,       \* the invoice's gstRate
  Crashes     \* may a handler die half way?

ASSUME RequestsAssumption ==
  /\ Issued \notin Edits
  /\ NoPayment \notin Edits \cup Payments
  /\ Edits \cap Payments = {}
ASSUME AmountsAssumption == Sums \subseteq Nat /\ Amounts \subseteq Nat \ {0}

Batches  == Edits \cup {Issued}
Requests == Edits \cup Payments

VARIABLES
  sum,       \* the sum of each batch, chosen by its request
  amount,    \* the amount of each payment, chosen by its request
  lines,     \* the batches that are the invoice's lines
  payments,  \* the payments stored
  timeline,  \* the lines emitted on the job: <<"updated" or "paid", request>>
  pc,        \* where each handler stands
  doomed,    \* the batches the deleteMany of an edit sees
  latest,    \* history: the payment stored last
  edited     \* history: have lines changed since?

vars == <<sum, amount, lines, payments, timeline, pc, doomed, latest, edited>>

TypeOK ==
  /\ sum      \in [Batches -> Sums]
  /\ amount   \in [Payments -> Amounts]
  /\ lines    \subseteq Batches
  /\ payments \subseteq Payments
  /\ timeline \subseteq ({"updated"} \X Edits) \cup ({"paid"} \X Payments)
  /\ pc       \in [Requests -> {"idle", "replace", "log", "check", "note", "done", "dead"}]
  /\ doomed   \in [Edits -> SUBSET Batches]
  /\ latest   \in Payments \cup {NoPayment}
  /\ edited   \in BOOLEAN

Init ==
  /\ sum      \in [Batches -> Sums]
  /\ amount   \in [Payments -> Amounts]
  /\ lines    = {Issued}
  /\ payments = {}
  /\ timeline = {}
  /\ pc       = [r \in Requests |-> "idle"]
  /\ doomed   = [e \in Edits |-> {}]
  /\ latest   = NoPayment
  /\ edited   = FALSE

SumOf(f, S) == MapThenSumSet(LAMBDA x : f[x], S)

Subtotal == SumOf(sum, lines)
Paid     == SumOf(amount, payments)
Settled  == Settles(Paid, Subtotal, Rate)

Goto(r, step) == pc' = [pc EXCEPT ![r] = step]

--------------------------------------------------------------------------------
(* updateLines: the transaction's deleteMany sees the lines committed when   *)
(* it starts, so of two that overlap the later keeps the earlier's lines.    *)

EditClears(e) ==
  /\ pc[e] = "idle"
  /\ doomed' = [doomed EXCEPT ![e] = lines]
  /\ Goto(e, "replace")
  /\ UNCHANGED <<sum, amount, lines, payments, timeline, latest, edited>>

EditReplaces(e) ==
  /\ pc[e] = "replace"
  /\ lines'  = (lines \ doomed[e]) \cup {e}
  /\ edited' = TRUE
  /\ Goto(e, "log")
  /\ UNCHANGED <<sum, amount, payments, timeline, doomed, latest>>

EditLogs(e) ==
  /\ pc[e] = "log"
  /\ timeline' = timeline \cup {<<"updated", e>>}
  /\ Goto(e, "done")
  /\ UNCHANGED <<sum, amount, lines, payments, doomed, latest, edited>>

--------------------------------------------------------------------------------
(* addPayment stores, then checks, then notes.                               *)

PayStores(p) ==
  /\ pc[p] = "idle"
  /\ payments' = payments \cup {p}
  /\ latest'   = p
  /\ edited'   = FALSE
  /\ Goto(p, "check")
  /\ UNCHANGED <<sum, amount, lines, timeline, doomed>>

\* Variant: what the payment leaves open is read before it is stored.
PayChecksOthers(p) ==
  /\ pc[p] = "check"
  /\ Goto(p, IF Settles(Paid - amount[p], Subtotal, Rate) THEN "note" ELSE "done")
  /\ UNCHANGED <<sum, amount, lines, payments, timeline, doomed, latest, edited>>

PayChecks(p) ==
  /\ pc[p] = "check"
  /\ Goto(p, IF Settled THEN "note" ELSE "done")
  /\ UNCHANGED <<sum, amount, lines, payments, timeline, doomed, latest, edited>>

PayNotes(p) ==
  /\ pc[p] = "note"
  /\ timeline' = timeline \cup {<<"paid", p>>}
  /\ Goto(p, "done")
  /\ UNCHANGED <<sum, amount, lines, payments, doomed, latest, edited>>

Crash(r) ==
  /\ Crashes
  /\ pc[r] \notin {"idle", "done", "dead"}
  /\ Goto(r, "dead")
  /\ UNCHANGED <<sum, amount, lines, payments, timeline, doomed, latest, edited>>

Edit(e) == EditClears(e) \/ EditReplaces(e) \/ EditLogs(e)
Pay(p)  == PayStores(p) \/ PayChecks(p) \/ PayNotes(p)

Next ==
  \/ \E e \in Edits : Edit(e)
  \/ \E p \in Payments : Pay(p)
  \/ \E r \in Requests : Crash(r)

Spec == Init /\ [][Next]_vars

--------------------------------------------------------------------------------
Quiet == \A r \in Requests : pc[r] \in {"idle", "done"}

(***************************************************************************)
(* noteIfSettled: an invoice whose status has become PAID by a payment has *)
(* the note on its timeline, whatever other payments and edits overlapped, *)
(* unless the lines changed after the last payment or its handler died.    *)
(***************************************************************************)
PaidIsNoted ==
  /\ latest # NoPayment
  /\ pc[latest] = "done"
  /\ ~edited
  /\ InvoiceStatus(Paid, Subtotal, Rate) = "PAID"
  => <<"paid", latest>> \in timeline

(***************************************************************************)
(* Why: the last payer checks after its own payment and all others.        *)
(***************************************************************************)
LatestInv ==
  /\ latest # NoPayment =>
       /\ latest \in payments
       /\ pc[latest] # "idle"
       /\ pc[latest] = "done" /\ ~edited /\ Settled => <<"paid", latest>> \in timeline
  /\ \A p \in Payments : p \in payments <=> pc[p] # "idle"

================================================================================
