---------------------------------- MODULE Parts ---------------------------------
(***************************************************************************)
(* jobs.service.ts addParts(): a list of catalogue items is added to a     *)
(* job, line by line: a decrement of the item's stock, then a PART_ADDED   *)
(* line on the timeline.  Nothing links the statements.                    *)
(***************************************************************************)
EXTENDS Integers, Sequences

CONSTANTS
  Requests,  \* POST parts requests
  Items,     \* the catalogue
  Missing,   \* an id that is not in it
  Jobs,
  Bodies,    \* the lists of [item |-> .., qty |-> ..] a request may bring
  Levels,    \* stocks the catalogue may be given: numbers, or Untracked
  Untracked, \* stock null: services, and parts set to null
  Crashes    \* may a handler die half way?

PartLine == [item : Items \cup {Missing}, qty : Nat \ {0}]
Stock    == Nat \cup {Untracked}

ASSUME LevelsAssumption == Untracked \notin Nat /\ Levels \subseteq Stock
ASSUME BodiesAssumption == Missing \notin Items /\ Bodies \subseteq Seq(PartLine) \ {<<>>}

VARIABLES
  stock,      \* CatalogueItem.stock
  delivered,  \* the jobs in DELIVERED
  job,        \* the job of a request
  body,       \* its list
  copy,       \* the stocks in the copy of the catalogue it works from
  pc,         \* where its handler stands
  line,       \* how many of its lines are on the timeline
  level,      \* history: the stock an item was given last
  taken,      \* history: what was taken from it since
  used        \* history: what each request took from it

vars == <<stock, delivered, job, body, copy, pc, line, level, taken, used>>

TypeOK ==
  /\ stock     \in [Items -> Stock]
  /\ delivered \subseteq Jobs
  /\ job       \in [Requests -> Jobs]
  /\ body      \in [Requests -> Seq(PartLine)]
  /\ copy      \in [Requests -> [Items -> Stock]]
  /\ pc        \in [Requests -> {"idle", "lookup", "take", "emit", "done", "refused", "dead"}]
  /\ line      \in [Requests -> Nat]
  /\ level     \in [Items -> Stock]
  /\ taken     \in [Items -> Nat]
  /\ used      \in [Requests -> [Items -> Nat]]
  /\ \A r \in Requests : pc[r] \in {"idle", "lookup"} => line[r] = 0
  /\ \A r \in Requests : pc[r] = "lookup" => Len(body[r]) > 0
  /\ \A r \in Requests : pc[r] \in {"take", "emit"} =>
       line[r] < Len(body[r]) /\ \A k \in 1 .. Len(body[r]) : body[r][k].item \in Items

Init ==
  /\ stock     \in [Items -> Levels]
  /\ delivered = {}
  /\ job       \in [Requests -> Jobs]
  /\ body      = [r \in Requests |-> <<>>]
  /\ copy      = [r \in Requests |-> stock]
  /\ pc        = [r \in Requests |-> "idle"]
  /\ line      = [r \in Requests |-> 0]
  /\ level     = stock
  /\ taken     = [i \in Items |-> 0]
  /\ used      = [r \in Requests |-> taken]

Goto(r, step) == pc' = [pc EXCEPT ![r] = step]

Current(r) == body[r][line[r] + 1]

\* GREATEST(stock - qty, 0); of NULL and 0 it is 0.
FloorAtZero(s) == IF s < 0 THEN 0 ELSE s
Less(s, qty)   == IF s = Untracked THEN 0 ELSE FloorAtZero(s - qty)

--------------------------------------------------------------------------------
(* addParts *)

\* The copy of the job is not delivered ...
Start(r) == \E b \in Bodies :
  /\ pc[r] = "idle"
  /\ job[r] \notin delivered
  /\ body' = [body EXCEPT ![r] = b]
  /\ Goto(r, "lookup")
  /\ UNCHANGED <<stock, delivered, job, copy, line, level, taken, used>>

\* ... or the answer is 400.
Refuse(r) == \E b \in Bodies :
  /\ pc[r] = "idle"
  /\ job[r] \in delivered
  /\ body' = [body EXCEPT ![r] = b]
  /\ Goto(r, "refused")
  /\ UNCHANGED <<stock, delivered, job, copy, line, level, taken, used>>

InCatalogue(b) == \A k \in 1 .. Len(b) : b[k].item \in Items

\* The catalogue has every item of the list ...
Lookup(r) ==
  /\ pc[r] = "lookup"
  /\ InCatalogue(body[r])
  /\ copy' = [copy EXCEPT ![r] = stock]
  /\ Goto(r, "take")
  /\ UNCHANGED <<stock, delivered, job, body, line, level, taken, used>>

\* ... or the answer is 404, before anything is taken.
ItemMissing(r) ==
  /\ pc[r] = "lookup"
  /\ ~InCatalogue(body[r])
  /\ Goto(r, "refused")
  /\ UNCHANGED <<stock, delivered, job, body, copy, line, level, taken, used>>

\* Variant: the stock is computed from the copy.
TakeFromCopy(r) ==
  /\ pc[r] = "take"
  /\ LET i == Current(r).item
         q == Current(r).qty
     IN  IF copy[r][i] = Untracked
           THEN UNCHANGED <<stock, taken, used>>
           ELSE /\ stock' = [stock EXCEPT ![i] = Less(copy[r][i], q)]
                /\ taken' = [taken EXCEPT ![i] = @ + q]
                /\ used'  = [used EXCEPT ![r][i] = @ + q]
  /\ Goto(r, "emit")
  /\ UNCHANGED <<delivered, job, body, copy, line, level>>

\* One UPDATE, if the copy's stock is not null.
Take(r) ==
  /\ pc[r] = "take"
  /\ LET i == Current(r).item
         q == Current(r).qty
     IN  IF copy[r][i] = Untracked
           THEN UNCHANGED <<stock, taken, used>>
           ELSE /\ stock' = [stock EXCEPT ![i] = Less(@, q)]
                /\ taken' = [taken EXCEPT ![i] = @ + q]
                /\ used'  = [used EXCEPT ![r][i] = @ + q]
  /\ Goto(r, "emit")
  /\ UNCHANGED <<delivered, job, body, copy, line, level>>

\* Variant: the list is put on the timeline at once.
EmitAll(r) ==
  /\ pc[r] = "emit"
  /\ line' = [line EXCEPT ![r] = Len(body[r])]
  /\ Goto(r, "done")
  /\ UNCHANGED <<stock, delivered, job, body, copy, level, taken, used>>

\* The PART_ADDED line.
Emit(r) ==
  /\ pc[r] = "emit"
  /\ line' = [line EXCEPT ![r] = @ + 1]
  /\ Goto(r, IF line[r] + 1 = Len(body[r]) THEN "done" ELSE "take")
  /\ UNCHANGED <<stock, delivered, job, body, copy, level, taken, used>>

Crash(r) ==
  /\ Crashes
  /\ pc[r] \in {"lookup", "take", "emit"}
  /\ Goto(r, "dead")
  /\ UNCHANGED <<stock, delivered, job, body, copy, line, level, taken, used>>

--------------------------------------------------------------------------------
(* Others *)

\* PATCH of the catalogue item: the number that was sent, or null.
SetStock(i) == \E s \in Levels :
  /\ stock' = [stock EXCEPT ![i] = s]
  /\ level' = [level EXCEPT ![i] = s]
  /\ taken' = [taken EXCEPT ![i] = 0]
  /\ UNCHANGED <<delivered, job, body, copy, pc, line, used>>

\* JobWorkflow's delivery.
Deliver(j) ==
  /\ delivered' = delivered \cup {j}
  /\ UNCHANGED <<stock, job, body, copy, pc, line, level, taken, used>>

AddParts(r) ==
  Start(r) \/ Refuse(r) \/ Lookup(r) \/ ItemMissing(r) \/ Take(r) \/ Emit(r)

Next ==
  \/ \E r \in Requests : AddParts(r) \/ Crash(r)
  \/ \E i \in Items : SetStock(i)
  \/ \E j \in Jobs : Deliver(j)

Spec == Init /\ [][Next]_vars

--------------------------------------------------------------------------------
(***************************************************************************)
(* addParts: "concurrent adds must not lose updates".  The stock is what   *)
(* was set less all that was taken since, floored once: every decrement    *)
(* counts, in any order, and the floors in between change nothing.         *)
(***************************************************************************)
StockExact == \A i \in Items :
  stock[i] = IF level[i] # Untracked THEN FloorAtZero(level[i] - taken[i])
             ELSE IF taken[i] = 0 THEN Untracked ELSE 0

\* The quantities of an item in the first n lines of a list, for each n.
QuantityIn(list, i) ==
  LET sum[n \in 0 .. Len(list)] ==
        IF n = 0 THEN 0 ELSE sum[n - 1] + (IF list[n].item = i THEN list[n].qty ELSE 0)
  IN  sum

\* The quantity of item i that the timeline says request r took from its stock.
Recorded(r, i) == IF copy[r][i] = Untracked THEN 0 ELSE QuantityIn(body[r], i)[line[r]]

(***************************************************************************)
(* addParts takes before it emits: whatever dies or overlaps, the timeline *)
(* shows no part of a tracked item that its request did not take from the  *)
(* stock, and when the request was not cut short, all that it took.        *)
(***************************************************************************)
TimelineMatchesStock == \A r \in Requests, i \in Items :
  /\ Recorded(r, i) <= used[r][i]
  /\ pc[r] \in {"idle", "lookup", "done", "refused"} => Recorded(r, i) = used[r][i]

================================================================================
