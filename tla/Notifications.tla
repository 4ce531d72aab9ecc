------------------------------ MODULE Notifications -----------------------------
(***************************************************************************)
(* notifications.service.ts: the registry of push tokens, the inbox, and   *)
(* the pushes that jobs.service.ts and estimates.service.ts start without  *)
(* waiting for them.  Expo answers a chunk of tokens with one ticket each; *)
(* a token whose app is gone is pruned when the answer arrives.            *)
(*                                                                         *)
(* A promise nobody awaits that rejects ends the process (main.ts installs *)
(* no handler): Restart covers that and every other end of the process.    *)
(***************************************************************************)
EXTENDS Integers, SequencesExt

CONSTANTS
  Pushes,   \* calls of the notify functions and of the test route
  Users,    \* the users of one workshop
  Devices,  \* push tokens
  NoUser,
  Chunk,    \* CHUNK_SIZE, 100 in the code
  TakeRows, \* the rows an inbox shows, 100 in the code
  Changes   \* bound: what happens around the pushes

ASSUME SizesAssumption  == Chunk \in Nat \ {0} /\ TakeRows \in Nat \ {0} /\ Changes \in Nat
ASSUME UsersAssumption  == NoUser \notin Users /\ Users # {}
ASSUME DevicesAssumption == IsFiniteSet(Devices)

VARIABLES
  staff,      \* the active managers and admins
  devices,    \* DeviceToken: <<token, user>>
  installed,  \* tokens Expo knows
  inbox,      \* Notification: each user's rows, oldest first
  pc, kind, actor,
  toStaff,    \* the push to the staff is still to come
  ids,        \* the recipients of the stage under way
  unique,     \* the tokens it read of them
  at,         \* how many of those are behind it
  dead,       \* tokens a ticket reported, not pruned yet
  view,       \* an inbox request: the unread rows it shows, its badge
  left,       \* how many more changes there may be
  holder,     \* history: who registered each token last
  kept,       \* history: tokens that have no reason to be pruned
  untried,    \* history: tokens a push read and put in no request
  steady,     \* history: staff all the while since a push was called
  unsaved     \* history: pushes with a createMany that failed

calls   == <<kind, actor>>
work    == <<toStaff, ids, unique, at, dead>>
store   == <<staff, devices, installed, inbox>>
history == <<holder, kept, untried, steady, unsaved>>
vars    == <<store, pc, calls, work, view, left, history>>

Row    == [of : Pushes, unread : BOOLEAN]
NoView == [user |-> NoUser, shown |-> -1, badge |-> -1, cut |-> FALSE, came |-> 0, marked |-> FALSE]

TypeOK ==
  /\ staff \subseteq Users /\ installed \subseteq Devices /\ devices \subseteq Devices \X Users
  /\ inbox  \in [Users -> Seq(Row)]
  /\ pc     \in [Pushes -> {"idle", "users", "persist", "devices", "send", "prune", "done", "lost"}]
  /\ kind   \in [Pushes -> {"direct", "chat", "staff", "test"}]
  /\ actor  \in [Pushes -> Users]
  /\ toStaff \in [Pushes -> BOOLEAN]
  /\ ids    \in [Pushes -> SUBSET Users]
  /\ unique \in [Pushes -> Seq(Devices)]
  /\ at     \in [Pushes -> Nat]
  /\ dead   \in [Pushes -> SUBSET Devices]
  /\ view   \in [user : Users \cup {NoUser}, shown : Int, badge : Int, cut : BOOLEAN, came : Nat, marked : BOOLEAN]
  /\ holder \in [Devices -> Users \cup {NoUser}]
  /\ left \in Nat
  /\ kept \subseteq Devices /\ unsaved \subseteq Pushes
  /\ untried \in [Pushes -> SUBSET Devices]
  /\ steady  \in [Pushes -> SUBSET Users]

Init ==
  /\ staff \in SUBSET Users
  /\ holder \in [Devices -> Users \cup {NoUser}]
  /\ installed \in SUBSET Devices
  /\ devices = {<<d, holder[d]>> : d \in {x \in Devices : holder[x] # NoUser}}
  /\ kept  = {d \in installed : holder[d] # NoUser}
  /\ left  = Changes /\ unsaved = {}
  /\ inbox = [u \in Users |-> <<>>]
  /\ pc    = [p \in Pushes |-> "idle"]
  /\ kind  = [p \in Pushes |-> "test"]
  /\ actor = [p \in Pushes |-> CHOOSE u \in Users : TRUE]
  /\ toStaff = [p \in Pushes |-> FALSE]
  /\ ids   = [p \in Pushes |-> {}] /\ steady = ids
  /\ unique = [p \in Pushes |-> <<>>]
  /\ at    = [p \in Pushes |-> 0]
  /\ dead  = [p \in Pushes |-> {}] /\ untried = dead
  /\ view  = NoView

Change == left > 0 /\ left' = left - 1

Goto(p, step) == pc' = [pc EXCEPT ![p] = step]
--------------------------------------------------------------------------------
(* The callers: who is told first, and whether the staff is told after that. *)

Starts(p, k, a, first, staffToo) ==
  /\ pc[p] = "idle"
  /\ kind'    = [kind EXCEPT ![p] = k]
  /\ actor'   = [actor EXCEPT ![p] = a]
  /\ ids'     = [ids EXCEPT ![p] = first]
  /\ toStaff' = [toStaff EXCEPT ![p] = staffToo]
  /\ steady'  = [steady EXCEPT ![p] = staff]
  /\ Goto(p, IF k = "test" THEN "devices" ELSE IF first # {} THEN "persist" ELSE "users")
  /\ UNCHANGED <<store, unique, at, dead, view, left, holder, kept, untried, unsaved>>

\* notifyAssignment: not of a job one takes oneself.  Nor is the technician told who
\* has the job already; which job it is, and so whose, is left open here.
NotifyAssignment(p, a, t) == t # a /\ Starts(p, "direct", a, {t}, FALSE)

\* notifyDecision: not of one's own estimate.
NotifyDecision(p, a, submitter) == submitter # a /\ Starts(p, "direct", a, {submitter}, FALSE)

\* notifyNewMessage: the technician, if there is one who is not the author.
NotifyNewMessage(p, a, tech) == Starts(p, "chat", a, {tech} \ {a, NoUser}, TRUE)

\* notifyCompleted, notifyDelivered, and submit
NotifyStaff(p, a) == Starts(p, "staff", a, {}, TRUE)

PushToAll(p, a) == Starts(p, "test", a, {}, FALSE)

\* What follows the push to one group of users.
Onward(p) == IF toStaff[p] THEN "users" ELSE "done"

\* pushToRoles
FindStaff(p) ==
  /\ pc[p] = "users"
  /\ ids'     = [ids EXCEPT ![p] = staff \ {actor[p]}]
  /\ toStaff' = [toStaff EXCEPT ![p] = FALSE]
  /\ Goto(p, IF staff \subseteq {actor[p]} THEN "done" ELSE "persist")
  /\ UNCHANGED <<store, calls, unique, at, dead, view, left, history>>

--------------------------------------------------------------------------------
(* pushToUsers: the inbox rows first, best effort.                           *)

Came(who) == IF view.user \in who THEN [view EXCEPT !.came = @ + 1] ELSE view

\* Variant: rows for those who have a device only.
CreateRowsOfDevices(p) ==
  /\ pc[p] = "persist"
  /\ inbox' = [u \in Users |-> IF u \in ids[p] /\ \E row \in devices : row[2] = u
                               THEN Append(inbox[u], [of |-> p, unread |-> TRUE]) ELSE inbox[u]]
  /\ view'  = Came(ids[p])
  /\ Goto(p, "devices")
  /\ UNCHANGED <<staff, devices, installed, calls, work, left, history>>

CreateRows(p) ==
  /\ pc[p] = "persist"
  /\ inbox' = [u \in Users |->
       IF u \in ids[p] THEN Append(inbox[u], [of |-> p, unread |-> TRUE]) ELSE inbox[u]]
  /\ view'  = Came(ids[p])
  /\ Goto(p, "devices")
  /\ UNCHANGED <<staff, devices, installed, calls, work, left, history>>

CreateRowsFails(p) ==
  /\ pc[p] = "persist"
  /\ unsaved' = unsaved \cup {p}
  /\ Goto(p, "devices")
  /\ UNCHANGED <<store, calls, work, view, left, holder, kept, untried, steady>>

TokensOf(p) ==
  {d \in Devices : \E u \in Users : <<d, u>> \in devices /\ (kind[p] = "test" \/ u \in ids[p])}

ReadDevices(p) ==
  /\ pc[p] = "devices"
  /\ \E order \in SetToSeqs(TokensOf(p)) : unique' = [unique EXCEPT ![p] = order]
  /\ at'      = [at EXCEPT ![p] = 0]
  /\ untried' = [untried EXCEPT ![p] = @ \cup TokensOf(p)]
  /\ Goto(p, IF TokensOf(p) = {} THEN Onward(p) ELSE "send")
  /\ UNCHANGED <<store, calls, toStaff, ids, dead, view, left, holder, kept, steady, unsaved>>

--------------------------------------------------------------------------------
(* sendToTokens: chunk by chunk, a failed request does not stop the rest.    *)
(* The test route sends one by one, and does stop.                           *)

Size(p)   == IF kind[p] = "test" THEN 1 ELSE Chunk
Behind(p) == at[p] + Size(p)
Sent(p)   == SubSeq(unique[p], at[p] + 1, IF Behind(p) < Len(unique[p]) THEN Behind(p) ELSE Len(unique[p]))

NextChunk(p) ==
  /\ at' = [at EXCEPT ![p] = Behind(p)]
  /\ Goto(p, IF Behind(p) < Len(unique[p]) THEN "send" ELSE Onward(p))

Tried(p) == untried' = [untried EXCEPT ![p] = @ \ {Sent(p)[i] : i \in DOMAIN Sent(p)}]

\* Variant: a failed request ends the loop.
SendFailsForGood(p) ==
  /\ pc[p] = "send"
  /\ Tried(p)
  /\ Goto(p, Onward(p))
  /\ UNCHANGED <<store, calls, work, view, left, holder, kept, steady, unsaved>>

SendFails(p) ==
  /\ pc[p] = "send"
  /\ Tried(p)
  /\ IF kind[p] = "test" THEN Goto(p, "done") /\ UNCHANGED at ELSE NextChunk(p)
  /\ UNCHANGED <<store, calls, toStaff, ids, unique, dead, view, left, holder, kept, steady, unsaved>>

\* handleTickets(chunk, tickets): the i-th ticket is about the i-th token.
Answered(p, reported) ==
  /\ pc[p] = "send"
  /\ Tried(p)
  /\ IF reported = {} THEN NextChunk(p) /\ UNCHANGED dead
     ELSE dead' = [dead EXCEPT ![p] = reported] /\ Goto(p, "prune") /\ UNCHANGED at
  /\ UNCHANGED <<store, calls, toStaff, ids, unique, view, left, holder, kept, steady, unsaved>>

Unknown(p) == {i \in DOMAIN Sent(p) : Sent(p)[i] \notin installed}

\* Variant: the tickets are matched with the whole list.
SendMisaligned(p) == Answered(p, {unique[p][i] : i \in Unknown(p)})

Send(p) == Answered(p, {Sent(p)[i] : i \in Unknown(p)})

Pruned(p) == dead' = [dead EXCEPT ![p] = {}]
Delete(gone) == devices' = {row \in devices : row[1] \notin gone}

\* Variant: the chunk is sent again.
PruneAndResend(p) ==
  /\ pc[p] = "prune"
  /\ Delete(dead[p]) /\ Pruned(p) /\ Goto(p, "send")
  /\ UNCHANGED <<staff, installed, inbox, calls, toStaff, ids, unique, at, view, left, history>>

Prune(p) ==
  /\ pc[p] = "prune"
  /\ Delete(dead[p]) /\ Pruned(p) /\ NextChunk(p)
  /\ UNCHANGED <<staff, installed, inbox, calls, toStaff, ids, unique, view, left, history>>

\* The deletion fails, inside the try of its chunk.
PruneFails(p) ==
  /\ pc[p] = "prune"
  /\ Pruned(p)
  /\ IF kind[p] = "test" THEN Goto(p, "done") /\ UNCHANGED at ELSE NextChunk(p)
  /\ UNCHANGED <<store, calls, toStaff, ids, unique, view, left, history>>

--------------------------------------------------------------------------------
(* The registry and the world around it.                                     *)

Suspected(d) == \E p \in Pushes : pc[p] = "prune" /\ d \in dead[p]

\* Variant: one row per token and user.
RegisterBeside(d, u) ==
  /\ Change
  /\ devices'   = devices \cup {<<d, u>>}
  /\ installed' = installed \cup {d}
  /\ holder'    = [holder EXCEPT ![d] = u]
  /\ kept'      = IF Suspected(d) THEN kept ELSE kept \cup {d}
  /\ UNCHANGED <<staff, inbox, pc, calls, work, view, untried, steady, unsaved>>

\* register: an upsert on the token.
Register(d, u) ==
  /\ Change
  /\ devices'   = {row \in devices : row[1] # d} \cup {<<d, u>>}
  /\ installed' = installed \cup {d}
  /\ holder'    = [holder EXCEPT ![d] = u]
  /\ kept'      = IF Suspected(d) THEN kept ELSE kept \cup {d}
  /\ UNCHANGED <<staff, inbox, pc, calls, work, view, untried, steady, unsaved>>

\* Variant: the row stays, with no user.
UnregisterKeepsRow(d) ==
  /\ Change
  /\ d \in installed
  /\ devices' = {row \in devices : row[1] # d} \cup {<<d, NoUser>>}
  /\ kept'    = kept \ {d}
  /\ UNCHANGED <<staff, installed, inbox, pc, calls, work, view, holder, untried, steady, unsaved>>

Unregister(d) ==
  /\ Change
  /\ Delete({d})
  /\ kept' = kept \ {d}
  /\ UNCHANGED <<staff, installed, inbox, pc, calls, work, view, holder, untried, steady, unsaved>>

Uninstall(d) ==
  /\ Change
  /\ installed' = installed \ {d}
  /\ kept'      = kept \ {d}
  /\ UNCHANGED <<staff, devices, inbox, pc, calls, work, view, holder, untried, steady, unsaved>>

StaffChanges(u) ==
  /\ Change
  /\ staff'  = IF u \in staff THEN staff \ {u} ELSE staff \cup {u}
  /\ steady' = [p \in Pushes |-> steady[p] \ {u}]
  /\ UNCHANGED <<devices, installed, inbox, pc, calls, work, view, holder, kept, untried, unsaved>>

Restart ==
  /\ Change
  /\ pc'   = [p \in Pushes |-> IF pc[p] \in {"idle", "done"} THEN pc[p] ELSE "lost"]
  /\ view' = NoView
  /\ UNCHANGED <<store, calls, work, history>>

--------------------------------------------------------------------------------
(* inbox: two statements of which either may come first.                     *)

Unread(rows, first) == Cardinality({i \in first .. Len(rows) : rows[i].unread})
FirstShown(rows)    == IF Len(rows) > TakeRows THEN Len(rows) - TakeRows + 1 ELSE 1

OpenInbox(u) ==
  /\ Change
  /\ view.user = NoUser
  /\ view' = [NoView EXCEPT !.user = u]
  /\ UNCHANGED <<store, pc, calls, work, history>>

FindMany ==
  /\ view.user # NoUser /\ view.shown = -1
  /\ LET rows == inbox[view.user]
     IN  view' = [view EXCEPT !.shown = Unread(rows, FirstShown(rows)),
                              !.cut = Len(rows) > TakeRows]
  /\ UNCHANGED <<store, pc, calls, work, left, history>>

\* Variant: read rows count.
CountAll ==
  /\ view.user # NoUser /\ view.badge = -1
  /\ view' = [view EXCEPT !.badge = Len(inbox[view.user])]
  /\ UNCHANGED <<store, pc, calls, work, left, history>>

CountUnread ==
  /\ view.user # NoUser /\ view.badge = -1
  /\ view' = [view EXCEPT !.badge = Unread(inbox[view.user], 1)]
  /\ UNCHANGED <<store, pc, calls, work, left, history>>

Answer ==
  /\ view.shown # -1 /\ view.badge # -1
  /\ view' = NoView
  /\ UNCHANGED <<store, pc, calls, work, left, history>>

MarkAllRead(u) ==
  /\ Change
  /\ inbox' = [inbox EXCEPT ![u] = [i \in DOMAIN @ |-> [@[i] EXCEPT !.unread = FALSE]]]
  /\ view'  = IF view.user = u THEN [view EXCEPT !.marked = TRUE] ELSE view
  /\ UNCHANGED <<staff, devices, installed, pc, calls, work, history>>

--------------------------------------------------------------------------------
Step(p) ==
  \/ FindStaff(p) \/ CreateRows(p) \/ CreateRowsFails(p) \/ ReadDevices(p)
  \/ Send(p) \/ SendFails(p) \/ Prune(p) \/ PruneFails(p)

Calls == \E p \in Pushes, a \in Users :
  \/ \E t \in Users : NotifyAssignment(p, a, t) \/ NotifyDecision(p, a, t)
  \/ \E t \in Users \cup {NoUser} : NotifyNewMessage(p, a, t)
  \/ NotifyStaff(p, a) \/ PushToAll(p, a)

Registry == \/ \E d \in Devices : Unregister(d) \/ Uninstall(d) \/ \E u \in Users : Register(d, u)
            \/ \E u \in Users : StaffChanges(u)

Inbox == FindMany \/ CountUnread \/ Answer \/ \E u \in Users : OpenInbox(u) \/ MarkAllRead(u)

Next == Calls \/ Registry \/ Inbox \/ Restart \/ \E p \in Pushes : Step(p)

\* The event loop goes on, and the database and Expo answer or fail.
Spec == Init /\ [][Next]_vars /\ \A p \in Pushes : WF_vars(Step(p))

--------------------------------------------------------------------------------
(***************************************************************************)
(* pushToRoles: who was staff from the call on and is not its actor finds  *)
(* it in the inbox, device or not, unless storing the rows failed; nobody  *)
(* is told of what they did themselves, as technician or as staff.         *)
(***************************************************************************)
StaffTold == \A p \in Pushes :
  /\ p \notin unsaved /\ pc[p] = "done" /\ kind[p] \in {"chat", "staff"} =>
       \A u \in steady[p] \ {actor[p]} : \E i \in DOMAIN inbox[u] : inbox[u][i].of = p
  /\ kind[p] # "test" => \A i \in DOMAIN inbox[actor[p]] : inbox[actor[p]][i].of # p

(***************************************************************************)
(* handleTickets: a registered token of an installed app is only ever      *)
(* pruned if it was registered between a ticket and the pruning it caused. *)
(***************************************************************************)
KeptTokens == \A d \in kept : \E u \in Users : <<d, u>> \in devices

(***************************************************************************)
(* sendToTokens: "Never let a push failure break" the rest: every token    *)
(* read has been part of a request when the push is done.                  *)
(***************************************************************************)
EveryChunkTried == \A p \in Pushes :
  pc[p] = "done" /\ kind[p] # "test" => untried[p] = {}

(***************************************************************************)
(* register: once a device is another user's, what is pushed to the one    *)
(* before no longer reads its token.                                       *)
(***************************************************************************)
ReadsCurrentUser == [][\A p \in Pushes :
  pc[p] = "devices" /\ pc'[p] = "send" /\ kind[p] # "test" =>
    \A i \in DOMAIN unique'[p] : holder[unique'[p][i]] \in ids[p]]_vars

(***************************************************************************)
(* inbox: the badge and the unread rows shown differ by no more than what  *)
(* came between the two reads, unless the inbox was marked read meanwhile  *)
(* or is longer than what is shown; the badge is never short of older rows.*)
(***************************************************************************)
BadgeFits ==
  view.shown # -1 /\ view.badge # -1 /\ ~view.marked =>
    /\ view.badge + view.came >= view.shown
    /\ ~view.cut => view.badge - view.shown <= view.came

(***************************************************************************)
(* Every push comes to an end: done, or lost with its process.             *)
(***************************************************************************)
PushEnds == \A p \in Pushes : pc[p] # "idle" ~> pc[p] \in {"done", "lost"}

================================================================================
