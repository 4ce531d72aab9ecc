--------------------------- MODULE NotificationsProofs --------------------------
(***************************************************************************)
(* Proofs about Notifications, for any pushes, users and devices, any      *)
(* chunks and any inbox.                                                   *)
(*                                                                         *)
(* Per push: what it has read and not yet sent lies behind its chunk       *)
(* (UntriedAhead), who must be told is among its recipients until the rows *)
(* are stored (StaffFound), and nobody is a recipient of their own action  *)
(* (ActorSpared).  For the registry: a token belongs to whom it was        *)
(* registered for (HeldByUser), and a token a ticket reported is not in    *)
(* use (DeadNotKept).  For the inbox: between its two reads the unread     *)
(* rows grow by what comes (BadgeSoFar).                                   *)
(***************************************************************************)
EXTENDS Notifications, FiniteSetTheorems, FunctionTheorems, SequenceTheorems, TLAPS

Rest(s, first) == {s[i] : i \in first .. Len(s)}

UntriedOf(p) ==
  /\ pc[p] = "idle" => untried[p] = {}
  /\ kind[p] # "test" =>
       /\ pc[p] \in {"users", "persist", "devices", "done"} => untried[p] = {}
       /\ pc[p] = "send" => untried[p] \subseteq Rest(unique[p], at[p] + 1)
       /\ pc[p] = "prune" => untried[p] \subseteq Rest(unique[p], Behind(p) + 1)
UntriedAhead == \A p \in Pushes : UntriedOf(p)

HasRow(u, p) == \E i \in DOMAIN inbox[u] : inbox[u][i].of = p

StaffOf(p) ==
  /\ steady[p] \subseteq staff
  /\ pc[p] = "users" => toStaff[p]
  /\ pc[p] = "done" /\ kind[p] # "test" => ~toStaff[p]
  /\ kind[p] \in {"chat", "staff"} /\ ~toStaff[p] =>
       /\ pc[p] = "persist" => steady[p] \ {actor[p]} \subseteq ids[p]
       /\ pc[p] \in {"devices", "send", "prune", "done"} /\ p \notin unsaved =>
            \A u \in steady[p] \ {actor[p]} : HasRow(u, p)
StaffFound == \A p \in Pushes : StaffOf(p)

ActorOf(p) ==
  /\ pc[p] = "idle" => kind[p] = "test" /\ \A u \in Users : ~HasRow(u, p)
  /\ kind[p] # "test" => actor[p] \notin ids[p] /\ ~HasRow(actor[p], p)
ActorSpared == \A p \in Pushes : ActorOf(p)

HeldByUser == \A row \in devices : holder[row[1]] = row[2]

DeadNotKept ==
  /\ kept \subseteq installed
  /\ \A p \in Pushes : pc[p] = "prune" => dead[p] \cap kept = {}

BadgeSoFar ==
  /\ view.shown # -1 \/ view.badge # -1 => view.user \in Users
  /\ ~view.marked =>
       LET now == Unread(inbox[view.user], 1)
       IN  /\ view.shown # -1 /\ view.badge = -1 =>
                view.shown <= now /\ (~view.cut => now <= view.shown + view.came)
           /\ view.shown = -1 /\ view.badge # -1 =>
                view.badge <= now /\ now <= view.badge + view.came

\* The notify functions and the test route, as calls of pushToUsers.
LEMMA CallsStart ==
  ASSUME Calls
  PROVE  \E p \in Pushes, a \in Users, first \in SUBSET Users, staffToo \in BOOLEAN,
            k \in {"direct", "chat", "staff", "test"} :
           /\ Starts(p, k, a, first, staffToo)
           /\ a \notin first
           /\ k = "direct" => first # {} /\ ~staffToo
           /\ k \in {"chat", "staff"} => staffToo
<1> PICK p \in Pushes, a \in Users :
      \/ \E t \in Users : NotifyAssignment(p, a, t) \/ NotifyDecision(p, a, t)
      \/ \E t \in Users \cup {NoUser} : NotifyNewMessage(p, a, t)
      \/ NotifyStaff(p, a) \/ PushToAll(p, a)
  BY DEF Calls
<1>1. CASE \E t \in Users : NotifyAssignment(p, a, t) \/ NotifyDecision(p, a, t)
  <2> PICK t \in Users : NotifyAssignment(p, a, t) \/ NotifyDecision(p, a, t)
    BY <1>1
  <2>1. Starts(p, "direct", a, {t}, FALSE) /\ a \notin {t} /\ {t} # {} /\ {t} \in SUBSET Users
    BY DEF NotifyAssignment, NotifyDecision
  <2> QED
    BY <2>1
<1>2. CASE \E t \in Users \cup {NoUser} : NotifyNewMessage(p, a, t)
  <2> PICK t \in Users \cup {NoUser} : NotifyNewMessage(p, a, t)
    BY <1>2
  <2>1. Starts(p, "chat", a, {t} \ {a, NoUser}, TRUE) /\ a \notin {t} \ {a, NoUser}
        /\ {t} \ {a, NoUser} \in SUBSET Users
    BY DEF NotifyNewMessage
  <2> QED
    BY <2>1
<1>3. CASE NotifyStaff(p, a)
  BY <1>3 DEF NotifyStaff
<1>4. CASE PushToAll(p, a)
  BY <1>4 DEF PushToAll
<1> QED
  BY <1>1, <1>2, <1>3, <1>4

\* A part of a sequence.
LEMMA PartOf ==
  ASSUME NEW S, NEW s \in Seq(S), NEW a \in Nat, NEW b \in Nat, b <= Len(s)
  PROVE  /\ DOMAIN SubSeq(s, a + 1, b) = 1 .. b - a
         /\ \A i \in 1 .. b - a : SubSeq(s, a + 1, b)[i] = s[a + i]
<1> DEFINE m == a + 1
<1>1. m \in Int /\ b \in Int /\ \A i \in m .. b : s[i] \in S
  BY ElementOfSeq, LenProperties
<1> HIDE DEF m
<1>2. /\ SubSeq(s, m, b) \in Seq(S)
      /\ Len(SubSeq(s, m, b)) = IF m <= b THEN b - m + 1 ELSE 0
      /\ \A i \in 1 .. b - m + 1 : SubSeq(s, m, b)[i] = s[m + i - 1]
  BY ONLY <1>1, SubSeqProperties
<1> DEFINE c == SubSeq(s, m, b)
<1>3. DOMAIN c = 1 .. Len(c)
  BY <1>2, LenProperties
<1> HIDE DEF c
<1>4. /\ Len(c) = IF m <= b THEN b - m + 1 ELSE 0
      /\ \A i \in 1 .. b - m + 1 : c[i] = s[m + i - 1]
  BY <1>2 DEF c
<1>5. DOMAIN c = 1 .. b - a
  BY <1>3, <1>4 DEF m
<1>6. ASSUME NEW i \in 1 .. b - a PROVE c[i] = s[a + i]
  <2>1. i \in 1 .. b - m + 1 /\ m + i - 1 = a + i
    BY DEF m
  <2> QED
    BY <2>1, <1>4
<1> QED
  BY <1>5, <1>6 DEF c, m

\* The tokens of a chunk.
LEMMA SentTokens ==
  ASSUME TypeOK, NEW p \in Pushes
  PROVE  /\ DOMAIN Sent(p) \subseteq Nat
         /\ \A k \in at[p] + 1 .. Len(unique[p]) : k <= Behind(p) =>
              \E i \in DOMAIN Sent(p) : Sent(p)[i] = unique[p][k]
         /\ \A i \in DOMAIN Sent(p) : Sent(p)[i] \in Devices
<1> DEFINE last == IF Behind(p) < Len(unique[p]) THEN Behind(p) ELSE Len(unique[p])
<1>1. /\ at[p] \in Nat /\ unique[p] \in Seq(Devices) /\ Len(unique[p]) \in Nat /\ Behind(p) \in Nat
      /\ Behind(p) = at[p] + Size(p) /\ Size(p) \in Nat
      /\ last \in Nat /\ last <= Len(unique[p])
  BY SizesAssumption DEF TypeOK, Behind, Size
<1>2. Sent(p) = SubSeq(unique[p], at[p] + 1, last)
  BY DEF Sent
<1> HIDE DEF last
<1>3. DOMAIN Sent(p) = 1 .. last - at[p] /\ \A i \in 1 .. last - at[p] : Sent(p)[i] = unique[p][at[p] + i]
  BY <1>1, <1>2, PartOf
<1>4. ASSUME NEW k \in at[p] + 1 .. Len(unique[p]), k <= Behind(p)
      PROVE  \E i \in DOMAIN Sent(p) : Sent(p)[i] = unique[p][k]
  <2>1. k - at[p] \in 1 .. last - at[p] /\ at[p] + (k - at[p]) = k
    BY <1>1, <1>4 DEF last
  <2> QED
    BY <2>1, <1>3
<1>5. ASSUME NEW i \in DOMAIN Sent(p) PROVE i \in Nat /\ Sent(p)[i] \in Devices
  <2>1. i \in 1 .. last - at[p] /\ at[p] + i \in 1 .. Len(unique[p])
    BY <1>1, <1>3
  <2>2. unique[p][at[p] + i] \in Devices
    BY <1>1, <2>1, ElementOfSeq
  <2> QED
    BY <2>1, <2>2, <1>3
<1> QED
  BY <1>4, <1>5

\* The tokens read of a set of recipients, in any order.
LEMMA OrdersCover ==
  ASSUME NEW p \in Pushes, NEW order \in SetToSeqs(TokensOf(p))
  PROVE  /\ order \in Seq(Devices)
         /\ TokensOf(p) = {order[i] : i \in 1 .. Len(order)}
         /\ DOMAIN order = 1 .. Len(order)
<1> DEFINE T == TokensOf(p)
           n == Cardinality(T)
<1>1. T \in SUBSET Devices /\ IsFiniteSet(T) /\ n \in Nat
  BY DevicesAssumption, FS_Subset, FS_CardinalityType DEF TokensOf
<1>2. order \in [1 .. n -> T] /\ \A i, j \in 1 .. n : i # j => order[i] # order[j]
  BY DEF SetToSeqs
<1> HIDE DEF T, n
<1>3. order \in Seq(Devices) /\ Len(order) = n /\ DOMAIN order = 1 .. n
  BY <1>1, <1>2
<1>4. order \in Injection(1 .. n, T)
  BY <1>2, Fun_IsInj
<1>5. Cardinality(1 .. n) = n
  BY <1>1, FS_Interval
<1>6. order \in Surjection(1 .. n, T)
  BY <1>1, <1>4, <1>5, FS_Injection DEF n
<1>7. \A t \in T : \E i \in 1 .. n : order[i] = t
  BY <1>6 DEF Surjection
<1> QED
  BY <1>2, <1>3, <1>7 DEF T
--------------------------------------------------------------------------------
\* What the step of one push leaves alone.
LEMMA OthersStay ==
  ASSUME TypeOK, NEW p \in Pushes, Step(p)
  PROVE  /\ UNCHANGED <<staff, installed, calls, left, holder, kept, steady>>
         /\ \A q \in Pushes \ {p} :
              /\ pc'[q] = pc[q] /\ toStaff'[q] = toStaff[q] /\ ids'[q] = ids[q]
              /\ unique'[q] = unique[q] /\ at'[q] = at[q] /\ dead'[q] = dead[q]
              /\ untried'[q] = untried[q]
<1> USE DEF TypeOK, calls, work, store, history, Goto, NextChunk, Tried, Pruned
<1>1. CASE FindStaff(p) BY <1>1 DEF FindStaff
<1>2. CASE CreateRows(p) BY <1>2 DEF CreateRows
<1>3. CASE CreateRowsFails(p) BY <1>3 DEF CreateRowsFails
<1>4. CASE ReadDevices(p) BY <1>4 DEF ReadDevices
<1>5. CASE Send(p) BY <1>5 DEF Send, Answered
<1>6. CASE SendFails(p) BY <1>6 DEF SendFails
<1>7. CASE Prune(p) BY <1>7 DEF Prune
<1>8. CASE PruneFails(p) BY <1>8 DEF PruneFails
<1> QED
  BY <1>1, <1>2, <1>3, <1>4, <1>5, <1>6, <1>7, <1>8 DEF Step

\* A push that starts starts from nothing, and leaves the rest alone.
LEMMA StartsLeaves ==
  ASSUME TypeOK, NEW p \in Pushes, NEW a \in Users, NEW first \in SUBSET Users,
         NEW staffToo \in BOOLEAN, NEW k \in {"direct", "chat", "staff", "test"},
         Starts(p, k, a, first, staffToo)
  PROVE  /\ pc[p] = "idle" /\ kind'[p] = k /\ actor'[p] = a /\ ids'[p] = first
         /\ toStaff'[p] = staffToo /\ steady'[p] = staff
         /\ pc'[p] = IF k = "test" THEN "devices" ELSE IF first # {} THEN "persist" ELSE "users"
         /\ \A q \in Pushes \ {p} :
              /\ pc'[q] = pc[q] /\ kind'[q] = kind[q] /\ actor'[q] = actor[q]
              /\ ids'[q] = ids[q] /\ toStaff'[q] = toStaff[q] /\ steady'[q] = steady[q]
         /\ UNCHANGED <<store, unique, at, dead, view, left, holder, kept, untried, unsaved>>
<1>1. pc'[p] = IF k = "test" THEN "devices" ELSE IF first # {} THEN "persist" ELSE "users"
  BY DEF TypeOK, Starts, Goto
<1>2. /\ pc[p] = "idle" /\ kind'[p] = k /\ actor'[p] = a /\ ids'[p] = first
      /\ steady'[p] = staff
  BY DEF TypeOK, Starts
<1>3. toStaff'[p] = staffToo
  BY DEF TypeOK, Starts
<1>4. \A q \in Pushes \ {p} :
        /\ pc'[q] = pc[q] /\ kind'[q] = kind[q] /\ actor'[q] = actor[q]
        /\ ids'[q] = ids[q] /\ steady'[q] = steady[q]
  BY DEF TypeOK, Starts, Goto
<1>5. \A q \in Pushes \ {p} : toStaff'[q] = toStaff[q]
  BY DEF TypeOK, Starts
<1>6. UNCHANGED <<store, unique, at, dead, view, left, holder, kept, untried, unsaved>>
  BY DEF Starts
<1> QED
  BY <1>1, <1>2, <1>3, <1>4, <1>5, <1>6

Views == [user : Users \cup {NoUser}, shown : Int, badge : Int, cut : BOOLEAN, came : Nat, marked : BOOLEAN]

LEMMA ViewsChange ==
  ASSUME NEW v \in Views
  PROVE  /\ \A n \in Nat, c \in BOOLEAN : [v EXCEPT !.shown = n, !.cut = c] \in Views
         /\ \A n \in Nat : [v EXCEPT !.badge = n] \in Views
         /\ [v EXCEPT !.marked = TRUE] \in Views
         /\ \A u \in Users : [v EXCEPT !.user = u] \in Views
<1>1. ASSUME NEW n \in Nat, NEW c \in BOOLEAN PROVE [v EXCEPT !.shown = n, !.cut = c] \in Views
  <2>1. [v EXCEPT !.shown = n] \in Views
    BY DEF Views
  <2>2. ASSUME NEW w \in Views PROVE [w EXCEPT !.cut = c] \in Views
    BY DEF Views
  <2> QED
    BY <2>1, <2>2
<1>2. ASSUME NEW n \in Nat PROVE [v EXCEPT !.badge = n] \in Views
  BY DEF Views
<1>3. [v EXCEPT !.marked = TRUE] \in Views
  BY DEF Views
<1>4. ASSUME NEW u \in Users PROVE [v EXCEPT !.user = u] \in Views
  BY DEF Views
<1> QED
  BY <1>1, <1>2, <1>3, <1>4

LEMMA StartsMoves ==
  ASSUME TypeOK, NEW p \in Pushes, NEW a, NEW first, NEW staffToo,
         NEW k \in {"direct", "chat", "staff", "test"}, Starts(p, k, a, first, staffToo)
  PROVE  /\ pc[p] = "idle" /\ kind'[p] = k /\ actor'[p] = a /\ ids'[p] = first
         /\ pc'[p] \in {"devices", "persist", "users"}
         /\ \A q \in Pushes \ {p} :
              pc'[q] = pc[q] /\ kind'[q] = kind[q] /\ actor'[q] = actor[q] /\ ids'[q] = ids[q]
<1>1. pc'[p] \in {"devices", "persist", "users"} /\ \A q \in Pushes \ {p} : pc'[q] = pc[q]
  BY DEF Starts, Goto, TypeOK
<1> QED
  BY <1>1 DEF Starts, TypeOK

LEMMA InitTyped == Init => TypeOK
<1> SUFFICES ASSUME Init PROVE TypeOK
  OBVIOUS
<1>1. (CHOOSE u \in Users : TRUE) \in Users
  BY UsersAssumption
<1>2. inbox \in [Users -> Seq(Row)] /\ unique \in [Pushes -> Seq(Devices)]
  BY EmptySeq DEF Init
<1>3. view \in [user : Users \cup {NoUser}, shown : Int, badge : Int, cut : BOOLEAN, came : Nat, marked : BOOLEAN]
  BY DEF Init, NoView
<1>4. devices \subseteq Devices \X Users
  BY DEF Init
<1> QED
  BY <1>1, <1>2, <1>3, <1>4, SizesAssumption DEF Init, TypeOK

\* What is stored for the recipients.
LEMMA RowsTyped ==
  ASSUME TypeOK, NEW p \in Pushes, CreateRows(p)
  PROVE  inbox' \in [Users -> Seq(Row)] /\ view' \in Views
<1>1. [of |-> p, unread |-> TRUE] \in Row
  BY DEF Row
<1>2. \A u \in Users : Append(inbox[u], [of |-> p, unread |-> TRUE]) \in Seq(Row)
  BY <1>1, AppendProperties DEF TypeOK
<1>3. inbox' \in [Users -> Seq(Row)]
  BY <1>2 DEF TypeOK, CreateRows
<1>4. view \in Views /\ (view' = view \/ view' = [view EXCEPT !.came = @ + 1])
  BY DEF TypeOK, Views, CreateRows, Came
<1>5. [view EXCEPT !.came = @ + 1] \in Views
  BY <1>4 DEF Views
<1> QED
  BY <1>3, <1>4, <1>5

LEMMA NextChunkTyped ==
  ASSUME TypeOK, NEW p \in Pushes, NextChunk(p)
  PROVE  /\ at' \in [Pushes -> Nat]
         /\ pc' \in [Pushes -> {"idle", "users", "persist", "devices", "send", "prune", "done", "lost"}]
<1>1. Behind(p) \in Nat
  BY SizesAssumption DEF Behind, Size, TypeOK
<1> QED
  BY <1>1 DEF NextChunk, Goto, Onward, TypeOK

LEMMA TriedTyped ==
  ASSUME TypeOK, NEW p \in Pushes, Tried(p)
  PROVE  untried' \in [Pushes -> SUBSET Devices]
BY DEF Tried, TypeOK

LEMMA StepTyped ==
  ASSUME TypeOK, NEW p \in Pushes, Step(p)
  PROVE  TypeOK'
<1> USE DEF TypeOK, calls, work, store, history, Goto, Pruned, Delete, Onward
<1>1. CASE FindStaff(p) BY <1>1 DEF FindStaff
<1>2. CASE CreateRows(p)
  <2>1. inbox' \in [Users -> Seq(Row)] /\ view' \in Views
    BY <1>2, RowsTyped
  <2> QED
    BY <1>2, <2>1 DEF CreateRows, Views
<1>3. CASE CreateRowsFails(p) BY <1>3 DEF CreateRowsFails
<1>4. CASE ReadDevices(p)
  <2>1. PICK order \in SetToSeqs(TokensOf(p)) : unique' = [unique EXCEPT ![p] = order]
    BY <1>4 DEF ReadDevices
  <2>2. order \in Seq(Devices)
    BY OrdersCover
  <2>3. TokensOf(p) \subseteq Devices
    BY DEF TokensOf
  <2> QED
    BY <1>4, <2>1, <2>2, <2>3 DEF ReadDevices
<1>5. CASE Send(p)
  <2>1. {Sent(p)[i] : i \in Unknown(p)} \subseteq Devices
    BY SentTokens DEF Unknown
  <2>2. PICK reported \in SUBSET Devices : Answered(p, reported)
    BY <1>5, <2>1 DEF Send
  <2>3. untried' \in [Pushes -> SUBSET Devices]
    BY <2>2, TriedTyped DEF Answered
  <2>4. CASE reported = {}
    BY <2>2, <2>3, <2>4, NextChunkTyped DEF Answered
  <2>5. CASE reported # {}
    <3>0. dead' = [dead EXCEPT ![p] = reported] /\ pc' = [pc EXCEPT ![p] = "prune"]
      BY <2>2, <2>5 DEF Answered
    <3>1. dead' \in [Pushes -> SUBSET Devices]
      BY <3>0
    <3>2. pc' \in [Pushes -> {"idle", "users", "persist", "devices", "send", "prune", "done", "lost"}]
      BY <3>0
    <3> QED
      BY <2>2, <2>3, <2>5, <3>1, <3>2 DEF Answered
  <2> QED
    BY <2>4, <2>5
<1>6. CASE SendFails(p) BY <1>6, NextChunkTyped, TriedTyped DEF SendFails
<1>7. CASE Prune(p) BY <1>7, NextChunkTyped DEF Prune
<1>8. CASE PruneFails(p) BY <1>8, NextChunkTyped DEF PruneFails
<1> QED
  BY <1>1, <1>2, <1>3, <1>4, <1>5, <1>6, <1>7, <1>8 DEF Step

LEMMA UnreadTyped ==
  ASSUME NEW rows \in Seq(Row), NEW first \in Nat
  PROVE  Unread(rows, first) \in Nat
<1>1. IsFiniteSet(first .. Len(rows))
  BY FS_Interval, LenProperties
<1> QED
  BY <1>1, FS_Subset, FS_CardinalityType DEF Unread

LEMMA FirstShownTyped ==
  ASSUME NEW rows \in Seq(Row)
  PROVE  FirstShown(rows) \in Nat \ {0} /\ (Len(rows) <= TakeRows => FirstShown(rows) = 1)
BY SizesAssumption, LenProperties DEF FirstShown

LEMMA InboxTyped ==
  ASSUME TypeOK, Inbox
  PROVE  TypeOK'
<1> USE DEF TypeOK, calls, work, store, history, Change, NoView
<1>0. view \in Views /\ NoView \in Views /\ \A u \in Users : inbox[u] \in Seq(Row)
  BY DEF Views
<1>1. CASE FindMany
  <2>1. view.user \in Users
    BY <1>1 DEF FindMany
  <2>2. Unread(inbox[view.user], FirstShown(inbox[view.user])) \in Nat
    BY <1>0, <2>1, UnreadTyped, FirstShownTyped
  <2>3. view' \in Views
    <3>1. (Len(inbox[view.user]) > TakeRows) \in BOOLEAN
      OBVIOUS
    <3> QED
      BY <1>0, <1>1, <2>2, <3>1, ViewsChange DEF FindMany
  <2> QED
    BY <1>1, <2>3 DEF FindMany, Views
<1>2. CASE CountUnread
  <2>1. view.user \in Users
    BY <1>2 DEF CountUnread
  <2>2. Unread(inbox[view.user], 1) \in Nat
    BY <1>0, <2>1, UnreadTyped
  <2>3. view' \in Views
    BY <1>0, <1>2, ViewsChange, <2>2 DEF CountUnread
  <2> QED
    BY <1>2, <2>3 DEF CountUnread, Views
<1>3. CASE Answer
  BY <1>3 DEF Answer
<1>4. ASSUME NEW u \in Users, OpenInbox(u) PROVE TypeOK'
  <2>1. view' \in Views
    BY <1>0, <1>4, ViewsChange DEF OpenInbox
  <2> QED
    BY <1>4, <2>1 DEF OpenInbox, Views
<1>5. ASSUME NEW u \in Users, MarkAllRead(u) PROVE TypeOK'
  <2> DEFINE rows == [i \in DOMAIN inbox[u] |-> [inbox[u][i] EXCEPT !.unread = FALSE]]
  <2>0. Len(inbox[u]) \in Nat /\ inbox[u] \in [1 .. Len(inbox[u]) -> Row] /\ DOMAIN inbox[u] = 1 .. Len(inbox[u])
    BY <1>0, LenProperties
  <2>1. rows \in [1 .. Len(inbox[u]) -> Row]
    <3>1. \A i \in 1 .. Len(inbox[u]) : inbox[u][i] \in Row
      BY <2>0
    <3>2. \A r \in Row : [r EXCEPT !.unread = FALSE] \in Row
      BY DEF Row
    <3> QED
      BY <2>0, <3>1, <3>2
  <2>2. rows \in Seq(Row)
    BY <2>0, <2>1
  <2>3. inbox' = [inbox EXCEPT ![u] = rows]
    BY <1>5 DEF MarkAllRead
  <2> HIDE DEF rows
  <2>4. inbox' \in [Users -> Seq(Row)]
    BY <2>2, <2>3
  <2>5. view' \in Views
    BY <1>5, <1>0, ViewsChange DEF MarkAllRead
  <2> QED
    BY <1>5, <2>4, <2>5 DEF MarkAllRead, Views
<1> QED
  BY <1>1, <1>2, <1>3, <1>4, <1>5 DEF Inbox

\* Every state has the shapes of TypeOK.
LEMMA NextTyped ==
  ASSUME TypeOK, [Next]_vars
  PROVE  TypeOK'
<1>1. CASE Calls
  <2>1. PICK p \in Pushes, a \in Users, first \in SUBSET Users, staffToo \in BOOLEAN,
            k \in {"direct", "chat", "staff", "test"} : Starts(p, k, a, first, staffToo)
    BY <1>1, CallsStart
  <2> QED
    BY <2>1 DEF Starts, TypeOK, Goto, store
<1>2. CASE Registry
  <2> USE DEF TypeOK, calls, work, Change, Delete
  <2>1. ASSUME NEW d \in Devices, NEW u \in Users, Register(d, u) PROVE TypeOK'
    BY <2>1 DEF Register
  <2>2. ASSUME NEW d \in Devices, Unregister(d) PROVE TypeOK'
    BY <2>2 DEF Unregister
  <2>3. ASSUME NEW d \in Devices, Uninstall(d) PROVE TypeOK'
    BY <2>3 DEF Uninstall
  <2>4. ASSUME NEW u \in Users, StaffChanges(u) PROVE TypeOK'
    BY <2>4 DEF StaffChanges
  <2> QED
    BY <1>2, <2>1, <2>2, <2>3, <2>4 DEF Registry
<1>3. CASE Inbox
  BY <1>3, InboxTyped
<1>4. CASE Restart
  BY <1>4 DEF Restart, TypeOK, store, calls, work, history, Change, NoView
<1>5. CASE \E p \in Pushes : Step(p)
  BY <1>5, StepTyped
<1>6. CASE UNCHANGED vars
  BY <1>6 DEF TypeOK, vars, store, calls, work, history
<1> QED
  BY <1>1, <1>2, <1>3, <1>4, <1>5, <1>6 DEF Next
\* The registry and the inbox leave the pushes alone.
LEMMA NoPush ==
  ASSUME Registry \/ Inbox \/ UNCHANGED vars
  PROVE  UNCHANGED <<pc, calls, work, untried, unsaved>>
<1>1. CASE Registry
  BY <1>1 DEF Registry, Register, Unregister, Uninstall, StaffChanges
<1>2. CASE Inbox
  BY <1>2 DEF Inbox, FindMany, CountUnread, Answer, OpenInbox, MarkAllRead, history
<1>3. CASE UNCHANGED vars
  BY <1>3 DEF vars, history
<1> QED
  BY <1>1, <1>2, <1>3
--------------------------------------------------------------------------------
LEMMA RestBeyond ==
  ASSUME NEW S, NEW s \in Seq(S), NEW n \in Nat, n >= Len(s)
  PROVE  Rest(s, n + 1) = {}
BY LenProperties DEF Rest

\* A chunk that was tried takes its tokens out of those ahead.
LEMMA TriedAhead ==
  ASSUME TypeOK, NEW p \in Pushes, UntriedOf(p), pc[p] = "send", Tried(p), kind[p] # "test"
  PROVE  untried'[p] \subseteq Rest(unique[p], Behind(p) + 1)
<1>1. untried'[p] = untried[p] \ {Sent(p)[i] : i \in DOMAIN Sent(p)}
  BY DEF Tried, TypeOK
<1>2. untried[p] \subseteq Rest(unique[p], at[p] + 1)
  BY DEF UntriedOf
<1>3. SUFFICES ASSUME NEW d \in untried'[p] PROVE d \in Rest(unique[p], Behind(p) + 1)
  OBVIOUS
<1>4. PICK k \in at[p] + 1 .. Len(unique[p]) : d = unique[p][k]
  BY <1>1, <1>2, <1>3 DEF Rest
<1>5. at[p] \in Nat /\ Behind(p) \in Nat /\ Len(unique[p]) \in Nat
  BY SizesAssumption, LenProperties DEF TypeOK, Behind, Size
<1>6. ~(k <= Behind(p))
  BY <1>1, <1>3, <1>4, SentTokens
<1>7. k \in Behind(p) + 1 .. Len(unique[p])
  BY <1>4, <1>5, <1>6
<1> QED
  BY <1>4, <1>7 DEF Rest

\* So does the step to the next chunk, or to what follows the last.
LEMMA NextChunkAhead ==
  ASSUME TypeOK, NEW p \in Pushes, NextChunk(p), UNCHANGED <<kind, unique>>,
         kind[p] # "test" => untried'[p] \subseteq Rest(unique[p], Behind(p) + 1)
  PROVE  UntriedOf(p)'
<1>1. at'[p] = Behind(p) /\ Behind(p) \in Nat /\ unique[p] \in Seq(Devices) /\ Len(unique[p]) \in Nat
  BY SizesAssumption, LenProperties DEF NextChunk, TypeOK, Behind, Size
<1>2. pc'[p] = IF Behind(p) < Len(unique[p]) THEN "send" ELSE Onward(p)
  BY DEF NextChunk, Goto, TypeOK
<1>3. CASE Behind(p) < Len(unique[p])
  <2>1. pc'[p] = "send" /\ kind'[p] = kind[p] /\ unique'[p] = unique[p]
    BY <1>2, <1>3
  <2> QED
    BY <1>1, <2>1 DEF UntriedOf
<1>4. CASE ~(Behind(p) < Len(unique[p]))
  <2>1. Rest(unique[p], Behind(p) + 1) = {}
    BY <1>1, <1>4, RestBeyond
  <2>2. pc'[p] \in {"users", "done"} /\ kind'[p] = kind[p]
    BY <1>2, <1>4 DEF Onward
  <2> QED
    BY <2>1, <2>2 DEF UntriedOf
<1> QED
  BY <1>3, <1>4

LEMMA UntriedFrame ==
  ASSUME NEW q \in Pushes, UntriedOf(q), pc'[q] = pc[q] \/ pc'[q] = "lost", kind'[q] = kind[q],
         untried'[q] = untried[q], unique'[q] = unique[q], at'[q] = at[q]
  PROVE  UntriedOf(q)'
BY DEF UntriedOf, Behind, Size

LEMMA StepUntried ==
  ASSUME TypeOK, NEW p \in Pushes, UntriedOf(p), Step(p)
  PROVE  UntriedOf(p)'
<1> USE DEF calls, work, store, history
<1>1. CASE FindStaff(p)
  BY <1>1 DEF FindStaff, Goto, TypeOK, UntriedOf
<1>2. CASE CreateRows(p)
  BY <1>2 DEF CreateRows, Goto, TypeOK, UntriedOf
<1>3. CASE CreateRowsFails(p)
  BY <1>3 DEF CreateRowsFails, Goto, TypeOK, UntriedOf
<1>4. CASE ReadDevices(p)
  <2>1. PICK order \in SetToSeqs(TokensOf(p)) : unique' = [unique EXCEPT ![p] = order]
    BY <1>4 DEF ReadDevices
  <2>2. unique'[p] = order /\ at'[p] = 0 /\ kind'[p] = kind[p]
    BY <1>4, <2>1 DEF ReadDevices, TypeOK
  <2>3. untried'[p] = untried[p] \cup TokensOf(p)
    BY <1>4 DEF ReadDevices, TypeOK
  <2>4. pc[p] = "devices" /\ pc'[p] = IF TokensOf(p) = {} THEN Onward(p) ELSE "send"
    BY <1>4 DEF ReadDevices, TypeOK, Goto
  <2>5. TokensOf(p) = Rest(order, 0 + 1)
    BY OrdersCover DEF Rest
  <2>6. kind[p] # "test" => untried'[p] = Rest(order, 0 + 1) /\ untried[p] = {}
    BY <2>3, <2>4, <2>5 DEF UntriedOf
  <2>7. CASE TokensOf(p) = {}
    BY <2>2, <2>4, <2>5, <2>6, <2>7 DEF UntriedOf, Onward
  <2>8. CASE TokensOf(p) # {}
    <3>1. pc'[p] = "send"
      BY <2>4, <2>8
    <3> QED
      BY <2>2, <2>6, <3>1 DEF UntriedOf
  <2> QED
    BY <2>7, <2>8
<1>5. CASE Send(p)
  <2>1. PICK reported : Answered(p, reported)
    BY <1>5 DEF Send
  <2>2. kind[p] # "test" => untried'[p] \subseteq Rest(unique[p], Behind(p) + 1)
    BY <2>1, TriedAhead DEF Answered
  <2>3. UNCHANGED <<kind, unique>>
    BY <2>1 DEF Answered
  <2>4. CASE reported = {}
    BY <2>1, <2>2, <2>3, <2>4, NextChunkAhead DEF Answered
  <2>5. CASE reported # {}
    <3>1. pc' = [pc EXCEPT ![p] = "prune"] /\ at' = at
      BY <2>1, <2>5 DEF Answered, Goto
    <3>2. pc'[p] = "prune" /\ at'[p] = at[p] /\ kind'[p] = kind[p] /\ unique'[p] = unique[p]
      BY <2>3, <3>1 DEF TypeOK
    <3> QED
      BY <2>2, <3>2 DEF UntriedOf, Behind, Size
  <2> QED
    BY <2>4, <2>5
<1>6. CASE SendFails(p)
  <2>1. UNCHANGED <<kind, unique>>
    BY <1>6 DEF SendFails
  <2>2. CASE kind[p] = "test"
    <3>1. kind'[p] = "test" /\ pc'[p] = "done"
      BY <1>6, <2>1, <2>2 DEF SendFails, Goto, TypeOK
    <3> QED
      BY <3>1 DEF UntriedOf
  <2>3. CASE kind[p] # "test"
    BY <1>6, <2>1, <2>3, TriedAhead, NextChunkAhead DEF SendFails
  <2> QED
    BY <2>2, <2>3
<1>7. CASE Prune(p)
  <2>1. UNCHANGED <<kind, unique, untried>> /\ NextChunk(p) /\ pc[p] = "prune"
    BY <1>7 DEF Prune
  <2>2. kind[p] # "test" => untried'[p] \subseteq Rest(unique[p], Behind(p) + 1)
    BY <2>1 DEF UntriedOf
  <2> QED
    BY <2>1, <2>2, NextChunkAhead
<1>8. CASE PruneFails(p)
  <2>1. UNCHANGED <<kind, unique, untried>> /\ pc[p] = "prune"
    BY <1>8 DEF PruneFails
  <2>2. kind[p] # "test" => untried'[p] \subseteq Rest(unique[p], Behind(p) + 1)
    BY <2>1 DEF UntriedOf
  <2>3. CASE kind[p] = "test"
    <3>1. kind'[p] = "test" /\ pc'[p] = "done"
      BY <1>8, <2>1, <2>3 DEF PruneFails, Goto, TypeOK
    <3> QED
      BY <3>1 DEF UntriedOf
  <2>4. CASE kind[p] # "test"
    BY <1>8, <2>1, <2>2, <2>4, NextChunkAhead DEF PruneFails
  <2> QED
    BY <2>3, <2>4
<1> QED
  BY <1>1, <1>2, <1>3, <1>4, <1>5, <1>6, <1>7, <1>8 DEF Step

LEMMA NextUntried ==
  ASSUME TypeOK, UntriedAhead, [Next]_vars
  PROVE  UntriedAhead'
<1> SUFFICES ASSUME NEW q \in Pushes PROVE UntriedOf(q)'
  BY DEF UntriedAhead
<1>0. UntriedOf(q)
  BY DEF UntriedAhead
<1>1. CASE Calls
  <2>1. PICK p \in Pushes, a \in Users, first \in SUBSET Users, staffToo \in BOOLEAN,
            k \in {"direct", "chat", "staff", "test"} : Starts(p, k, a, first, staffToo)
    BY <1>1, CallsStart
  <2>2. UNCHANGED <<untried, unique, at>>
    BY <2>1 DEF Starts
  <2>3. CASE q = p
    BY <1>0, <2>1, <2>2, <2>3, StartsLeaves DEF UntriedOf
  <2>4. CASE q # p
    <3>1. pc'[q] = pc[q] /\ kind'[q] = kind[q]
      BY <2>1, <2>4, StartsLeaves
    <3> QED
      BY <1>0, <2>2, <3>1, UntriedFrame
  <2> QED
    BY <2>3, <2>4
<1>2. CASE UNCHANGED <<pc, kind, untried, unique, at>>
  BY <1>0, <1>2, UntriedFrame
<1>3. CASE Restart
  BY <1>0, <1>3, UntriedFrame DEF Restart, calls, work, history
<1>4. ASSUME NEW p \in Pushes, Step(p) PROVE UntriedOf(q)'
  <2>1. CASE q = p
    BY <1>0, <1>4, <2>1, StepUntried
  <2>2. CASE q # p
    BY <1>0, <1>4, <2>2, OthersStay, UntriedFrame DEF calls
  <2> QED
    BY <2>1, <2>2
<1> QED
  BY <1>1, <1>2, <1>3, <1>4, NoPush DEF Next, calls, work
--------------------------------------------------------------------------------
LEMMA StaffFrame ==
  ASSUME NEW q \in Pushes, StaffOf(q), pc'[q] = pc[q] \/ pc'[q] = "lost", kind'[q] = kind[q],
         actor'[q] = actor[q], toStaff'[q] = toStaff[q], ids'[q] = ids[q],
         steady'[q] \subseteq steady[q], steady'[q] \subseteq staff',
         q \in unsaved => q \in unsaved',
         \A u \in Users : HasRow(u, q) => HasRow(u, q)',
         steady[q] \subseteq Users
  PROVE  StaffOf(q)'
BY DEF StaffOf

\* A row once stored stays, read or unread.
LEMMA AppendKeeps ==
  ASSUME NEW rows \in Seq(Row), NEW row \in Row, NEW p
  PROVE  (\E i \in DOMAIN Append(rows, row) : Append(rows, row)[i].of = p)
           <=> (\E i \in DOMAIN rows : rows[i].of = p) \/ row.of = p
<1> DEFINE all == Append(rows, row)
<1>1. /\ Len(rows) \in Nat /\ DOMAIN rows = 1 .. Len(rows) /\ DOMAIN all = 1 .. Len(rows) + 1
      /\ \A i \in 1 .. Len(rows) : all[i] = rows[i]
      /\ all[Len(rows) + 1] = row
  BY AppendProperties, LenProperties
<1> HIDE DEF all
<1>2. ASSUME NEW i \in DOMAIN all, all[i].of = p
      PROVE  (\E j \in DOMAIN rows : rows[j].of = p) \/ row.of = p
  <2>1. i = Len(rows) + 1 \/ i \in DOMAIN rows
    BY <1>1
  <2> QED
    BY <1>1, <1>2, <2>1
<1>3. ASSUME NEW i \in DOMAIN rows, rows[i].of = p
      PROVE  \E j \in DOMAIN all : all[j].of = p
  BY <1>1, <1>3
<1>4. row.of = p => \E j \in DOMAIN all : all[j].of = p
  BY <1>1
<1> QED
  BY <1>2, <1>3, <1>4 DEF all

LEMMA RowsStored ==
  ASSUME TypeOK, NEW p \in Pushes, CreateRows(p), NEW u \in Users, NEW q \in Pushes
  PROVE  HasRow(u, q)' <=> HasRow(u, q) \/ (q = p /\ u \in ids[p])
<1> DEFINE row == [of |-> p, unread |-> TRUE]
<1>1. row \in Row /\ row.of = p /\ inbox[u] \in Seq(Row)
  BY DEF Row, TypeOK
<1>2. inbox'[u] = IF u \in ids[p] THEN Append(inbox[u], row) ELSE inbox[u]
  BY DEF CreateRows
<1> HIDE DEF row
<1>3. CASE u \in ids[p]
  <2>1. inbox'[u] = Append(inbox[u], row)
    BY <1>2, <1>3
  <2> QED
    BY <1>1, <1>3, <2>1, AppendKeeps DEF HasRow
<1>4. CASE u \notin ids[p]
  BY <1>2, <1>4 DEF HasRow
<1> QED
  BY <1>3, <1>4

LEMMA RowsRead ==
  ASSUME TypeOK, NEW r \in Users, MarkAllRead(r), NEW u \in Users, NEW q \in Pushes
  PROVE  HasRow(u, q)' <=> HasRow(u, q)
<1>1. inbox'[u] = IF u = r THEN [i \in DOMAIN inbox[u] |-> [inbox[u][i] EXCEPT !.unread = FALSE]]
                  ELSE inbox[u]
  BY DEF MarkAllRead, TypeOK
<1>2. \A i \in DOMAIN inbox[u] : inbox[u][i] \in Row
  BY LenProperties, ElementOfSeq DEF TypeOK
<1>3. DOMAIN inbox'[u] = DOMAIN inbox[u]
  BY <1>1
<1>4. ASSUME NEW i \in DOMAIN inbox[u] PROVE inbox'[u][i].of = inbox[u][i].of
  <2>1. \A x \in Row : [x EXCEPT !.unread = FALSE].of = x.of
    BY DEF Row
  <2> QED
    BY <1>1, <1>2, <1>4, <2>1
<1> QED
  BY <1>3, <1>4 DEF HasRow

\* The rows of the inbox that every step but one leaves alone.
LEMMA RowsStay ==
  ASSUME TypeOK, [Next]_vars, \A p \in Pushes : ~CreateRows(p)
  PROVE  \A u \in Users, q \in Pushes : HasRow(u, q)' <=> HasRow(u, q)
<1>1. CASE Calls
  <2>1. PICK p \in Pushes, a \in Users, first \in SUBSET Users, staffToo \in BOOLEAN,
            k \in {"direct", "chat", "staff", "test"} : Starts(p, k, a, first, staffToo)
    BY <1>1, CallsStart
  <2> QED
    BY <2>1 DEF Starts, store, HasRow
<1>2. CASE Registry
  BY <1>2 DEF Registry, Register, Unregister, Uninstall, StaffChanges, HasRow
<1>3. CASE Inbox
  <2>1. ASSUME NEW r \in Users, MarkAllRead(r)
        PROVE  \A u \in Users, q \in Pushes : HasRow(u, q)' <=> HasRow(u, q)
    BY <2>1, RowsRead
  <2>2. ASSUME UNCHANGED inbox
        PROVE  \A u \in Users, q \in Pushes : HasRow(u, q)' <=> HasRow(u, q)
    BY <2>2 DEF HasRow
  <2> QED
    BY <1>3, <2>1, <2>2 DEF Inbox, FindMany, CountUnread, Answer, OpenInbox, store
<1>4. CASE Restart
  BY <1>4 DEF Restart, store, HasRow
<1>5. CASE \E p \in Pushes : Step(p)
  <2>1. UNCHANGED inbox
    BY <1>5 DEF Step, FindStaff, CreateRowsFails, ReadDevices, Send, Answered, SendFails, Prune,
                PruneFails, store
  <2> QED
    BY <2>1 DEF HasRow
<1>6. CASE UNCHANGED vars
  BY <1>6 DEF vars, store, HasRow
<1> QED
  BY <1>1, <1>2, <1>3, <1>4, <1>5, <1>6 DEF Next

\* A row once there is there for good.
LEMMA RowsOnlyGrow ==
  ASSUME TypeOK, [Next]_vars, NEW u \in Users, NEW q \in Pushes, HasRow(u, q)
  PROVE  HasRow(u, q)'
BY RowsStay, RowsStored
\* Nothing moves a push but these steps.
LEMMA StepMoves ==
  ASSUME TypeOK, NEW p \in Pushes, Step(p)
  PROVE  \/ /\ pc[p] = "users" /\ ids'[p] = staff \ {actor[p]} /\ toStaff'[p] = FALSE
            /\ pc'[p] = IF staff \subseteq {actor[p]} THEN "done" ELSE "persist"
            /\ ~CreateRows(p) /\ UNCHANGED unsaved
         \/ /\ CreateRows(p) /\ pc[p] = "persist" /\ pc'[p] = "devices"
            /\ UNCHANGED <<unsaved, ids, toStaff>>
         \/ /\ pc[p] = "persist" /\ pc'[p] = "devices"
            /\ unsaved' = unsaved \cup {p} /\ UNCHANGED <<ids, toStaff>>
         \/ /\ pc[p] \in {"devices", "send", "prune"}
            /\ pc'[p] \in {Onward(p), "send", "prune"} \/ (kind[p] = "test" /\ pc'[p] = "done")
            /\ ~CreateRows(p) /\ UNCHANGED <<unsaved, ids, toStaff>>
<1> USE DEF TypeOK, Goto, work, history
<1>1. CASE FindStaff(p) BY <1>1 DEF FindStaff, CreateRows
<1>2. CASE CreateRows(p) BY <1>2 DEF CreateRows
<1>3. CASE CreateRowsFails(p) BY <1>3 DEF CreateRowsFails
<1>4. CASE ReadDevices(p) BY <1>4 DEF ReadDevices, CreateRows
<1>5. CASE Send(p) BY <1>5 DEF Send, Answered, NextChunk, CreateRows
<1>6. CASE SendFails(p) BY <1>6 DEF SendFails, NextChunk, CreateRows
<1>7. CASE Prune(p) BY <1>7 DEF Prune, NextChunk, CreateRows
<1>8. CASE PruneFails(p) BY <1>8 DEF PruneFails, NextChunk, CreateRows
<1> QED
  BY <1>1, <1>2, <1>3, <1>4, <1>5, <1>6, <1>7, <1>8 DEF Step

LEMMA StepStaff ==
  ASSUME TypeOK, NEW p \in Pushes, StaffOf(p), Step(p)
  PROVE  StaffOf(p)'
<1>1. /\ kind'[p] = kind[p] /\ actor'[p] = actor[p] /\ steady'[p] = steady[p] /\ staff' = staff
      /\ steady[p] \subseteq Users
  BY OthersStay DEF calls, TypeOK
<1>2. \A u \in Users : HasRow(u, p) => HasRow(u, p)'
  BY RowsOnlyGrow DEF Next
<1>3. steady[p] \subseteq staff
  BY DEF StaffOf
<1>4. CASE /\ pc[p] = "users" /\ ids'[p] = staff \ {actor[p]} /\ toStaff'[p] = FALSE
           /\ pc'[p] = IF staff \subseteq {actor[p]} THEN "done" ELSE "persist"
  <2>1. CASE staff \subseteq {actor[p]}
    <3>1. steady[p] \ {actor[p]} = {} /\ pc'[p] = "done"
      BY <1>3, <1>4, <2>1
    <3> QED
      BY <1>1, <1>3, <1>4, <3>1 DEF StaffOf
  <2>2. CASE ~(staff \subseteq {actor[p]})
    <3>1. pc'[p] = "persist"
      BY <1>4, <2>2
    <3> QED
      BY <1>1, <1>3, <1>4, <3>1 DEF StaffOf
  <2> QED
    BY <2>1, <2>2
<1>5. CASE CreateRows(p) /\ pc[p] = "persist" /\ pc'[p] = "devices" /\ UNCHANGED <<unsaved, ids, toStaff>>
  <2>1. \A u \in Users : u \in ids[p] => HasRow(u, p)'
    BY <1>5, RowsStored
  <2>2. toStaff'[p] = toStaff[p]
    BY <1>5
  <2> QED
    BY <1>1, <1>5, <2>1, <2>2 DEF StaffOf
<1>6. CASE pc[p] = "persist" /\ pc'[p] = "devices" /\ unsaved' = unsaved \cup {p}
           /\ UNCHANGED <<ids, toStaff>>
  BY <1>1, <1>6 DEF StaffOf
<1>7. CASE /\ pc[p] \in {"devices", "send", "prune"}
           /\ pc'[p] \in {Onward(p), "send", "prune"} \/ (kind[p] = "test" /\ pc'[p] = "done")
           /\ UNCHANGED <<unsaved, ids, toStaff>>
  <2>1. toStaff'[p] = toStaff[p] /\ unsaved' = unsaved
    BY <1>7
  <2>2. CASE kind[p] = "test" /\ pc'[p] = "done"
    BY <1>1, <2>2 DEF StaffOf
  <2>3. CASE pc'[p] \in {Onward(p), "send", "prune"}
    BY <1>1, <1>2, <1>7, <2>1, <2>3 DEF StaffOf, Onward
  <2> QED
    BY <1>7, <2>2, <2>3
<1> QED
  BY <1>4, <1>5, <1>6, <1>7, StepMoves

LEMMA NextStaff ==
  ASSUME TypeOK, StaffFound, [Next]_vars
  PROVE  StaffFound'
<1> SUFFICES ASSUME NEW q \in Pushes PROVE StaffOf(q)'
  BY DEF StaffFound
<1>0. StaffOf(q) /\ steady[q] \subseteq Users /\ \A u \in Users : HasRow(u, q) => HasRow(u, q)'
  BY RowsOnlyGrow DEF StaffFound, TypeOK
<1>1. CASE Calls
  <2>1. PICK p \in Pushes, a \in Users, first \in SUBSET Users, staffToo \in BOOLEAN,
            k \in {"direct", "chat", "staff", "test"} :
          /\ Starts(p, k, a, first, staffToo)
          /\ k = "direct" => first # {}
          /\ k \in {"chat", "staff"} => staffToo
    BY <1>1, CallsStart
  <2>2. staff' = staff /\ unsaved' = unsaved
    BY <2>1 DEF Starts, store
  <2>3. CASE q = p
    <3>1. /\ kind'[q] = k /\ toStaff'[q] = staffToo /\ steady'[q] = staff
          /\ pc'[q] = IF k = "test" THEN "devices" ELSE IF first # {} THEN "persist" ELSE "users"
      BY <2>1, <2>3, StartsLeaves
    <3>2. pc'[q] # "done" /\ (pc'[q] = "users" => staffToo)
      BY <2>1, <3>1
    <3>3. ~(kind'[q] \in {"chat", "staff"} /\ ~toStaff'[q])
      BY <2>1, <3>1
    <3> QED
      BY <2>2, <3>1, <3>2, <3>3 DEF StaffOf
  <2>4. CASE q # p
    <3>1. /\ pc'[q] = pc[q] /\ kind'[q] = kind[q] /\ actor'[q] = actor[q]
          /\ ids'[q] = ids[q] /\ toStaff'[q] = toStaff[q] /\ steady'[q] = steady[q]
      BY <2>1, <2>4, StartsLeaves
    <3>2. steady'[q] \subseteq staff'
      BY <1>0, <2>2, <3>1 DEF StaffOf
    <3> QED
      BY <1>0, <2>2, <3>1, <3>2, StaffFrame
  <2> QED
    BY <2>3, <2>4
<1>2. CASE Registry \/ Inbox \/ UNCHANGED vars
  <2>1. UNCHANGED <<pc, calls, work, unsaved>>
    BY <1>2, NoPush
  <2>2. steady'[q] \subseteq steady[q] /\ steady'[q] \subseteq staff'
    <3>1. CASE UNCHANGED <<staff, steady>>
      BY <1>0, <3>1 DEF StaffOf
    <3>2. ASSUME NEW u \in Users, StaffChanges(u)
          PROVE  steady'[q] \subseteq steady[q] /\ steady'[q] \subseteq staff'
      BY <1>0, <3>2 DEF StaffChanges, StaffOf
    <3> QED
      BY <1>2, <3>1, <3>2 DEF Registry, Register, Unregister, Uninstall, Inbox, FindMany, CountUnread,
           Answer, OpenInbox, MarkAllRead, store, history, vars
  <2>3. pc'[q] = pc[q] /\ kind'[q] = kind[q] /\ actor'[q] = actor[q] /\ toStaff'[q] = toStaff[q]
        /\ ids'[q] = ids[q] /\ unsaved' = unsaved
    BY <2>1 DEF calls, work
  <2> QED
    BY <1>0, <2>2, <2>3, StaffFrame
<1>3. CASE Restart
  <2>1. (pc'[q] = pc[q] \/ pc'[q] = "lost") /\ UNCHANGED <<store, calls, work, history>>
    BY <1>3 DEF Restart
  <2>2. steady'[q] \subseteq staff'
    BY <1>0, <2>1 DEF StaffOf, store, history
  <2> QED
    BY <1>0, <2>1, <2>2, StaffFrame DEF calls, work, history
<1>4. ASSUME NEW p \in Pushes, Step(p) PROVE StaffOf(q)'
  <2>1. CASE q = p
    BY <1>0, <1>4, <2>1, StepStaff
  <2>2. CASE q # p
    <3>1. /\ pc'[q] = pc[q] /\ kind'[q] = kind[q] /\ actor'[q] = actor[q]
          /\ ids'[q] = ids[q] /\ toStaff'[q] = toStaff[q] /\ steady'[q] = steady[q] /\ staff' = staff
      BY <1>4, <2>2, OthersStay DEF calls
    <3>2. unsaved \subseteq unsaved'
      BY <1>4, StepMoves
    <3>3. steady'[q] \subseteq staff'
      BY <1>0, <3>1 DEF StaffOf
    <3> QED
      BY <1>0, <3>1, <3>2, <3>3, StaffFrame
  <2> QED
    BY <2>1, <2>2
<1> QED
  BY <1>1, <1>2, <1>3, <1>4 DEF Next

--------------------------------------------------------------------------------
LEMMA NextActor ==
  ASSUME TypeOK, ActorSpared, [Next]_vars
  PROVE  ActorSpared'
<1> SUFFICES ASSUME NEW q \in Pushes PROVE ActorOf(q)'
  BY DEF ActorSpared
<1>0. ActorOf(q) /\ actor[q] \in Users
  BY DEF ActorSpared, TypeOK
<1>a. ASSUME pc'[q] = pc[q] \/ pc'[q] # "idle", kind'[q] = kind[q], actor'[q] = actor[q],
             ids'[q] = ids[q], \A u \in Users : HasRow(u, q)' <=> HasRow(u, q)
      PROVE  ActorOf(q)'
  BY <1>0, <1>a DEF ActorOf
<1>1. CASE Calls
  <2>1. PICK p \in Pushes, a \in Users, first \in SUBSET Users, staffToo \in BOOLEAN,
            k \in {"direct", "chat", "staff", "test"} :
          Starts(p, k, a, first, staffToo) /\ a \notin first
    BY <1>1, CallsStart
  <2>2. \A u \in Users : HasRow(u, q)' <=> HasRow(u, q)
    BY <2>1 DEF Starts, store, HasRow
  <2>3. CASE q = p
    <3>1. pc[q] = "idle" /\ kind'[q] = k /\ actor'[q] = a /\ ids'[q] = first /\ pc'[q] # "idle"
      BY <2>1, <2>3, StartsMoves
    <3> QED
      BY <1>0, <2>1, <2>2, <3>1 DEF ActorOf
  <2>4. CASE q # p
    <3>1. pc'[q] = pc[q] /\ kind'[q] = kind[q] /\ actor'[q] = actor[q] /\ ids'[q] = ids[q]
      BY <2>1, <2>4, StartsMoves
    <3> QED
      BY <1>a, <2>2, <3>1
  <2> QED
    BY <2>3, <2>4
<1>2. CASE Registry \/ Inbox \/ UNCHANGED vars
  <2>1. \A u \in Users : HasRow(u, q)' <=> HasRow(u, q)
    <3>1. ASSUME NEW r \in Users, MarkAllRead(r) PROVE \A u \in Users : HasRow(u, q)' <=> HasRow(u, q)
      BY <3>1, RowsRead
    <3>2. ASSUME UNCHANGED inbox PROVE \A u \in Users : HasRow(u, q)' <=> HasRow(u, q)
      BY <3>2 DEF HasRow
    <3> QED
      BY <1>2, <3>1, <3>2 DEF Registry, Register, Unregister, Uninstall, StaffChanges, Inbox,
           FindMany, CountUnread, Answer, OpenInbox, store, vars
  <2> QED
    BY <1>2, <1>a, <2>1, NoPush DEF calls, work
<1>3. CASE Restart
  <2>1. \A u \in Users : HasRow(u, q)' <=> HasRow(u, q)
    BY <1>3 DEF Restart, store, HasRow
  <2>2. pc'[q] = pc[q] \/ pc'[q] # "idle"
    BY <1>3 DEF Restart
  <2> QED
    BY <1>3, <1>a, <2>1, <2>2 DEF Restart, calls, work
<1>4. ASSUME NEW p \in Pushes, Step(p) PROVE ActorOf(q)'
  <2>0. kind'[q] = kind[q] /\ actor'[q] = actor[q]
    BY <1>4, OthersStay DEF calls
  <2>1. \A u \in Users : HasRow(u, q)' <=> HasRow(u, q) \/ (CreateRows(p) /\ q = p /\ u \in ids[p])
    <3>1. CASE CreateRows(p)
      BY <3>1, RowsStored
    <3>2. CASE ~CreateRows(p)
      <4>1. \/ UNCHANGED inbox
        BY <1>4, <3>2 DEF Step, FindStaff, CreateRowsFails, ReadDevices, Send, Answered, SendFails, Prune,
             PruneFails, store
      <4> QED
        BY <3>2, <4>1 DEF HasRow
    <3> QED
      BY <3>1, <3>2
  <2>2. CASE q = p
    <3>1. pc'[q] # "idle" /\ pc[q] # "idle"
      BY <1>4, <2>2, StepMoves DEF Onward
    <3>2. ids'[q] = ids[q] \/ (ids'[q] = staff \ {actor[q]} /\ ~CreateRows(p))
      BY <1>4, <2>2, StepMoves
    <3> QED
      BY <1>0, <2>0, <2>1, <2>2, <3>1, <3>2 DEF ActorOf
  <2>3. CASE q # p
    <3>1. pc'[q] = pc[q] /\ ids'[q] = ids[q]
      BY <1>4, <2>3, OthersStay
    <3> QED
      BY <1>a, <2>0, <2>1, <2>3, <3>1
  <2> QED
    BY <2>2, <2>3
<1> QED
  BY <1>1, <1>2, <1>3, <1>4 DEF Next
--------------------------------------------------------------------------------
LEMMA NextHeld ==
  ASSUME TypeOK, HeldByUser, [Next]_vars
  PROVE  HeldByUser'
<1>1. CASE Registry
  <2>1. ASSUME NEW d \in Devices, NEW u \in Users, Register(d, u) PROVE HeldByUser'
    <3>1. holder'[d] = u /\ \A x \in Devices \ {d} : holder'[x] = holder[x]
      BY <2>1 DEF Register, TypeOK
    <3>2. devices' = {row \in devices : row[1] # d} \cup {<<d, u>>}
      BY <2>1 DEF Register
    <3>3. \A row \in devices : row[1] \in Devices
      BY DEF TypeOK
    <3> QED
      BY <3>1, <3>2, <3>3 DEF HeldByUser
  <2>2. ASSUME NEW d \in Devices, Unregister(d) PROVE HeldByUser'
    BY <2>2 DEF Unregister, Delete, HeldByUser
  <2>3. ASSUME UNCHANGED <<devices, holder>> PROVE HeldByUser'
    BY <2>3 DEF HeldByUser
  <2> QED
    BY <1>1, <2>1, <2>2, <2>3 DEF Registry, Uninstall, StaffChanges
<1>2. CASE devices' \subseteq devices /\ UNCHANGED holder
  BY <1>2 DEF HeldByUser
<1>3. CASE Calls
  <2>1. PICK p \in Pushes, a \in Users, first \in SUBSET Users, staffToo \in BOOLEAN,
            k \in {"direct", "chat", "staff", "test"} : Starts(p, k, a, first, staffToo)
    BY <1>3, CallsStart
  <2> QED
    BY <1>2, <2>1 DEF Starts, store
<1>4. CASE Inbox \/ Restart \/ UNCHANGED vars
  BY <1>2, <1>4 DEF Inbox, FindMany, CountUnread, Answer, OpenInbox, MarkAllRead, Restart, store,
     history, vars
<1>5. ASSUME NEW p \in Pushes, Step(p) PROVE HeldByUser'
  <2>1. devices' \subseteq devices
    BY <1>5 DEF Step, FindStaff, CreateRows, CreateRowsFails, ReadDevices, Send, Answered, SendFails,
         Prune, Delete, PruneFails, store
  <2> QED
    BY <1>2, <1>5, <2>1, OthersStay
<1> QED
  BY <1>1, <1>3, <1>4, <1>5 DEF Next

LEMMA DeadFrame ==
  ASSUME DeadNotKept, kept' \subseteq installed', kept' \subseteq kept,
         \A p \in Pushes : pc'[p] = "prune" => pc[p] = "prune" /\ dead'[p] = dead[p]
  PROVE  DeadNotKept'
BY DEF DeadNotKept

\* What a ticket reports is on no device that can still be kept.
LEMMA StepDead ==
  ASSUME TypeOK, DeadNotKept, NEW p \in Pushes, Step(p)
  PROVE  DeadNotKept'
<1>1. UNCHANGED <<installed, kept>>
  BY OthersStay
<1>2. pc'[p] = "prune" => dead'[p] \cap kept = {}
  <2>1. CASE Send(p)
    <3>1. PICK reported : /\ Answered(p, reported)
                          /\ reported = {Sent(p)[i] : i \in Unknown(p)}
      BY <2>1 DEF Send
    <3>2. reported \cap installed = {}
      BY <3>1 DEF Unknown
    <3>3. kept \subseteq installed
      BY DEF DeadNotKept
    <3>4. CASE reported = {}
      BY <3>1, <3>4 DEF Answered, NextChunk, Goto, Onward, TypeOK
    <3>5. CASE reported # {}
      <4>1. dead' = [dead EXCEPT ![p] = reported]
        BY <3>1, <3>5 DEF Answered
      <4>2. dead'[p] = reported
        BY <4>1 DEF TypeOK
      <4> QED
        BY <3>2, <3>3, <4>2
    <3> QED
      BY <3>4, <3>5
  <2>2. CASE ~Send(p)
    <3>1. pc'[p] # "prune"
      BY <2>2 DEF Step, FindStaff, CreateRows, CreateRowsFails, ReadDevices, SendFails, Prune,
           PruneFails, NextChunk, Onward, Goto, TypeOK
    <3> QED
      BY <3>1
  <2> QED
    BY <2>1, <2>2
<1>3. \A q \in Pushes \ {p} : pc'[q] = pc[q] /\ dead'[q] = dead[q]
  BY OthersStay
<1> QED
  BY <1>1, <1>2, <1>3 DEF DeadNotKept

LEMMA NextDead ==
  ASSUME TypeOK, DeadNotKept, [Next]_vars
  PROVE  DeadNotKept'
<1>1. CASE Calls
  <2>1. PICK p \in Pushes, a \in Users, first \in SUBSET Users, staffToo \in BOOLEAN,
            k \in {"direct", "chat", "staff", "test"} : Starts(p, k, a, first, staffToo)
    BY <1>1, CallsStart
  <2>2. pc'[p] # "prune" /\ \A q \in Pushes \ {p} : pc'[q] = pc[q]
    BY <2>1, StartsMoves
  <2>3. UNCHANGED <<dead, kept, installed>>
    BY <2>1 DEF Starts, store
  <2> QED
    BY <2>2, <2>3 DEF DeadNotKept
<1>2. CASE Registry
  <2>1. UNCHANGED <<pc, dead>>
    BY <1>2, NoPush DEF work
  <2>2. ASSUME NEW d \in Devices, NEW u \in Users, Register(d, u) PROVE DeadNotKept'
    <3>1. kept' = (IF Suspected(d) THEN kept ELSE kept \cup {d}) /\ installed' = installed \cup {d}
      BY <2>2 DEF Register
    <3> QED
      BY <2>1, <3>1 DEF DeadNotKept, Suspected
  <2>3. ASSUME kept' \subseteq installed', kept' \subseteq kept PROVE DeadNotKept'
    BY <2>1, <2>3, DeadFrame
  <2>4. kept \subseteq installed
    BY DEF DeadNotKept
  <2> QED
    BY <1>2, <2>2, <2>3, <2>4 DEF Registry, Unregister, Uninstall, StaffChanges
<1>3. CASE Inbox \/ UNCHANGED vars
  <2>1. UNCHANGED <<pc, dead, kept, installed>>
    BY <1>3, NoPush DEF work, Inbox, FindMany, CountUnread, Answer, OpenInbox, MarkAllRead, store,
       history, vars
  <2> QED
    BY <2>1 DEF DeadNotKept
<1>4. CASE Restart
  <2>1. UNCHANGED <<dead, kept, installed>> /\ \A q \in Pushes : pc'[q] = pc[q] \/ pc'[q] = "lost"
    BY <1>4 DEF Restart, store, work, history
  <2> QED
    BY <2>1 DEF DeadNotKept
<1>5. CASE \E p \in Pushes : Step(p)
  BY <1>5, StepDead
<1> QED
  BY <1>1, <1>2, <1>3, <1>4, <1>5 DEF Next

LEMMA NextKept ==
  ASSUME TypeOK, DeadNotKept, KeptTokens, [Next]_vars
  PROVE  KeptTokens'
<1>0. kept \subseteq Devices
  BY DEF TypeOK
<1>a. ASSUME kept' \subseteq kept, \A row \in devices : row[1] \in kept' => row \in devices'
      PROVE  KeptTokens'
  BY <1>a DEF KeptTokens
<1>1. CASE Calls
  <2>1. PICK p \in Pushes, a \in Users, first \in SUBSET Users, staffToo \in BOOLEAN,
            k \in {"direct", "chat", "staff", "test"} : Starts(p, k, a, first, staffToo)
    BY <1>1, CallsStart
  <2> QED
    BY <1>a, <2>1 DEF Starts, store
<1>2. CASE Registry
  <2>1. ASSUME NEW d \in Devices, NEW u \in Users, Register(d, u) PROVE KeptTokens'
    <3>1. kept' \subseteq kept \cup {d} /\ devices' = {row \in devices : row[1] # d} \cup {<<d, u>>}
      BY <2>1 DEF Register
    <3> QED
      BY <3>1 DEF KeptTokens
  <2>2. ASSUME NEW d \in Devices, Unregister(d) PROVE KeptTokens'
    BY <1>a, <2>2 DEF Unregister, Delete
  <2>3. ASSUME UNCHANGED devices, kept' \subseteq kept PROVE KeptTokens'
    BY <1>a, <2>3
  <2> QED
    BY <1>2, <2>1, <2>2, <2>3 DEF Registry, Uninstall, StaffChanges
<1>3. CASE Inbox \/ Restart \/ UNCHANGED vars
  BY <1>3, <1>a DEF Inbox, FindMany, CountUnread, Answer, OpenInbox, MarkAllRead, Restart, store,
     history, vars
<1>4. ASSUME NEW p \in Pushes, Step(p) PROVE KeptTokens'
  <2>1. kept' = kept
    BY <1>4, OthersStay
  <2>2. CASE Prune(p)
    <3>1. dead[p] \cap kept = {} /\ devices' = {row \in devices : row[1] \notin dead[p]}
      BY <2>2 DEF Prune, Delete, DeadNotKept
    <3> QED
      BY <1>a, <2>1, <3>1
  <2>3. CASE ~Prune(p)
    <3>1. UNCHANGED devices
      BY <1>4, <2>3 DEF Step, FindStaff, CreateRows, CreateRowsFails, ReadDevices, Send, Answered,
           SendFails, PruneFails, store
    <3> QED
      BY <1>a, <2>1, <3>1
  <2> QED
    BY <2>2, <2>3
<1> QED
  BY <1>1, <1>2, <1>3, <1>4 DEF Next

LEMMA NextReads ==
  ASSUME TypeOK, HeldByUser, [Next]_vars, NEW p \in Pushes,
         pc[p] = "devices", pc'[p] = "send", kind[p] # "test"
  PROVE  \A i \in DOMAIN unique'[p] : holder[unique'[p][i]] \in ids[p]
<1>1. CASE ReadDevices(p)
  <2>1. PICK order \in SetToSeqs(TokensOf(p)) : unique' = [unique EXCEPT ![p] = order]
    BY <1>1 DEF ReadDevices
  <2>2. unique'[p] = order
    BY <2>1 DEF TypeOK
  <2>3. \A i \in DOMAIN order : order[i] \in TokensOf(p)
    BY OrdersCover
  <2>4. \A d \in TokensOf(p) : holder[d] \in ids[p]
    BY DEF TokensOf, HeldByUser
  <2> QED
    BY <2>2, <2>3, <2>4
<1>2. CASE ~ReadDevices(p)
  <2>1. ASSUME NEW q \in Pushes, Step(q) PROVE FALSE
    <3>1. CASE q = p
      BY <1>2, <2>1, <3>1 DEF Step, FindStaff, CreateRows, CreateRowsFails, Send, Answered, SendFails,
           Prune, PruneFails
    <3>2. CASE q # p
      BY <2>1, <3>2, OthersStay
    <3> QED
      BY <3>1, <3>2
  <2>2. CASE Calls
    <3>1. PICK q \in Pushes, a \in Users, first \in SUBSET Users, staffToo \in BOOLEAN,
              k \in {"direct", "chat", "staff", "test"} : Starts(q, k, a, first, staffToo)
      BY <2>2, CallsStart
    <3> QED
      BY <3>1, StartsMoves
  <2>3. CASE Restart
    BY <2>3 DEF Restart
  <2>4. CASE Registry \/ Inbox \/ UNCHANGED vars
    BY <2>4, NoPush
  <2> QED
    BY <2>1, <2>2, <2>3, <2>4 DEF Next
<1> QED
  BY <1>1, <1>2
--------------------------------------------------------------------------------
\* One more unread row is one more unread row.
LEMMA UnreadAppend ==
  ASSUME NEW rows \in Seq(Row), NEW row \in Row, row.unread
  PROVE  Unread(Append(rows, row), 1) = Unread(rows, 1) + 1
<1> DEFINE all == Append(rows, row)
           n   == Len(rows)
           U   == {i \in 1 .. n : rows[i].unread}
<1>1. /\ n \in Nat /\ Len(all) = n + 1 /\ all[n + 1] = row
      /\ \A i \in 1 .. n : all[i] = rows[i]
  BY AppendProperties, LenProperties
<1>2. IsFiniteSet(U)
  <2>1. IsFiniteSet(1 .. n) /\ U \subseteq 1 .. n
    BY <1>1, FS_Interval
  <2> QED
    BY <2>1, FS_Subset
<1> HIDE DEF all, n
<1>3. {i \in 1 .. Len(all) : all[i].unread} = U \cup {n + 1}
  <2>1. \A i \in 1 .. n : all[i].unread <=> rows[i].unread
    BY <1>1
  <2>2. 1 .. Len(all) = (1 .. n) \cup {n + 1} /\ all[n + 1].unread
    BY <1>1
  <2> QED
    BY <2>1, <2>2
<1>4. n + 1 \notin U
  BY <1>1
<1> HIDE DEF U
<1>5. Cardinality(U \cup {n + 1}) = Cardinality(U) + 1
  BY <1>2, <1>4, FS_AddElement
<1>6. Unread(all, 1) = Cardinality(U \cup {n + 1}) /\ Unread(rows, 1) = Cardinality(U)
  BY <1>3 DEF Unread, U, n
<1> QED
  BY <1>5, <1>6 DEF all

\* What is shown is unread, and all of it when nothing is cut.
LEMMA ShownUnread ==
  ASSUME NEW rows \in Seq(Row)
  PROVE  /\ Unread(rows, FirstShown(rows)) <= Unread(rows, 1)
         /\ Len(rows) <= TakeRows => Unread(rows, FirstShown(rows)) = Unread(rows, 1)
<1> DEFINE All  == {i \in 1 .. Len(rows) : rows[i].unread}
           Some == {i \in FirstShown(rows) .. Len(rows) : rows[i].unread}
<1>1. Len(rows) \in Nat /\ FirstShown(rows) \in Nat \ {0}
  BY LenProperties, FirstShownTyped
<1>2. Some \subseteq All
  BY <1>1
<1>3. IsFiniteSet(All)
  <2>1. IsFiniteSet(1 .. Len(rows)) /\ All \subseteq 1 .. Len(rows)
    BY <1>1, FS_Interval
  <2> QED
    BY <2>1, FS_Subset
<1>4. Cardinality(Some) <= Cardinality(All)
  BY <1>2, <1>3, FS_Subset
<1> QED
  BY <1>4, FirstShownTyped DEF Unread

BadgeInv == BadgeSoFar /\ BadgeFits

LEMMA BadgeFrame ==
  ASSUME BadgeInv, view' = view, UNCHANGED inbox
  PROVE  BadgeInv'
BY DEF BadgeInv, BadgeSoFar, BadgeFits

LEMMA NoViewFits ==
  ASSUME view' = NoView
  PROVE  BadgeInv'
BY DEF BadgeInv, BadgeSoFar, BadgeFits, NoView

LEMMA BadgeRows ==
  ASSUME TypeOK, BadgeInv, NEW p \in Pushes, CreateRows(p)
  PROVE  BadgeInv'
<1> DEFINE row == [of |-> p, unread |-> TRUE]
<1>1. row \in Row /\ row.unread
  BY DEF Row
<1>2. view \in Views
  BY DEF TypeOK, Views
<1>3. \A u \in Users : inbox'[u] = IF u \in ids[p] THEN Append(inbox[u], row) ELSE inbox[u]
  BY DEF CreateRows
<1>4. view' = IF view.user \in ids[p] THEN [view EXCEPT !.came = @ + 1] ELSE view
  BY DEF CreateRows, Came
<1> HIDE DEF row
<1>5. CASE view.user \in ids[p]
  <2>1. view.user \in Users /\ inbox[view.user] \in Seq(Row)
    BY <1>5 DEF TypeOK
  <2>2. Unread(inbox[view.user], 1) \in Nat
    BY <2>1, UnreadTyped
  <2>3. /\ view'.user = view.user /\ view'.shown = view.shown /\ view'.badge = view.badge
        /\ view'.cut = view.cut /\ view'.came = view.came + 1 /\ view'.marked = view.marked
    BY <1>2, <1>4, <1>5 DEF Views
  <2>4. inbox'[view.user] = Append(inbox[view.user], row)
    BY <1>3, <1>5, <2>1
  <2>5. Unread(inbox'[view'.user], 1) = Unread(inbox[view.user], 1) + 1
    BY <1>1, <2>1, <2>3, <2>4, UnreadAppend
  <2>6. view.shown \in Int /\ view.badge \in Int /\ view.came \in Nat
    BY <1>2 DEF Views
  <2>7. BadgeSoFar'
    BY <2>1, <2>2, <2>3, <2>5, <2>6 DEF BadgeInv, BadgeSoFar
  <2>8. BadgeFits'
    BY <2>3, <2>6 DEF BadgeInv, BadgeFits
  <2> QED
    BY <2>7, <2>8 DEF BadgeInv
<1>6. CASE view.user \notin ids[p]
  <2>1. view' = view
    BY <1>4, <1>6
  <2>2. view.user \in Users => inbox'[view.user] = inbox[view.user]
    BY <1>3, <1>6
  <2> QED
    BY <2>1, <2>2 DEF BadgeInv, BadgeSoFar, BadgeFits
<1> QED
  BY <1>5, <1>6

LEMMA BadgeInbox ==
  ASSUME TypeOK, BadgeInv, Inbox
  PROVE  BadgeInv'
<1>0. view \in Views /\ \A u \in Users : inbox[u] \in Seq(Row)
  BY DEF TypeOK, Views
<1>1. CASE FindMany
  <2>1. view.user \in Users /\ view.shown = -1 /\ UNCHANGED inbox
    BY <1>0, <1>1 DEF FindMany, Views, store
  <2> DEFINE rows == inbox[view.user]
  <2>2. rows \in Seq(Row) /\ Unread(rows, 1) \in Nat /\ Unread(rows, FirstShown(rows)) \in Nat
        /\ Len(rows) \in Nat
    BY <1>0, <2>1, UnreadTyped, FirstShownTyped, LenProperties
  <2>3. /\ Unread(rows, FirstShown(rows)) <= Unread(rows, 1)
        /\ Len(rows) <= TakeRows => Unread(rows, FirstShown(rows)) = Unread(rows, 1)
    BY <2>2, ShownUnread
  <2>4. /\ view'.user = view.user /\ view'.shown = Unread(rows, FirstShown(rows))
        /\ view'.badge = view.badge /\ view'.came = view.came /\ view'.marked = view.marked
        /\ (view'.cut <=> Len(rows) > TakeRows)
    BY <1>0, <1>1 DEF FindMany, Views
  <2>5. inbox'[view'.user] = rows
    BY <2>1, <2>4
  <2>6. view.badge \in Int /\ view.came \in Nat
    BY <1>0 DEF Views
  <2>7. ~view'.cut => Len(rows) <= TakeRows
    BY <2>2, <2>4, SizesAssumption
  <2> HIDE DEF rows
  <2>8. BadgeSoFar'
    BY <2>1, <2>2, <2>3, <2>4, <2>5, <2>6, <2>7 DEF BadgeSoFar
  <2>9. BadgeFits'
    <3> SUFFICES ASSUME view'.badge # -1, ~view'.marked
                 PROVE  /\ view'.badge + view'.came >= view'.shown
                        /\ ~view'.cut => view'.badge - view'.shown <= view'.came
      BY DEF BadgeFits
    <3>1. view.badge <= Unread(rows, 1) /\ Unread(rows, 1) <= view.badge + view.came
      BY <2>1, <2>4 DEF BadgeInv, BadgeSoFar, rows
    <3> QED
      BY <2>2, <2>3, <2>4, <2>6, <2>7, <3>1
  <2> QED
    BY <2>8, <2>9 DEF BadgeInv
<1>2. CASE CountUnread
  <2>1. view.user \in Users /\ view.badge = -1 /\ UNCHANGED inbox
    BY <1>0, <1>2 DEF CountUnread, Views, store
  <2> DEFINE rows == inbox[view.user]
  <2>2. Unread(rows, 1) \in Nat
    BY <1>0, <2>1, UnreadTyped
  <2>4. /\ view'.user = view.user /\ view'.shown = view.shown
        /\ view'.badge = Unread(rows, 1) /\ view'.came = view.came /\ view'.marked = view.marked
        /\ view'.cut = view.cut
    BY <1>0, <1>2 DEF CountUnread, Views
  <2>5. inbox'[view'.user] = rows
    BY <2>1, <2>4
  <2>6. view.shown \in Int /\ view.came \in Nat
    BY <1>0 DEF Views
  <2> HIDE DEF rows
  <2>8. BadgeSoFar'
    BY <2>1, <2>2, <2>4, <2>5, <2>6 DEF BadgeSoFar
  <2>9. BadgeFits'
    <3> SUFFICES ASSUME view'.shown # -1, ~view'.marked
                 PROVE  /\ view'.badge + view'.came >= view'.shown
                        /\ ~view'.cut => view'.badge - view'.shown <= view'.came
      BY DEF BadgeFits
    <3>1. view.shown <= Unread(rows, 1) /\ (~view.cut => Unread(rows, 1) <= view.shown + view.came)
      BY <2>1, <2>4 DEF BadgeInv, BadgeSoFar, rows
    <3> QED
      BY <2>2, <2>4, <2>6, <3>1
  <2> QED
    BY <2>8, <2>9 DEF BadgeInv
<1>3. CASE Answer
  BY <1>3, NoViewFits DEF Answer
<1>4. ASSUME NEW u \in Users, OpenInbox(u) PROVE BadgeInv'
  <2>1. view'.shown = -1 /\ view'.badge = -1
    BY <1>4 DEF OpenInbox, NoView
  <2> QED
    BY <2>1 DEF BadgeInv, BadgeSoFar, BadgeFits
<1>5. ASSUME NEW u \in Users, MarkAllRead(u) PROVE BadgeInv'
  <2>1. CASE view.user = u
    <3>1. view'.marked /\ view'.user = view.user /\ view'.shown = view.shown /\ view'.badge = view.badge
      BY <1>0, <1>5, <2>1 DEF MarkAllRead, Views
    <3> QED
      BY <3>1 DEF BadgeInv, BadgeSoFar, BadgeFits
  <2>2. CASE view.user # u
    <3>1. view' = view
      BY <1>5, <2>2 DEF MarkAllRead
    <3>2. view.user \in Users => inbox'[view.user] = inbox[view.user]
      BY <1>5, <2>2 DEF MarkAllRead, TypeOK
    <3> QED
      BY <3>1, <3>2 DEF BadgeInv, BadgeSoFar, BadgeFits
  <2> QED
    BY <2>1, <2>2
<1> QED
  BY <1>1, <1>2, <1>3, <1>4, <1>5 DEF Inbox

LEMMA NextBadge ==
  ASSUME TypeOK, BadgeInv, [Next]_vars
  PROVE  BadgeInv'
<1>1. CASE Calls
  <2>1. PICK p \in Pushes, a \in Users, first \in SUBSET Users, staffToo \in BOOLEAN,
            k \in {"direct", "chat", "staff", "test"} : Starts(p, k, a, first, staffToo)
    BY <1>1, CallsStart
  <2> QED
    BY <2>1, BadgeFrame DEF Starts, store
<1>2. CASE Registry
  BY <1>2, BadgeFrame DEF Registry, Register, Unregister, Uninstall, StaffChanges
<1>3. CASE Inbox
  BY <1>3, BadgeInbox
<1>4. CASE Restart
  BY <1>4, NoViewFits DEF Restart
<1>5. ASSUME NEW p \in Pushes, Step(p) PROVE BadgeInv'
  <2>1. CASE CreateRows(p)
    BY <2>1, BadgeRows
  <2>2. CASE ~CreateRows(p)
    BY <1>5, <2>2, BadgeFrame DEF Step, FindStaff, CreateRowsFails, ReadDevices, Send, Answered,
       SendFails, Prune, PruneFails, store
  <2> QED
    BY <2>1, <2>2
<1>6. CASE UNCHANGED vars
  BY <1>6, BadgeFrame DEF vars, store
<1> QED
  BY <1>1, <1>2, <1>3, <1>4, <1>5, <1>6 DEF Next
--------------------------------------------------------------------------------
IInv == /\ TypeOK /\ UntriedAhead /\ StaffFound /\ ActorSpared
        /\ HeldByUser /\ DeadNotKept /\ KeptTokens /\ BadgeInv

LEMMA InitInv == Init => IInv
<1> SUFFICES ASSUME Init PROVE IInv
  OBVIOUS
<1>1. TypeOK
  BY InitTyped
<1>2. UntriedAhead /\ StaffFound
  BY DEF Init, UntriedAhead, UntriedOf, StaffFound, StaffOf
<1>3. ActorSpared
  <2>1. \A u \in Users, p \in Pushes : ~HasRow(u, p)
    BY DEF Init, HasRow
  <2> QED
    BY <2>1 DEF Init, ActorSpared, ActorOf
<1>4. HeldByUser /\ DeadNotKept
  BY DEF Init, HeldByUser, DeadNotKept
<1>5. KeptTokens
  BY DEF Init, KeptTokens
<1>6. BadgeInv
  BY DEF Init, BadgeInv, BadgeSoFar, BadgeFits, NoView
<1> QED
  BY <1>1, <1>2, <1>3, <1>4, <1>5, <1>6 DEF IInv

LEMMA NextInv == IInv /\ [Next]_vars => IInv'
BY NextTyped, NextUntried, NextStaff, NextActor, NextHeld, NextDead, NextKept, NextBadge DEF IInv

LEMMA Inductive == Spec => []IInv
BY InitInv, NextInv, PTL DEF Spec

(***************************************************************************)
(* What the pushes, the registry and the inbox store keeps its shape.      *)
(***************************************************************************)
THEOREM TypeCorrect == Spec => []TypeOK
<1>1. IInv => TypeOK
  BY DEF IInv
<1> QED
  BY Inductive, <1>1, PTL

(***************************************************************************)
(* pushToRoles: the staff of the moment of the call finds it in the inbox, *)
(* and no one is told of their own doing.                                  *)
(***************************************************************************)
THEOREM StaffIsTold == Spec => []StaffTold
<1>1. IInv => StaffTold
  <2> SUFFICES ASSUME IInv PROVE StaffTold
    OBVIOUS
  <2>1. ASSUME NEW p \in Pushes, p \notin unsaved, pc[p] = "done", kind[p] \in {"chat", "staff"},
               NEW u \in steady[p] \ {actor[p]}
        PROVE  \E i \in DOMAIN inbox[u] : inbox[u][i].of = p
    BY <2>1 DEF IInv, StaffFound, StaffOf, HasRow
  <2>2. ASSUME NEW p \in Pushes, kind[p] # "test", NEW i \in DOMAIN inbox[actor[p]]
        PROVE  inbox[actor[p]][i].of # p
    BY <2>2 DEF IInv, ActorSpared, ActorOf, HasRow
  <2> QED
    BY <2>1, <2>2 DEF StaffTold
<1> QED
  BY Inductive, <1>1, PTL

(***************************************************************************)
(* sendToTokens: a push that is done left out no token it read.            *)
(***************************************************************************)
THEOREM ChunksAreTried == Spec => []EveryChunkTried
<1>1. IInv => EveryChunkTried
  BY DEF IInv, UntriedAhead, UntriedOf, EveryChunkTried
<1> QED
  BY Inductive, <1>1, PTL

(***************************************************************************)
(* handleTickets: no token in use is pruned for an answer that was about   *)
(* another, or about an installation before.                               *)
(***************************************************************************)
THEOREM TokensAreKept == Spec => []KeptTokens
<1>1. IInv => KeptTokens
  BY DEF IInv
<1> QED
  BY Inductive, <1>1, PTL

(***************************************************************************)
(* register: a push reads the tokens of who holds the devices now.         *)
(***************************************************************************)
THEOREM ReadsHolders == Spec => ReadsCurrentUser
<1>1. IInv /\ [Next]_vars =>
        [\A p \in Pushes : pc[p] = "devices" /\ pc'[p] = "send" /\ kind[p] # "test" =>
           \A i \in DOMAIN unique'[p] : holder[unique'[p][i]] \in ids[p]]_vars
  BY NextReads DEF IInv
<1> QED
  BY Inductive, <1>1, PTL DEF Spec, ReadsCurrentUser

(***************************************************************************)
(* inbox: its badge and its rows, read one after the other, disagree by no *)
(* more than what came between.                                            *)
(***************************************************************************)
THEOREM BadgeIsRight == Spec => []BadgeFits
<1>1. IInv => BadgeFits
  BY DEF IInv, BadgeInv
<1> QED
  BY Inductive, <1>1, PTL
================================================================================
