----------------------------- MODULE TimelineProofs -----------------------------
(* The timeline, for any number of lines and clients and any page size. *)
EXTENDS Timeline, FiniteSetTheorems, TLAPS

IInv == TypeOK /\ DrawnInv /\ ScrollInv /\ CopyInv /\ NoRowTwice /\ HistoryComplete

\* A client at cursor "from" has loaded the lines "before": all from the cursor
\* up, and all those of H.
Upto(from, before, H) ==
  /\ before \subseteq Stored /\ H \subseteq Stored
  /\ \A l \in before : from # 0 /\ seqOf[l] >= from
  /\ \A l \in H : from # 0 /\ seqOf[l] >= from => l \in before

\* What one more page gives it: more of H, down to the next cursor, no repeat.
Extends(from, before, H, page, next) ==
  /\ before \cup page \subseteq Stored
  /\ page = Rows(from) => H \subseteq before \cup page
  /\ page # Rows(from) =>
       /\ next > 0
       /\ \A l \in before \cup page : seqOf[l] >= next
       /\ \A l \in H : seqOf[l] >= next => l \in before \cup page
  /\ Cardinality(before \cup page) = Cardinality(before) + Cardinality(page)
  /\ Cardinality(page) \in Nat

LEMMA OnePage ==
  ASSUME TypeOK, DrawnInv, NEW from \in Nat, NEW before, NEW H, NEW page, NEW next \in Nat,
         Upto(from, before, H), page \subseteq Rows(from),
         IsPage(Rows(from), page), IsCursor(Rows(from), page, next)
  PROVE  Extends(from, before, H, page, next)
<1> USE DEF Upto
<1>1. /\ page \subseteq Stored /\ Stored \subseteq Lines
      /\ \A l \in Lines : seqOf[l] \in Nat
      /\ \A l \in Stored : seqOf[l] > 0
  <2>1. \A l \in Lines : seqOf[l] \in Nat
    BY DEF TypeOK
  <2>2. \A l \in Stored : l \in Lines /\ emitter[l] # "idle"
    BY DEF Stored
  <2>3. \A l \in Stored : seqOf[l] # 0
    BY <2>2 DEF DrawnInv
  <2> QED
    BY <2>1, <2>2, <2>3 DEF Rows, Stored
<1>2. page = Rows(from) => H \subseteq before \cup page
  BY <1>1 DEF Rows
<1>3. ASSUME page # Rows(from)
      PROVE  /\ next > 0
             /\ \A l \in before \cup page : seqOf[l] >= next
             /\ \A l \in H : seqOf[l] >= next => l \in before \cup page
  <2>1. PICK m \in page : next = seqOf[m] /\ \A l \in page : seqOf[m] <= seqOf[l]
    BY <1>3 DEF IsCursor
  <2>2. from = 0 \/ next < from
    BY <2>1 DEF Rows
  <2>3. next > 0
    BY <1>1, <2>1
  <2>4. \A l \in before \cup page : seqOf[l] >= next
    BY <1>1, <2>1, <2>2
  <2>5. \A l \in Rows(from) \ page : seqOf[l] < next
    BY <1>3, <2>1 DEF IsPage
  <2>6. ASSUME NEW l \in H, seqOf[l] >= next PROVE l \in before \cup page
    <3>1. CASE from # 0 /\ seqOf[l] >= from
      BY <3>1
    <3>2. CASE from = 0 \/ seqOf[l] < from
      <4>1. l \in Rows(from) /\ seqOf[l] \in Nat
        BY <1>1, <3>2 DEF Rows
      <4> QED
        BY <1>1, <2>5, <2>6, <4>1
    <3> QED
      BY <1>1, <3>1, <3>2
  <2> QED
    BY <2>3, <2>4, <2>6
<1>4. before \cap page = {}
  BY <1>1 DEF Rows
<1>5. IsFiniteSet(before) /\ IsFiniteSet(page)
  BY <1>1, LinesAssumption, FS_Subset
<1>6. /\ Cardinality(before \cup page) = Cardinality(before) + Cardinality(page)
      /\ Cardinality(page) \in Nat
  <2>1. Cardinality(before \cup page)
          = Cardinality(before) + Cardinality(page) - Cardinality(before \cap page)
    BY <1>5, FS_Union
  <2>2. Cardinality(before \cap page) = 0
    BY <1>4, FS_EmptySet
  <2>3. Cardinality(before) \in Nat /\ Cardinality(page) \in Nat
    BY <1>5, FS_CardinalityType
  <2> QED
    BY <2>1, <2>2, <2>3
<1> QED
  BY <1>1, <1>2, <1>3, <1>6 DEF Extends

\* Nothing is stored or loaded at the start.
LEMMA TimelineInit == Init => IInv
<1> SUFFICES ASSUME Init PROVE IInv
  OBVIOUS
<1>1. TypeOK
  BY DEF Init, TypeOK, Stages, Copies
<1>2. NoRowTwice
  BY FS_EmptySet DEF Init, NoRowTwice
<1> QED
  BY <1>1, <1>2 DEF Init, IInv, DrawnInv, ScrollInv, CopyInv, HistoryComplete

\* A step of an emitter: readers keep what they have.
LEMMA EmitStep ==
  ASSUME IInv, NEW l \in Lines, Emit(l)
  PROVE  IInv'
<1>1. /\ UNCHANGED <<room, scrollVars, since>>
      /\ \A k \in Lines \ {l} : emitter'[k] = emitter[k] /\ seqOf'[k] = seqOf[k]
      /\ emitter'[l] \in Stages \ {"idle"}
      /\ emitter[l] \in {"stored", "announced", "silent"}
           => emitter'[l] \in {"stored", "announced", "silent"}
      /\ emitter[l] \in {"idle", "drawn", "stored"}
      /\ sequence' \in Nat
  BY DEF Emit, Draw, Store, Broadcast, Die, lineVars, IInv, TypeOK, Stages
<1>2. /\ \/ emitter[l] = "idle" /\ sequence' = sequence + 1 /\ seqOf'[l] = sequence'
         \/ emitter[l] # "idle" /\ sequence' = sequence /\ seqOf'[l] = seqOf[l]
      /\ DOMAIN seqOf' = Lines /\ DOMAIN emitter' = Lines
      /\ seqOf' = [k \in Lines |-> seqOf'[k]] /\ emitter' = [k \in Lines |-> emitter'[k]]
  BY DEF Emit, Draw, Store, Broadcast, Die, lineVars, IInv, TypeOK
<1>3. /\ copy' \in [Clients -> [Lines -> Copies]]
      /\ \A c \in Clients, k \in Lines :
           \/ copy'[c][k] = copy[c][k] /\ (k = l => copy[c][k] = "none")
           \/ copy'[c][k] = "travelling" /\ k = l /\ emitter'[l] = "announced"
  <2>1. CASE Broadcast(l)
    <3>1. \A c \in Clients :
            copy'[c] = [copy[c] EXCEPT ![l] = "travelling"] /\ copy[c] \in [Lines -> Copies]
      BY <2>1 DEF Broadcast, IInv, TypeOK
    <3>2. \A c \in Clients, k \in Lines :
            copy'[c][k] = IF k = l THEN "travelling" ELSE copy[c][k]
      BY <3>1
    <3>3. copy' \in [Clients -> [Lines -> Copies]]
      BY <2>1, <3>1 DEF Broadcast, Copies
    <3> QED
      BY <2>1, <3>2, <3>3 DEF Broadcast, IInv, TypeOK
  <2>2. CASE ~Broadcast(l)
    <3>1. UNCHANGED copy
      BY <2>2 DEF Emit, Draw, Store, Die
    <3>2. \A c \in Clients : copy[c][l] = "none"
      BY <1>1 DEF IInv, CopyInv
    <3> QED
      BY <3>1, <3>2 DEF IInv, TypeOK
  <2> QED
    BY <2>1, <2>2
<1>4. /\ Stored \subseteq Stored'
      /\ \A k \in Stored : seqOf'[k] = seqOf[k]
  BY <1>1, <1>2 DEF Stored
<1>5. TypeOK'
  <2>1. emitter' \in [Lines -> Stages]
    BY <1>1, <1>2 DEF IInv, TypeOK
  <2>2. seqOf' \in [Lines -> 0 .. sequence']
    BY <1>1, <1>2 DEF IInv, TypeOK
  <2>3. cursor' \in [Clients -> 0 .. sequence']
    BY <1>1, <1>2 DEF IInv, TypeOK, scrollVars
  <2>4. /\ loaded' \in [Clients -> SUBSET Stored'] /\ first' \in [Clients -> SUBSET Stored']
        /\ last' \in [Clients -> SUBSET Stored']
    BY <1>1, <1>4 DEF IInv, TypeOK, scrollVars
  <2> QED
    BY <1>1, <1>3, <2>1, <2>2, <2>3, <2>4 DEF IInv, TypeOK, scrollVars
<1>6. DrawnInv'
  <2>1. sequence \in Nat /\ \A k \in Lines : seqOf[k] \in 0 .. sequence
    BY DEF IInv, TypeOK
  <2>2. \A k \in Lines : (seqOf'[k] = 0) <=> (emitter'[k] = "idle")
    BY <1>1, <1>2, <2>1 DEF IInv, DrawnInv, Stages
  <2>3. ASSUME NEW k \in Lines, k # l, seqOf'[l] # 0
        PROVE  seqOf'[k] # seqOf'[l]
    BY <1>1, <1>2, <2>1, <2>3 DEF IInv, DrawnInv
  <2>4. \A k, m \in Lines : k # m /\ seqOf'[k] # 0 => seqOf'[k] # seqOf'[m]
    BY <1>1, <2>3 DEF IInv, DrawnInv
  <2> QED
    BY <2>2, <2>4 DEF DrawnInv
<1>7. ScrollInv'
  <2>1. \A c \in Clients : loaded[c] \subseteq Stored /\ first[c] \subseteq Stored
    BY DEF IInv, TypeOK
  <2>2. UNCHANGED <<scroll, cursor, loaded, first, since>>
    BY <1>1 DEF scrollVars
  <2> QED
    BY <1>3, <1>4, <2>1, <2>2 DEF IInv, ScrollInv
<1>8. CopyInv'
  BY <1>1, <1>3 DEF IInv, CopyInv
<1>9. NoRowTwice' /\ HistoryComplete'
  BY <1>1 DEF scrollVars, IInv, NoRowTwice, HistoryComplete
<1> QED
  BY <1>5, <1>6, <1>7, <1>8, <1>9 DEF IInv

\* A copy arrives or is lost: it is ignored only by those outside the room.
LEMMA CopyStep ==
  ASSUME IInv, NEW c \in Clients, NEW l \in Lines, Arrive(c, l) \/ Lose(c, l)
  PROVE  IInv'
<1>1. /\ UNCHANGED <<lineVars, room, scrollVars, since>>
      /\ copy[c][l] = "travelling"
      /\ \E v \in {"seen", "ignored", "lost"} :
           copy' = [copy EXCEPT ![c][l] = v] /\ (v = "ignored" => c \notin room)
  BY DEF Arrive, Lose
<1>2. /\ copy' \in [Clients -> [Lines -> Copies]]
      /\ \A d \in Clients, k \in Lines :
           \/ copy'[d][k] = copy[d][k]
           \/ d = c /\ k = l /\ (copy'[d][k] = "ignored" => d \notin since)
  <2>1. PICK v \in {"seen", "ignored", "lost"} :
          copy' = [copy EXCEPT ![c][l] = v] /\ (v = "ignored" => c \notin room)
    BY <1>1
  <2>2. copy \in [Clients -> [Lines -> Copies]] /\ since \subseteq room
    BY DEF IInv, TypeOK
  <2>3. copy' \in [Clients -> [Lines -> Copies]]
    BY <2>1, <2>2 DEF Copies
  <2>4. \A d \in Clients, k \in Lines :
          copy'[d][k] = IF d = c /\ k = l THEN v ELSE copy[d][k]
    BY <2>1, <2>2
  <2> QED
    BY <2>1, <2>2, <2>3, <2>4
<1>3. UNCHANGED Stored
  BY <1>1 DEF lineVars, Stored
<1>4. TypeOK'
  BY <1>1, <1>2, <1>3 DEF IInv, TypeOK, lineVars, scrollVars
<1>5. CopyInv'
  BY <1>1, <1>2 DEF IInv, CopyInv, lineVars
<1>6. ScrollInv'
  BY <1>1, <1>2 DEF IInv, ScrollInv, lineVars, scrollVars
<1> QED
  BY <1>1, <1>4, <1>5, <1>6
     DEF IInv, DrawnInv, NoRowTwice, HistoryComplete, lineVars, scrollVars

\* Joining and leaving.
LEMMA RoomStep ==
  ASSUME IInv, NEW c \in Clients, Join(c) \/ Leave(c)
  PROVE  IInv'
<1>1. /\ UNCHANGED <<lineVars, copy, scrollVars>>
      /\ room' \subseteq Clients /\ since' \subseteq room' /\ since' \subseteq since
  BY DEF Join, Leave, IInv, TypeOK
<1>2. UNCHANGED Stored
  BY <1>1 DEF lineVars, Stored
<1>3. TypeOK'
  BY <1>1, <1>2 DEF IInv, TypeOK, lineVars, scrollVars
<1>4. ScrollInv'
  BY <1>1 DEF IInv, ScrollInv, lineVars, scrollVars
<1> QED
  BY <1>1, <1>3, <1>4
     DEF IInv, DrawnInv, CopyInv, NoRowTwice, HistoryComplete, lineVars, scrollVars

\* A page is read, the first of a loading or a further one.
LEMMA PageStep ==
  ASSUME IInv, NEW c \in Clients, Open(c) \/ ScrollUp(c)
  PROVE  IInv'
<1> DEFINE from   == IF Open(c) THEN 0 ELSE cursor[c]
           before == IF Open(c) THEN {} ELSE loaded[c]
           count  == IF Open(c) THEN 0 ELSE received[c]
<1>1. /\ ListEvents(c, from, before, count)
      /\ UNCHANGED <<lineVars, room, copy>>
      /\ first'[c] = (IF Open(c) THEN Stored ELSE first[c])
      /\ first' \in [Clients -> SUBSET Stored]
      /\ \A d \in Clients \ {c} : first'[d] = first[d] /\ (d \in since' <=> d \in since)
      /\ c \in since' => Open(c) \/ c \in since
      /\ since' \subseteq room
      /\ ~Open(c) => scroll[c] = "reading"
  BY DEF Open, ScrollUp, IInv, TypeOK
<1>2. UNCHANGED Stored
  BY <1>1 DEF lineVars, Stored
<1>3. from \in Nat /\ Upto(from, before, first'[c]) /\ count = Cardinality(before)
  <2>1. CASE Open(c)
    BY <1>1, <2>1, FS_EmptySet DEF Upto
  <2>2. CASE ~Open(c)
    BY <1>1, <2>2 DEF IInv, TypeOK, ScrollInv, NoRowTwice, Upto
  <2> QED
    BY <2>1, <2>2
<1> HIDE DEF from, before, count
<1>4. PICK page \in SUBSET Rows(from), next \in 0 .. sequence :
        /\ IsPage(Rows(from), page)
        /\ IsCursor(Rows(from), page, next)
        /\ cursor'   = [cursor EXCEPT ![c] = next]
        /\ scroll'   = [scroll EXCEPT ![c] = IF page = Rows(from) THEN "done" ELSE "reading"]
        /\ loaded'   = [loaded EXCEPT ![c] = before \cup page]
        /\ received' = [received EXCEPT ![c] = count + Cardinality(page)]
        /\ last'     = [last EXCEPT ![c] = Stored]
  BY <1>1 DEF ListEvents
<1>5. Extends(from, before, first'[c], page, next)
  <2>1. sequence \in Nat /\ TypeOK /\ DrawnInv
    BY DEF IInv, TypeOK
  <2>2. next \in Nat
    BY <2>1
  <2> QED
    BY <1>3, <1>4, <2>1, <2>2, OnePage
<1>6. /\ cursor'[c] = next /\ loaded'[c] = before \cup page
      /\ received'[c] = count + Cardinality(page)
      /\ scroll'[c] = IF page = Rows(from) THEN "done" ELSE "reading"
      /\ \A d \in Clients \ {c} : /\ cursor'[d] = cursor[d] /\ loaded'[d] = loaded[d]
                                  /\ received'[d] = received[d] /\ scroll'[d] = scroll[d]
  BY <1>4 DEF IInv, TypeOK
<1>7. TypeOK'
  <2>1. count + Cardinality(page) \in Nat
    <3>1. IsFiniteSet(before)
      BY <1>3, LinesAssumption, FS_Subset DEF Stored, Upto
    <3> QED
      BY <1>3, <1>5, <3>1, FS_CardinalityType DEF Extends
  <2>2. sequence' = sequence
    BY <1>1 DEF lineVars
  <2>3. cursor' \in [Clients -> 0 .. sequence'] /\ scroll' \in [Clients -> {"idle", "reading", "done"}]
    BY <1>4, <2>2 DEF IInv, TypeOK
  <2>4. loaded' \in [Clients -> SUBSET Stored'] /\ last' \in [Clients -> SUBSET Stored']
    BY <1>2, <1>4, <1>5 DEF IInv, TypeOK, Extends
  <2>5. received' \in [Clients -> Nat]
    BY <1>4, <2>1 DEF IInv, TypeOK
  <2> QED
    BY <1>1, <1>2, <2>3, <2>4, <2>5 DEF IInv, TypeOK, lineVars
<1>8. ScrollInv'
  <2>1. UNCHANGED seqOf /\ UNCHANGED copy
    BY <1>1 DEF lineVars
  <2>2. \A l \in Lines : copy[c][l] = "ignored" => l \in Stored
    BY DEF IInv, CopyInv, Stored
  <2>3. \A l \in Lines : c \in since' /\ copy[c][l] = "ignored" => l \in first'[c]
    BY <1>1, <2>2 DEF IInv, ScrollInv
  <2>4. scroll'[c] = "reading" =>
          /\ cursor'[c] > 0
          /\ \A l \in loaded'[c] : seqOf[l] >= cursor'[c]
          /\ \A l \in first'[c] : seqOf[l] >= cursor'[c] => l \in loaded'[c]
    BY <1>5, <1>6 DEF Extends
  <2>5. ASSUME NEW d \in Clients \ {c}
        PROVE  /\ scroll'[d] = "reading" =>
                    /\ cursor'[d] > 0
                    /\ \A l \in loaded'[d] : seqOf[l] >= cursor'[d]
                    /\ \A l \in first'[d] : seqOf[l] >= cursor'[d] => l \in loaded'[d]
               /\ \A l \in Lines : d \in since' /\ copy[d][l] = "ignored" => l \in first'[d]
    BY <1>1, <1>6 DEF IInv, ScrollInv
  <2> QED
    BY <2>1, <2>3, <2>4, <2>5 DEF ScrollInv
<1>9. NoRowTwice'
  BY <1>3, <1>5, <1>6 DEF IInv, NoRowTwice, Extends
<1>10. HistoryComplete'
  BY <1>1, <1>5, <1>6 DEF IInv, HistoryComplete, Extends
<1> QED
  BY <1>1, <1>7, <1>8, <1>9, <1>10 DEF IInv, DrawnInv, CopyInv, lineVars

\* Every step keeps the invariant.
LEMMA TimelineStep == IInv /\ [Next]_vars => IInv'
<1> SUFFICES ASSUME IInv, [Next]_vars PROVE IInv'
  OBVIOUS
<1>1. CASE UNCHANGED vars
  BY <1>1 DEF vars, IInv, TypeOK, DrawnInv, ScrollInv, CopyInv, NoRowTwice,
              HistoryComplete, Stored
<1> QED
  BY <1>1, EmitStep, CopyStep, RoomStep, PageStep DEF Next

\* The invariant holds in every behaviour.
LEMMA TimelineInvariant == Spec => []IInv
BY TimelineInit, TimelineStep, PTL DEF Spec

(* listEvents: for any page size and any rows stored meanwhile, no page of a *)
(* loading repeats a row of another.                                         *)
THEOREM PagesDisjoint == Spec => []NoRowTwice
<1>1. IInv => NoRowTwice
  BY DEF IInv
<1> QED
  BY <1>1, TimelineInvariant, PTL

(* listEvents: a loading that ended has all that was stored when it began.   *)
THEOREM PagesComplete == Spec => []HistoryComplete
<1>1. IInv => HistoryComplete
  BY DEF IInv
<1> QED
  BY <1>1, TimelineInvariant, PTL

(* joinJob, emit: for a client that joined before it loaded, nothing falls   *)
(* between the pages and the room, in any order of arrivals and commits.     *)
THEOREM PagesMeetRoom == Spec => []NothingBetween
<1>1. IInv => NothingBetween
  BY DEF IInv, NothingBetween, ScrollInv, HistoryComplete, TypeOK
<1> QED
  BY <1>1, TimelineInvariant, PTL

(* Lines, copies, cursors and pages keep their types.                        *)
THEOREM TypeCorrect == Spec => []TypeOK
<1>1. IInv => TypeOK
  BY DEF IInv
<1> QED
  BY <1>1, TimelineInvariant, PTL
================================================================================
