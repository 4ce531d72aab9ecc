--------------------------------- MODULE Timeline -------------------------------
(***************************************************************************)
(* The live timeline of one job: JobEventsService stores a line and        *)
(* broadcasts it, JobEventsGateway keeps the job's room, and a client      *)
(* joins the room and scrolls up through pages of stored lines.            *)
(*                                                                         *)
(* PostgreSQL draws a row's sequenceNumber when its INSERT runs; the row   *)
(* is visible when it commits, later, or never.                            *)
(***************************************************************************)
EXTENDS Integers, FiniteSets

CONSTANTS
  Lines,     \* the lines emitted in a behaviour
  Clients,   \* the sockets (each with its page requests)
  Limit,     \* page size: 1 .. 50 in ListEventsDto
  Failures   \* may emitters die, and copies of a broadcast be lost?

ASSUME LinesAssumption == IsFiniteSet(Lines)
ASSUME LimitAssumption == Limit \in Nat \ {0}

VARIABLES
  sequence,  \* the last sequenceNumber drawn
  emitter,   \* where the handler that emits a line stands
  seqOf,     \* a line's sequenceNumber, 0 before it is drawn
  room,      \* the sockets in roomFor(job)
  copy,      \* what became of a line's broadcast to a socket
  scroll,    \* where a client's loading of pages stands
  cursor,    \* the cursor it sends next, 0 for none
  loaded,    \* the lines the pages of this loading brought
  received,  \* history: how many rows these pages held
  first,     \* history: the lines stored when the loading began
  last,      \* history: the lines stored when its last page was read
  since      \* history: the clients in the room ever since their loading began

vars == <<sequence, emitter, seqOf, room, copy, scroll, cursor, loaded,
          received, first, last, since>>

lineVars   == <<sequence, emitter, seqOf>>
scrollVars == <<scroll, cursor, loaded, received, first, last>>

\* idle, INSERT running, row committed, broadcast; died before / after the commit
Stages == {"idle", "drawn", "stored", "announced", "dead", "silent"}
Copies == {"none", "travelling", "seen", "ignored", "lost"}

Stored == {l \in Lines : emitter[l] \in {"stored", "announced", "silent"}}

TypeOK ==
  /\ sequence \in Nat
  /\ emitter  \in [Lines -> Stages]
  /\ seqOf    \in [Lines -> 0 .. sequence]
  /\ room     \subseteq Clients
  /\ copy     \in [Clients -> [Lines -> Copies]]
  /\ scroll   \in [Clients -> {"idle", "reading", "done"}]
  /\ cursor   \in [Clients -> 0 .. sequence]
  /\ loaded   \in [Clients -> SUBSET Stored]
  /\ received \in [Clients -> Nat]
  /\ first    \in [Clients -> SUBSET Stored]
  /\ last     \in [Clients -> SUBSET Stored]
  /\ since    \subseteq room

Init ==
  /\ sequence = 0
  /\ emitter  = [l \in Lines |-> "idle"]
  /\ seqOf    = [l \in Lines |-> 0]
  /\ room     = {}
  /\ copy     = [c \in Clients |-> [l \in Lines |-> "none"]]
  /\ scroll   = [c \in Clients |-> "idle"]
  /\ cursor   = [c \in Clients |-> 0]
  /\ loaded   = [c \in Clients |-> {}]
  /\ received = [c \in Clients |-> 0]
  /\ first    = [c \in Clients |-> {}]
  /\ last     = [c \in Clients |-> {}]
  /\ since    = {}

--------------------------------------------------------------------------------
(* emit() *)

Draw(l) ==
  /\ emitter[l] = "idle"
  /\ sequence' = sequence + 1
  /\ seqOf'    = [seqOf EXCEPT ![l] = sequence + 1]
  /\ emitter'  = [emitter EXCEPT ![l] = "drawn"]
  /\ UNCHANGED <<room, copy, scrollVars, since>>

Store(l) ==
  /\ emitter[l] = "drawn"
  /\ emitter' = [emitter EXCEPT ![l] = "stored"]
  /\ UNCHANGED <<sequence, seqOf, room, copy, scrollVars, since>>

\* Variant: the line is broadcast without awaiting its INSERT.
BroadcastEarly(l) ==
  /\ emitter[l] = "drawn"
  /\ \A c \in Clients : copy[c][l] = "none"
  /\ copy' = [c \in Clients |-> [copy[c] EXCEPT ![l] = "travelling"]]
  /\ UNCHANGED <<lineVars, room, scrollVars, since>>

\* broadcast: the adapter carries a copy to the node of every socket.
Broadcast(l) ==
  /\ emitter[l] = "stored"
  /\ emitter' = [emitter EXCEPT ![l] = "announced"]
  /\ copy'    = [c \in Clients |-> [copy[c] EXCEPT ![l] = "travelling"]]
  /\ UNCHANGED <<sequence, seqOf, room, scrollVars, since>>

\* A node emits what arrives to the sockets that are in the room by then.
Arrive(c, l) ==
  /\ copy[c][l] = "travelling"
  /\ copy' = [copy EXCEPT ![c][l] = IF c \in room THEN "seen" ELSE "ignored"]
  /\ UNCHANGED <<lineVars, room, scrollVars, since>>

\* Redis publishes at most once.
Lose(c, l) ==
  /\ Failures
  /\ copy[c][l] = "travelling"
  /\ copy' = [copy EXCEPT ![c][l] = "lost"]
  /\ UNCHANGED <<lineVars, room, scrollVars, since>>

\* The process dies: an INSERT that runs is rolled back, its number is spent.
Die(l) ==
  /\ Failures
  /\ \/ emitter[l] = "drawn"  /\ emitter' = [emitter EXCEPT ![l] = "dead"]
     \/ emitter[l] = "stored" /\ emitter' = [emitter EXCEPT ![l] = "silent"]
  /\ UNCHANGED <<sequence, seqOf, room, copy, scrollVars, since>>

--------------------------------------------------------------------------------
(* The room. joinJob and leaveJob look the job up first; overlapping calls   *)
(* take effect in any order, which is the order of these actions. A join may *)
(* be refused, which changes nothing; a lost connection is a leave.          *)

Join(c) ==
  /\ room' = room \cup {c}
  /\ UNCHANGED <<lineVars, copy, scrollVars, since>>

Leave(c) ==
  /\ room'  = room \ {c}
  /\ since' = since \ {c}
  /\ UNCHANGED <<lineVars, copy, scrollVars>>

--------------------------------------------------------------------------------
(* listEvents() *)

\* Variant: the cursor's own row comes again.
RowsFrom(from) == {l \in Stored : from = 0 \/ seqOf[l] <= from}

\* where: only lines below the cursor; a falsy cursor is no cursor.
Rows(from) == {l \in Stored : from = 0 \/ seqOf[l] < from}

\* orderBy desc, take limit + 1, slice: the newest Limit rows, or all of them.
IsPage(rows, page) ==
  IF Cardinality(rows) <= Limit
    THEN page = rows
    ELSE /\ Cardinality(page) = Limit
         /\ \A l \in page, m \in rows \ page : seqOf[l] > seqOf[m]

\* Variant: nextCursor is taken from the row that was peeked at.
IsCursorPeeked(rows, page, next) ==
  IF page = rows
    THEN next = 0
    ELSE \E l \in rows \ page : /\ next = seqOf[l]
                                /\ \A m \in rows \ page : seqOf[m] <= seqOf[l]

\* nextCursor: the last row of a page that has more below it.
IsCursor(rows, page, next) ==
  IF page = rows
    THEN next = 0
    ELSE \E l \in page : next = seqOf[l] /\ \A m \in page : seqOf[l] <= seqOf[m]

ListEvents(c, from, before, count) ==
  LET rows == Rows(from) IN
  \E page \in SUBSET rows, next \in 0 .. sequence :
    /\ IsPage(rows, page)
    /\ IsCursor(rows, page, next)
    /\ cursor'   = [cursor EXCEPT ![c] = next]
    /\ scroll'   = [scroll EXCEPT ![c] = IF page = rows THEN "done" ELSE "reading"]
    /\ loaded'   = [loaded EXCEPT ![c] = before \cup page]
    /\ received' = [received EXCEPT ![c] = count + Cardinality(page)]
    /\ last'     = [last EXCEPT ![c] = Stored]

\* A client (re)loads the timeline ...
Open(c) ==
  /\ scroll[c] # "reading"
  /\ ListEvents(c, 0, {}, 0)
  /\ first' = [first EXCEPT ![c] = Stored]
  /\ since' = IF c \in room THEN since \cup {c} ELSE since \ {c}
  /\ UNCHANGED <<lineVars, room, copy>>

\* ... and scrolls up.
ScrollUp(c) ==
  /\ scroll[c] = "reading"
  /\ ListEvents(c, cursor[c], loaded[c], received[c])
  /\ UNCHANGED <<lineVars, room, copy, first, since>>

Emit(l) == Draw(l) \/ Store(l) \/ Broadcast(l) \/ Die(l)

Next ==
  \/ \E l \in Lines : Emit(l)
  \/ \E c \in Clients : Join(c) \/ Leave(c) \/ Open(c) \/ ScrollUp(c)
  \/ \E c \in Clients, l \in Lines : Arrive(c, l) \/ Lose(c, l)

Spec == Init /\ [][Next]_vars

--------------------------------------------------------------------------------
(***************************************************************************)
(* listEvents: no page repeats a row of an earlier page, whatever is       *)
(* stored between the requests.                                            *)
(***************************************************************************)
NoRowTwice == \A c \in Clients : received[c] = Cardinality(loaded[c])

(***************************************************************************)
(* listEvents: a loading that ended brought every line that was stored     *)
(* when it began.                                                          *)
(***************************************************************************)
HistoryComplete == \A c \in Clients : scroll[c] = "done" => first[c] \subseteq loaded[c]

(***************************************************************************)
(* joinJob before loading, emit stores before it broadcasts: a client that *)
(* has been in the room since before its loading, and has loaded, has a    *)
(* line on a page or has its broadcast, unless Redis lost that; nothing    *)
(* falls between the pages and the room.                                   *)
(***************************************************************************)
NothingBetween == \A c \in since, l \in Lines :
  scroll[c] = "done" /\ copy[c][l] = "ignored" => l \in loaded[c]

(***************************************************************************)
(* Why: a reader has all it found at the start from the cursor up, only    *)
(* rows from the cursor up, and drawn numbers differ.                      *)
(***************************************************************************)
DrawnInv ==
  /\ \A l \in Lines : (seqOf[l] = 0) <=> (emitter[l] = "idle")
  /\ \A l, m \in Lines : l # m /\ seqOf[l] # 0 => seqOf[l] # seqOf[m]

ScrollInv == \A c \in Clients :
  /\ scroll[c] = "reading" =>
       /\ cursor[c] > 0
       /\ \A l \in loaded[c] : seqOf[l] >= cursor[c]
       /\ \A l \in first[c] : seqOf[l] >= cursor[c] => l \in loaded[c]
  /\ \A l \in Lines : c \in since /\ copy[c][l] = "ignored" => l \in first[c]

CopyInv == \A c \in Clients, l \in Lines :
  copy[c][l] # "none" => emitter[l] = "announced"

================================================================================
