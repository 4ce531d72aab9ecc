-------------------------------- MODULE JobIntake -------------------------------
(***************************************************************************)
(* POST /jobs: jobs.service.ts create(), up to the first estimate, which   *)
(* is submit() on a fresh job (JobWorkflow).  The customer, the vehicle    *)
(* and the job are separate statements; the code "jN" is found by a count, *)
(* probes and an insert, which other intakes interleave with.              *)
(***************************************************************************)
EXTENDS Integers, FiniteSets

CONSTANTS
  Intakes,     \* the requests served in a behaviour
  Existing,    \* jobs at the start, with codes j1 .. jExisting (no API deletes a job)
  Attempts,    \* how often createWithUniqueCode tries: 3
  Crashes      \* may a handler die half way?

ASSUME IntakesAssumption  == IsFiniteSet(Intakes)
ASSUME ExistingAssumption == Existing \in Nat
ASSUME AttemptsAssumption == Attempts \in Nat \ {0}

Steps == {"idle", "owner", "customer", "vehicle", "count", "probe", "insert",
          "created", "refused", "conflict", "dead"}

VARIABLES
  pc,         \* where each intake stands
  customers,  \* the intakes that created a Customer row
  vehicles,   \* the intakes that created a Vehicle row
  code,       \* the N of the Job row an intake created, 0 if none
  n,          \* nextJobCode's local n
  attempt,    \* createWithUniqueCode's loop counter
  base        \* history: the jobs there were when the intake first counted

vars == <<pc, customers, vehicles, code, n, attempt, base>>

Creators   == {i \in Intakes : code[i] # 0}
Codes      == (1 .. Existing) \cup {code[i] : i \in Creators}
JobCount   == Existing + Cardinality(Creators)

TypeOK ==
  /\ pc        \in [Intakes -> Steps]
  /\ customers \subseteq Intakes
  /\ vehicles  \subseteq Intakes
  /\ code      \in [Intakes -> Nat]
  /\ n         \in [Intakes -> Nat]
  /\ attempt   \in [Intakes -> 0 .. (Attempts - 1)]
  /\ base      \in [Intakes -> Nat]

Init ==
  /\ pc        = [i \in Intakes |-> "idle"]
  /\ customers = {}
  /\ vehicles  = {}
  /\ code      = [i \in Intakes |-> 0]
  /\ n         = [i \in Intakes |-> 0]
  /\ attempt   = [i \in Intakes |-> 0]
  /\ base      = [i \in Intakes |-> 0]

Goto(i, step) == pc' = [pc EXCEPT ![i] = step]

--------------------------------------------------------------------------------
\* The body names a vehicle; it must be of this workshop, or the answer is 404.
KnownVehicle(i) ==
  /\ pc[i] = "idle"
  /\ \E step \in {"count", "refused"} : Goto(i, step)
  /\ UNCHANGED <<customers, vehicles, code, n, attempt, base>>

\* The body describes a new vehicle, of a customer given by id or by name; with
\* a detail missing the answer is 400 ...
NewVehicle(i) ==
  /\ pc[i] = "idle"
  /\ \E step \in {"owner", "customer", "refused"} : Goto(i, step)
  /\ UNCHANGED <<customers, vehicles, code, n, attempt, base>>

\* ... found by id, or 404 ...
KnownCustomer(i) ==
  /\ pc[i] = "owner"
  /\ \E step \in {"vehicle", "refused"} : Goto(i, step)
  /\ UNCHANGED <<customers, vehicles, code, n, attempt, base>>

\* ... or created.
CreateCustomer(i) ==
  /\ pc[i] = "customer"
  /\ customers' = customers \cup {i}
  /\ Goto(i, "vehicle")
  /\ UNCHANGED <<vehicles, code, n, attempt, base>>

CreateVehicle(i) ==
  /\ pc[i] = "vehicle"
  /\ vehicles' = vehicles \cup {i}
  /\ Goto(i, "count")
  /\ UNCHANGED <<customers, code, n, attempt, base>>

\* nextJobCode: count the jobs of all workshops ...
Count(i) ==
  /\ pc[i] = "count"
  /\ n'    = [n EXCEPT ![i] = JobCount + 1]
  /\ base' = [base EXCEPT ![i] = IF attempt[i] = 0 THEN JobCount ELSE @]
  /\ Goto(i, "probe")
  /\ UNCHANGED <<customers, vehicles, code, attempt>>

\* Variant: a taken code is looked up again.
ProbeStays(i) ==
  /\ pc[i] = "probe"
  /\ n[i] \notin Codes
  /\ Goto(i, "insert")
  /\ UNCHANGED <<customers, vehicles, code, n, attempt, base>>

\* ... and probe upwards for a free code.
Probe(i) ==
  /\ pc[i] = "probe"
  /\ IF n[i] \in Codes
       THEN n' = [n EXCEPT ![i] = @ + 1] /\ UNCHANGED pc
       ELSE Goto(i, "insert") /\ UNCHANGED n
  /\ UNCHANGED <<customers, vehicles, code, attempt, base>>

\* Variant: codes are not unique.
InsertAnyway(i) ==
  /\ pc[i] = "insert"
  /\ code' = [code EXCEPT ![i] = n[i]]
  /\ Goto(i, "created")
  /\ UNCHANGED <<customers, vehicles, n, attempt, base>>

Insert(i) ==
  /\ pc[i] = "insert"
  /\ n[i] \notin Codes
  /\ code' = [code EXCEPT ![i] = n[i]]
  /\ Goto(i, "created")
  /\ UNCHANGED <<customers, vehicles, n, attempt, base>>

\* Variant: a single collision is an error.
CollideOnce(i) ==
  /\ pc[i] = "insert"
  /\ n[i] \in Codes
  /\ Goto(i, "conflict")
  /\ UNCHANGED <<customers, vehicles, code, n, attempt, base>>

\* code is unique: a duplicate is re-allocated, or surfaces after the last
\* attempt.
Collide(i) ==
  /\ pc[i] = "insert"
  /\ n[i] \in Codes
  /\ IF attempt[i] + 1 < Attempts
       THEN attempt' = [attempt EXCEPT ![i] = @ + 1] /\ Goto(i, "count")
       ELSE UNCHANGED attempt /\ Goto(i, "conflict")
  /\ UNCHANGED <<customers, vehicles, code, n, base>>

\* A body may name a known vehicle and any customer: the insert fails if there
\* is no such customer.
InsertRefused(i) ==
  /\ pc[i] = "insert"
  /\ i \notin vehicles
  /\ Goto(i, "refused")
  /\ UNCHANGED <<customers, vehicles, code, n, attempt, base>>

Crash(i) ==
  /\ Crashes
  /\ pc[i] \in Steps \ {"idle", "created", "refused", "conflict", "dead"}
  /\ Goto(i, "dead")
  /\ UNCHANGED <<customers, vehicles, code, n, attempt, base>>

Progress(i) ==
  \/ KnownCustomer(i) \/ CreateCustomer(i) \/ CreateVehicle(i)
  \/ Count(i) \/ Probe(i) \/ Insert(i) \/ InsertRefused(i) \/ Collide(i)

Next == \E i \in Intakes : KnownVehicle(i) \/ NewVehicle(i) \/ Progress(i) \/ Crash(i)

Spec == Init /\ [][Next]_vars

\* A handler that has started runs on; nobody is obliged to send a request.
FairSpec == Spec /\ \A i \in Intakes : WF_vars(Progress(i))

--------------------------------------------------------------------------------
(***************************************************************************)
(* The codes in use are j1, j2, ... without a gap and without a duplicate, *)
(* although count, probes and insert of different intakes interleave: a    *)
(* stale candidate is either the next code or already taken.               *)
(***************************************************************************)
CodesDense ==
  /\ Codes = 1 .. JobCount
  /\ \A i, j \in Creators : i # j => code[i] # code[j]

(***************************************************************************)
(* An intake fails on its code only in a crowd: at least Attempts other    *)
(* intakes stored a job between its first count and its last insert.       *)
(***************************************************************************)
FailsOnlyInCrowd == \A i \in Intakes :
  pc[i] = "conflict" => JobCount >= base[i] + Attempts

(***************************************************************************)
(* Why: a candidate is at most one above the codes in use, and every       *)
(* collision costs a job stored by somebody else.                          *)
(***************************************************************************)
CandidateInv == \A i \in Intakes :
  /\ pc[i] \in {"idle", "owner", "customer", "vehicle"} => attempt[i] = 0
  /\ pc[i] = "count" /\ attempt[i] > 0 => JobCount >= base[i] + attempt[i]
  /\ pc[i] \in {"probe", "insert"} =>
       /\ n[i] <= JobCount + 1
       /\ n[i] > base[i] + attempt[i]
       /\ n[i] > 0
  /\ code[i] # 0 <=> pc[i] = "created"

IInv == TypeOK /\ CodesDense /\ CandidateInv /\ FailsOnlyInCrowd

(***************************************************************************)
(* An intake that has its customer ends with a job, or with a conflict     *)
(* after Attempts others got in its way; or it named a known vehicle with  *)
(* an unknown customer, or its handler dies.  None probes or recounts      *)
(* forever, however many codes the others take meanwhile.                  *)
(***************************************************************************)
IntakeCompletes == \A i \in Intakes :
  pc[i] \in {"customer", "vehicle", "count"} ~>
    \/ code[i] # 0
    \/ pc[i] = "conflict" /\ JobCount >= base[i] + Attempts
    \/ pc[i] = "refused" /\ i \notin vehicles
    \/ pc[i] = "dead"
================================================================================
