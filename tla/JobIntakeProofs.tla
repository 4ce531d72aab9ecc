----------------------------- MODULE JobIntakeProofs ----------------------------
(* Job codes, for any number of concurrent intakes and of attempts. *)
EXTENDS JobIntake, FiniteSetTheorems, TLAPS

\* The number of jobs is a number, and stays while no job is inserted.
LEMMA CountType == Cardinality(Creators) \in Nat /\ IsFiniteSet(Creators) /\ JobCount \in Nat
<1>1. Creators \subseteq Intakes
  BY DEF Creators
<1>2. IsFiniteSet(Creators)
  BY <1>1, IntakesAssumption, FS_Subset
<1> QED
  BY <1>2, FS_CardinalityType, ExistingAssumption DEF JobCount

LEMMA CountKept ==
  ASSUME UNCHANGED code
  PROVE  UNCHANGED <<Creators, Codes, JobCount>>
BY DEF Creators, Codes, JobCount

\* An insert adds one job and its code.
LEMMA CountGrows ==
  ASSUME TypeOK, NEW i \in Intakes, code[i] = 0, n[i] # 0, code' = [code EXCEPT ![i] = n[i]]
  PROVE  /\ JobCount' = JobCount + 1
         /\ Codes' = Codes \cup {n[i]}
         /\ Creators' = Creators \cup {i}
<1>1. Creators' = Creators \cup {i} /\ i \notin Creators
  BY DEF Creators, TypeOK
<1>2. Cardinality(Creators') = Cardinality(Creators) + 1
  BY <1>1, CountType, FS_AddElement
<1>3. JobCount' = JobCount + 1
  BY <1>2, CountType, ExistingAssumption DEF JobCount
<1>4. {code'[k] : k \in Creators'} = {code[k] : k \in Creators} \cup {n[i]}
  <2>1. \A k \in Creators : code'[k] = code[k]
    BY <1>1 DEF TypeOK, Creators
  <2>2. code'[i] = n[i]
    BY DEF TypeOK
  <2> QED
    BY <1>1, <2>1, <2>2
<1> QED
  BY <1>1, <1>3, <1>4 DEF Codes

\* At the start the seed's codes are in use.
LEMMA IntakeInit == Init => IInv
<1> SUFFICES ASSUME Init PROVE IInv
  OBVIOUS
<1>1. Creators = {}
  BY DEF Init, Creators
<1>2. JobCount = Existing /\ Codes = 1 .. Existing
  BY <1>1, FS_EmptySet, ExistingAssumption DEF JobCount, Codes
<1>3. TypeOK
  BY AttemptsAssumption DEF Init, TypeOK, Steps
<1>4. CodesDense
  BY <1>1, <1>2 DEF CodesDense
<1> QED
  BY <1>3, <1>4 DEF Init, IInv, CandidateInv, FailsOnlyInCrowd

\* Types are kept by every step.
LEMMA IntakeTypes == TypeOK /\ [Next]_vars => TypeOK'
<1> SUFFICES ASSUME TypeOK, [Next]_vars PROVE TypeOK'
  OBVIOUS
<1> USE DEF TypeOK, Goto, Steps
<1>1. CASE UNCHANGED vars
  BY <1>1 DEF vars
<1>2. ASSUME NEW i \in Intakes, KnownVehicle(i) \/ NewVehicle(i) \/ KnownCustomer(i) \/ InsertRefused(i) \/ Crash(i)
      PROVE  TypeOK'
  BY <1>2 DEF KnownVehicle, NewVehicle, KnownCustomer, InsertRefused, Crash
<1>3. ASSUME NEW i \in Intakes, CreateCustomer(i) \/ CreateVehicle(i) \/ Insert(i)
      PROVE  TypeOK'
  BY <1>3 DEF CreateCustomer, CreateVehicle, Insert
<1>4. ASSUME NEW i \in Intakes, Count(i) \/ Probe(i)
      PROVE  TypeOK'
  BY <1>4, CountType DEF Count, Probe
<1>5. ASSUME NEW i \in Intakes, Collide(i)
      PROVE  TypeOK'
  BY <1>5, AttemptsAssumption DEF Collide
<1> QED
  BY <1>1, <1>2, <1>3, <1>4, <1>5 DEF Next, Progress

\* A step of i that stores no job.
LEMMA IntakeQuiet ==
  ASSUME IInv, TypeOK', NEW i \in Intakes, UNCHANGED code,
         \A k \in Intakes \ {i} : /\ pc'[k] = pc[k] /\ n'[k] = n[k]
                                  /\ attempt'[k] = attempt[k] /\ base'[k] = base[k],
         code[i] = 0, pc'[i] # "created",
         pc'[i] \in {"idle", "owner", "customer", "vehicle"} => attempt'[i] = 0,
         pc'[i] = "count" /\ attempt'[i] > 0 => JobCount >= base'[i] + attempt'[i],
         pc'[i] \in {"probe", "insert"} =>
           n'[i] <= JobCount + 1 /\ n'[i] > base'[i] + attempt'[i] /\ n'[i] > 0,
         pc'[i] = "conflict" => JobCount >= base'[i] + Attempts
  PROVE  IInv'
<1>1. UNCHANGED <<Creators, Codes, JobCount>>
  BY CountKept
<1>2. CodesDense'
  BY <1>1 DEF IInv, CodesDense
<1>3. CandidateInv'
  BY <1>1 DEF IInv, CandidateInv
<1>4. FailsOnlyInCrowd'
  BY <1>1 DEF IInv, FailsOnlyInCrowd
<1> QED
  BY <1>2, <1>3, <1>4 DEF IInv

\* The insert: a candidate that is free is the next code.
LEMMA IntakeInsert ==
  ASSUME IInv, TypeOK', NEW i \in Intakes, Insert(i)
  PROVE  IInv'
<1>1. /\ n[i] <= JobCount + 1 /\ n[i] > 0 /\ n[i] \in Nat /\ code[i] = 0
      /\ JobCount \in Nat
  BY CountType DEF Insert, IInv, CandidateInv, TypeOK
<1>2. n[i] = JobCount + 1
  <2>1. n[i] \notin 1 .. JobCount
    BY DEF Insert, IInv, CodesDense
  <2> QED
    BY <1>1, <2>1
<1>3. /\ JobCount' = JobCount + 1 /\ Codes' = Codes \cup {n[i]}
      /\ Creators' = Creators \cup {i}
  <2>1. TypeOK /\ n[i] # 0 /\ code[i] = 0 /\ code' = [code EXCEPT ![i] = n[i]]
    BY <1>1 DEF Insert, IInv
  <2> QED
    BY ONLY <2>1, CountGrows, i \in Intakes
<1>4. /\ code'[i] = n[i] /\ pc'[i] = "created"
      /\ \A k \in Intakes \ {i} : code'[k] = code[k] /\ pc'[k] = pc[k]
      /\ UNCHANGED <<n, attempt, base>>
  BY DEF Insert, Goto, IInv, TypeOK
<1>5. CodesDense'
  <2>1. Codes' = 1 .. JobCount'
    BY <1>1, <1>2, <1>3 DEF IInv, CodesDense
  <2>2. ASSUME NEW k \in Creators PROVE k \in Intakes /\ code[k] # n[i]
    BY <2>2 DEF Creators, Codes, Insert
  <2> QED
    BY <1>3, <1>4, <2>1, <2>2 DEF IInv, CodesDense, Creators
<1>6. CandidateInv'
  BY <1>1, <1>3, <1>4 DEF IInv, CandidateInv, TypeOK
<1>7. FailsOnlyInCrowd'
  BY <1>1, <1>3, <1>4, AttemptsAssumption DEF IInv, FailsOnlyInCrowd, TypeOK
<1> QED
  BY <1>5, <1>6, <1>7 DEF IInv

\* Every step keeps the invariant.
LEMMA IntakeStep == IInv /\ [Next]_vars => IInv'
<1> SUFFICES ASSUME IInv, [Next]_vars PROVE IInv'
  OBVIOUS
<1>1. TypeOK /\ TypeOK' /\ JobCount \in Nat
  BY IntakeTypes, CountType DEF IInv
<1>2. CASE UNCHANGED vars
  <2>1. UNCHANGED <<Creators, Codes, JobCount>>
    BY <1>2, CountKept DEF vars
  <2> QED
    BY <1>1, <1>2, <2>1 DEF vars, IInv, CodesDense, CandidateInv, FailsOnlyInCrowd
<1>3. ASSUME NEW i \in Intakes,
             KnownVehicle(i) \/ NewVehicle(i) \/ KnownCustomer(i) \/ InsertRefused(i) \/ Crash(i)
      PROVE  IInv'
  <2>1. /\ UNCHANGED <<code, n, attempt, base>>
        /\ \A k \in Intakes \ {i} : pc'[k] = pc[k]
        /\ pc'[i] \in {"count", "refused", "owner", "customer", "vehicle", "dead"}
        /\ pc[i] # "created"
    BY <1>1, <1>3 DEF KnownVehicle, NewVehicle, KnownCustomer, InsertRefused, Crash, Goto, TypeOK
  <2>2. pc'[i] \notin {"dead", "refused"} => pc[i] \in {"idle", "owner"}
    BY <1>1, <1>3 DEF KnownVehicle, NewVehicle, KnownCustomer, InsertRefused, Crash, Goto, TypeOK
  <2>3. code[i] = 0 /\ (pc'[i] \notin {"dead", "refused"} => attempt'[i] = 0)
    BY <1>1, <2>1, <2>2 DEF IInv, CandidateInv, TypeOK
  <2> QED
    BY <1>1, <2>1, <2>3, IntakeQuiet
<1>4. ASSUME NEW i \in Intakes, CreateCustomer(i) \/ CreateVehicle(i)
      PROVE  IInv'
  <2>1. /\ UNCHANGED <<code, n, attempt, base>>
        /\ \A k \in Intakes \ {i} : pc'[k] = pc[k]
        /\ pc'[i] \in {"vehicle", "count"}
        /\ code[i] = 0 /\ attempt[i] = 0
    BY <1>1, <1>4 DEF CreateCustomer, CreateVehicle, Goto, TypeOK, IInv, CandidateInv
  <2> QED
    BY <1>1, <2>1, IntakeQuiet
<1>5. ASSUME NEW i \in Intakes, Count(i)
      PROVE  IInv'
  <2>1. /\ UNCHANGED <<code, attempt>>
        /\ \A k \in Intakes \ {i} : pc'[k] = pc[k] /\ n'[k] = n[k] /\ base'[k] = base[k]
        /\ pc'[i] = "probe" /\ n'[i] = JobCount + 1
        /\ base'[i] = (IF attempt[i] = 0 THEN JobCount ELSE base[i])
    BY <1>1, <1>5 DEF Count, Goto, TypeOK
  <2>2. /\ code[i] = 0 /\ attempt[i] \in Nat
        /\ attempt[i] > 0 => JobCount >= base[i] + attempt[i]
    BY <1>1, <1>5 DEF Count, TypeOK, IInv, CandidateInv
  <2>3. n'[i] <= JobCount + 1 /\ n'[i] > base'[i] + attempt'[i] /\ n'[i] > 0
    BY <1>1, <2>1, <2>2 DEF TypeOK
  <2> QED
    BY <1>1, <2>1, <2>2, <2>3, IntakeQuiet
<1>6. ASSUME NEW i \in Intakes, Probe(i)
      PROVE  IInv'
  <2>1. /\ UNCHANGED <<code, attempt, base>>
        /\ \A k \in Intakes \ {i} : pc'[k] = pc[k] /\ n'[k] = n[k]
        /\ pc'[i] \in {"probe", "insert"}
        /\ n'[i] = n[i] \/ (n[i] \in Codes /\ n'[i] = n[i] + 1)
    BY <1>1, <1>6 DEF Probe, Goto, TypeOK
  <2>2. /\ code[i] = 0 /\ n[i] <= JobCount + 1 /\ n[i] > base[i] + attempt[i]
        /\ n[i] \in Nat /\ base[i] \in Nat /\ attempt[i] \in Nat /\ n[i] > 0
    BY <1>1, <1>6 DEF Probe, TypeOK, IInv, CandidateInv
  <2>3. n[i] \in Codes => n[i] <= JobCount
    BY <1>1, <2>2 DEF IInv, CodesDense
  <2>4. n'[i] <= JobCount + 1 /\ n'[i] > base'[i] + attempt'[i] /\ n'[i] > 0
    BY <1>1, <2>1, <2>2, <2>3
  <2> QED
    BY <1>1, <2>1, <2>2, <2>4, IntakeQuiet
<1>7. ASSUME NEW i \in Intakes, Insert(i)
      PROVE  IInv'
  BY <1>1, <1>7, IntakeInsert
<1>8. ASSUME NEW i \in Intakes, Collide(i)
      PROVE  IInv'
  <2>1. /\ UNCHANGED <<code, n, base>>
        /\ \A k \in Intakes \ {i} : pc'[k] = pc[k] /\ attempt'[k] = attempt[k]
        /\ \/ pc'[i] = "count" /\ attempt'[i] = attempt[i] + 1
           \/ pc'[i] = "conflict" /\ attempt[i] + 1 >= Attempts
    BY <1>1, <1>8, AttemptsAssumption DEF Collide, Goto, TypeOK
  <2>2. /\ code[i] = 0 /\ n[i] > base[i] + attempt[i] /\ n[i] \in Codes
        /\ n[i] \in Nat /\ base[i] \in Nat /\ attempt[i] \in Nat /\ n[i] > 0
    BY <1>1, <1>8 DEF Collide, TypeOK, IInv, CandidateInv
  <2>3. JobCount >= base[i] + attempt[i] + 1
    BY <1>1, <2>2 DEF IInv, CodesDense
  <2>4. /\ pc'[i] = "count" /\ attempt'[i] > 0 => JobCount >= base'[i] + attempt'[i]
        /\ pc'[i] = "conflict" => JobCount >= base'[i] + Attempts
    BY <1>1, <2>1, <2>2, <2>3, AttemptsAssumption
  <2> QED
    BY <1>1, <2>1, <2>2, <2>4, IntakeQuiet
<1> QED
  BY <1>2, <1>3, <1>4, <1>5, <1>6, <1>7, <1>8 DEF Next, Progress

(* createWithUniqueCode and nextJobCode: for any number of concurrent      *)
(* intakes, crashed ones included, the codes stay j1, j2, ... without a    *)
(* gap or a duplicate.                                                     *)
THEOREM DenseCodes == Spec => []CodesDense
<1>1. IInv => CodesDense
  BY DEF IInv
<1> QED
  BY <1>1, IntakeInit, IntakeStep, PTL DEF Spec

(* createWithUniqueCode: the duplicate that surfaces after Attempts        *)
(* collisions means that at least as many other jobs were stored meanwhile.*)
THEOREM CrowdedFailure == Spec => []FailsOnlyInCrowd
<1>1. IInv => FailsOnlyInCrowd
  BY DEF IInv
<1> QED
  BY <1>1, IntakeInit, IntakeStep, PTL DEF Spec

(* Codes, candidates and copies keep their types, whoever collides or dies.  *)
THEOREM TypeCorrect == Spec => []TypeOK
<1>1. IInv => TypeOK
  BY DEF IInv
<1> QED
  BY <1>1, IntakeInit, IntakeStep, PTL DEF Spec
================================================================================
