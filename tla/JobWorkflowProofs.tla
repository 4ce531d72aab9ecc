---------------------------- MODULE JobWorkflowProofs --------------------------
(* Invariants of JobWorkflow, and the lifecycle it implements, for every
   number of jobs and requests. *)
EXTENDS LifecycleRefinement, TLAPS

USE DEF Status, Working, PatchStatus, Ops, Submissions

\* The copies the first reads take (resolveJob, submit(), decide()).
LEMMA CopyType ==
  ASSUME TypeOK, NEW j \in Jobs
  PROVE  CopyOf(j) \in Snapshot /\ CopyOfEstimate(j) \in Snapshot
BY DEF TypeOK, CopyOf, CopyOfEstimate, Snapshot, JobRow, EstimateRow

\* The empty request body, memory and ruling.
LEMMA DefaultsType == NoDto \in PatchDto /\ Nothing \in Snapshot /\ NoRuling \in Ruling
BY DEF NoDto, PatchDto, Nothing, Snapshot, NoRuling, Ruling

\* The initial rows.
LEMMA InitType == Init => TypeOK
<1> SUFFICES ASSUME Init PROVE TypeOK
  OBVIOUS
<1> PICK at \in [Jobs -> Stages] :
       /\ job      = [j \in Jobs |-> StageRow[at[j]]]
       /\ estimate = [j \in Jobs |-> StageEstimate[at[j]]]
       /\ invoice  = [j \in Jobs |-> StageInvoice[at[j]]]
  BY DEF Init
<1>1. ASSUME NEW g \in StageNames
      PROVE  /\ StageRow[g] \in JobRow
             /\ StageEstimate[g] \in EstimateRow
             /\ StageInvoice[g] \in InvoiceRow
  BY DEF StageNames, StageRow, StageEstimate, StageInvoice, Row, JobRow, EstimateRow,
         InvoiceRow, NoEstimate, Estimated, NoInvoice
<1>2. job \in [Jobs -> JobRow] /\ estimate \in [Jobs -> EstimateRow] /\ invoice \in [Jobs -> InvoiceRow]
  BY <1>1, StagesAssumption
<1>3. (CHOOSE j \in Jobs : TRUE) \in Jobs
  BY JobsAssumption
<1> QED
  BY <1>2, <1>3, DefaultsType DEF Init, TypeOK, Steps

\* A request arrives.
LEMMA TypeArrival ==
  ASSUME TypeOK, NEW r \in Requests, Arrival(r)
  PROVE  TypeOK'
<1> USE DEF TypeOK
<1>1. CASE UpdateReads(r)
  <2> PICK j \in Jobs, u \in Users, d \in PatchDto :
        /\ Arrive(r, "update", j, d)
        /\ saw' = [saw EXCEPT ![r] = CopyOf(j)]
        /\ Goto(r, IF d.tech \in Users THEN "technician" ELSE AfterLookup(d, CopyOf(j)))
    BY <1>1 DEF UpdateReads
  <2>1. pc' \in [Requests -> Steps]
    BY DEF Goto, Steps, AfterLookup
  <2> QED
    BY <1>1, <2>1, CopyType DEF UpdateReads, tables, Arrive
<1>2. CASE SubmitReads(r)
  BY <1>2, CopyType, DefaultsType DEF tables, Arrive, SubmitReads, Goto, Steps
<1>3. ASSUME NEW c \in {"approve", "decline"}, DecideReads(r, c)
      PROVE  TypeOK'
  BY <1>3, CopyType, DefaultsType DEF tables, Arrive, DecideReads, Goto, Steps
<1> QED
  BY <1>1, <1>2, <1>3 DEF Arrival

\* The columns the handlers compute are of the right type.
LEMMA RowTypes ==
  ASSUME NEW row \in JobRow, NEW seen \in Snapshot, NEW d \in PatchDto
  PROVE  /\ Patched(row, d, seen) \in JobRow
         /\ Parked(row, seen) \in JobRow
         /\ Released(row, seen) \in JobRow
<1>1. NewStatus(d, seen) \in PatchStatus \cup {Keep}
  BY DEF NewStatus, PatchDto
<1>2. Patched(row, d, seen) \in JobRow
  <2> DEFINE status    == IF NewStatus(d, seen) = Keep THEN row.status ELSE NewStatus(d, seen)
             tech      == IF d.tech = Keep THEN row.tech ELSE d.tech
             note      == IF NewStatus(d, seen) = "DELIVERED" THEN d.note ELSE row.note
             started   == IF StartingNow(d, seen) THEN TRUE ELSE row.started
             delivered == IF NewStatus(d, seen) = "DELIVERED" THEN TRUE ELSE row.delivered
  <2>1. status \in Status
    BY <1>1 DEF JobRow, PatchStatus, Status
  <2>2. tech \in Users \cup {Nobody}
    BY UsersAssumption DEF JobRow, PatchDto
  <2>3. note \in BOOLEAN /\ started \in BOOLEAN /\ delivered \in BOOLEAN
    BY DEF JobRow, PatchDto
  <2>4. Patched(row, d, seen) = [row EXCEPT !.status = status, !.started = started,
                                   !.tech = tech, !.delivered = delivered, !.note = note]
    BY DEF Patched
  <2> HIDE DEF status, tech, note, started, delivered
  <2> QED
    BY <2>1, <2>2, <2>3, <2>4 DEF JobRow
<1>3. ResumeStatus(seen) \in Status
  BY DEF ResumeStatus, Snapshot
<1>4. Released(row, seen) \in JobRow
  BY <1>3 DEF Released, JobRow
<1>5. Parked(row, seen) \in JobRow
  BY DEF Parked, JobRow, Snapshot
<1> QED
  BY <1>2, <1>4, <1>5

\* A handler ends.
LEMMA ReturnType ==
  ASSUME TypeOK, NEW r \in Requests, Return(r)
  PROVE  /\ pc' \in [Requests -> Steps] /\ dto' \in [Requests -> PatchDto]
         /\ saw' \in [Requests -> Snapshot] /\ UNCHANGED <<op, target, ruling>>
BY DefaultsType DEF TypeOK, Return, Goto, Steps

\* A handler goes on, with what it remembers.
LEMMA AdvanceType ==
  ASSUME TypeOK, NEW r \in Requests, NEW step \in Steps, Advance(r, step)
  PROVE  /\ pc' \in [Requests -> Steps] /\ UNCHANGED <<op, target, dto, saw, ruling>>
BY DEF TypeOK, Advance, Goto

\* A timeline line is written.
LEMMA LogType ==
  ASSUME TypeOK, NEW r \in Requests, NEW kinds \in SUBSET TimelineKind, Log(r, kinds)
  PROVE  timeline' \in [Jobs -> SUBSET (Requests \X TimelineKind)]
BY DEF TypeOK, Log

\* A transaction notes the lines its deleteMany sees.
LEMMA DoomedType ==
  ASSUME NEW seen \in Snapshot, NEW lines \in SUBSET Submissions
  PROVE  [seen EXCEPT !.doomed = lines] \in Snapshot
BY DEF Snapshot

\* The steps of update().
LEMMA TypeUpdate ==
  ASSUME TypeOK, NEW r \in Requests, UpdateStep(r)
  PROVE  TypeOK'
<1>1. CASE TechnicianFound(r) \/ DeliveryAllowed(r)
  <2>1. AfterLookup(dto[r], saw[r]) \in Steps /\ "write" \in Steps
    BY DEF AfterLookup, Steps
  <2> QED
    BY <1>1, <2>1, AdvanceType DEF TechnicianFound, DeliveryAllowed, tables, TypeOK
<1>2. CASE TechnicianMissing(r) \/ DeliveryRefused(r)
  BY <1>2, ReturnType DEF TechnicianMissing, DeliveryRefused, tables, TypeOK
<1>3. CASE UpdateWrites(r)
  <2>1. Patched(job[target[r]], dto[r], saw[r]) \in JobRow
    BY RowTypes DEF TypeOK
  <2>2. "announce" \in Steps
    BY DEF Steps
  <2> QED
    BY <1>3, <2>1, <2>2, AdvanceType DEF UpdateWrites, TypeOK
<1>4. CASE UpdateAnnounces(r)
  <2>1. timeline' \in [Jobs -> SUBSET (Requests \X TimelineKind)]
    BY <1>4, LogType DEF UpdateAnnounces, TimelineKind
  <2>2. "handover" \in Steps
    BY DEF Steps
  <2>3. Advance(r, "handover") \/ Return(r)
    BY <1>4 DEF UpdateAnnounces
  <2>4. UNCHANGED <<job, photos, estimate, invoice>>
    BY <1>4 DEF UpdateAnnounces
  <2> QED
    BY <2>1, <2>2, <2>3, <2>4, AdvanceType, ReturnType DEF TypeOK
<1>5. CASE HandoverAnnounces(r)
  <2>1. timeline' \in [Jobs -> SUBSET (Requests \X TimelineKind)]
    BY <1>5, LogType DEF HandoverAnnounces, TimelineKind
  <2> QED
    BY <1>5, <2>1, ReturnType DEF HandoverAnnounces, TypeOK
<1> QED
  BY <1>1, <1>2, <1>3, <1>4, <1>5 DEF UpdateStep

\* The steps of submit().
LEMMA TypeSubmit ==
  ASSUME TypeOK, NEW r \in Requests, SubmitStep(r)
  PROVE  TypeOK'
<1> USE DEF Steps
<1>1. CASE SubmitFinds(r)
  BY <1>1, AdvanceType DEF SubmitFinds, tables, TypeOK
<1>2. CASE SubmitClears(r)
  <2>1. [saw[r] EXCEPT !.doomed = estimate[target[r]].lines] \in Snapshot
    <3>1. estimate[target[r]].lines \in SUBSET Submissions
      BY DEF TypeOK, EstimateRow
    <3> QED
      BY <3>1, DoomedType DEF TypeOK
  <2> QED
    BY <1>2, <2>1 DEF SubmitClears, tables, TypeOK, Goto
<1>3. CASE SubmitReplaces(r) \/ SubmitCreates(r)
  <2>1. Parked(job[target[r]], saw[r]) \in JobRow
    BY RowTypes, DefaultsType DEF TypeOK
  <2>2. estimate' \in [Jobs -> EstimateRow]
    <3>1. [status |-> "PENDING", sub |-> r,
           lines |-> (estimate[target[r]].lines \ saw[r].doomed) \cup {r}] \in EstimateRow
      BY DEF TypeOK, EstimateRow
    <3>2. [status |-> "PENDING", sub |-> r, lines |-> {r}] \in EstimateRow
      BY DEF EstimateRow
    <3>3. CASE SubmitReplaces(r)
      BY <3>3, <3>1 DEF SubmitReplaces, TypeOK
    <3>4. CASE SubmitCreates(r)
      BY <3>4, <3>2 DEF SubmitCreates, TypeOK
    <3> QED
      BY <1>3, <3>3, <3>4
  <2> QED
    BY <1>3, <2>1, <2>2, AdvanceType DEF SubmitReplaces, SubmitCreates, TypeOK
<1>4. CASE SubmitCollides(r)
  BY <1>4, ReturnType DEF SubmitCollides, tables, TypeOK
<1>5. CASE SubmitAnnounces(r)
  <2>1. timeline' \in [Jobs -> SUBSET (Requests \X TimelineKind)]
    BY <1>5, LogType DEF SubmitAnnounces, TimelineKind
  <2> QED
    BY <1>5, <2>1, ReturnType DEF SubmitAnnounces, TypeOK
<1> QED
  BY <1>1, <1>2, <1>3, <1>4, <1>5 DEF SubmitStep

\* The steps of decide().
LEMMA TypeDecide ==
  ASSUME TypeOK, NEW r \in Requests, DecideStep(r)
  PROVE  TypeOK'
<1> USE DEF Steps
<1>1. CASE DecideClaims(r)
  <2>1. estimate' \in [Jobs -> EstimateRow]
    <3>1. PICK s \in {"APPROVED", "DECLINED"} :
            estimate' = [estimate EXCEPT ![target[r]] = [@ EXCEPT !.status = s]]
      BY <1>1 DEF DecideClaims
    <3>2. \A e \in EstimateRow : [e EXCEPT !.status = s] \in EstimateRow
      BY DEF EstimateRow
    <3>3. estimate[target[r]] \in EstimateRow
      BY DEF TypeOK
    <3> QED
      BY <3>1, <3>2, <3>3 DEF TypeOK
  <2>2. ruling' \in [Requests -> Ruling]
    BY <1>1 DEF DecideClaims, TypeOK, Ruling, Snapshot, EstimateRow
  <2> QED
    BY <1>1, <2>1, <2>2 DEF DecideClaims, TypeOK, Goto
<1>2. CASE DecideConflicts(r) \/ BillCollides(r)
  BY <1>2, ReturnType DEF DecideConflicts, BillCollides, tables, TypeOK
<1>3. CASE DeclineReleases(r) \/ ApproveRefreshes(r) \/ ApproveBills(r)
  <2>1. Released(job[target[r]], saw[r]) \in JobRow
    BY RowTypes, DefaultsType DEF TypeOK
  <2>2. invoice' \in [Jobs -> InvoiceRow]
    BY <1>3 DEF DeclineReleases, ApproveRefreshes, ApproveBills, TypeOK, InvoiceRow, Snapshot
  <2> QED
    BY <1>3, <2>1, <2>2, AdvanceType DEF DeclineReleases, ApproveRefreshes, ApproveBills, TypeOK
<1>4. CASE RefreshClears(r)
  <2>1. [saw[r] EXCEPT !.doomed = invoice[target[r]].lines] \in Snapshot
    <3>1. invoice[target[r]].lines \in SUBSET Submissions
      BY DEF TypeOK, InvoiceRow
    <3> QED
      BY <3>1, DoomedType DEF TypeOK
  <2> QED
    BY <1>4, <2>1 DEF RefreshClears, tables, TypeOK, Goto
<1>5. CASE ApproveNumbers(r)
  <2> PICK n \in 1 .. (2 * Cardinality(Jobs) + 1) : saw' = [saw EXCEPT ![r] = [@ EXCEPT !.number = n]]
    BY <1>5 DEF ApproveNumbers
  <2>1. n \in Nat
    OBVIOUS
  <2>2. [saw[r] EXCEPT !.number = n] \in Snapshot
    BY <2>1 DEF TypeOK, Snapshot
  <2>3. saw' \in [Requests -> Snapshot]
    BY <2>2 DEF TypeOK
  <2>4. pc' \in [Requests -> Steps]
    BY <1>5 DEF ApproveNumbers, Goto, TypeOK
  <2> QED
    BY <1>5, <2>3, <2>4 DEF ApproveNumbers, tables, TypeOK
<1>6. CASE DecisionAnnounces(r)
  <2>1. timeline' \in [Jobs -> SUBSET (Requests \X TimelineKind)]
    BY <1>6, LogType DEF DecisionAnnounces, TimelineKind
  <2> QED
    BY <1>6, <2>1, ReturnType DEF DecisionAnnounces, TypeOK
<1> QED
  BY <1>1, <1>2, <1>3, <1>4, <1>5, <1>6 DEF DecideStep

(***************************************************************************)
(* Every reachable state is of the declared types.                         *)
(***************************************************************************)
THEOREM TypeCorrect == Spec => []TypeOK
<1>1. TypeOK /\ [Next]_vars => TypeOK'
  <2> SUFFICES ASSUME TypeOK, [Next]_vars PROVE TypeOK'
    OBVIOUS
  <2>1. CASE UNCHANGED vars
    BY <2>1 DEF vars, TypeOK
  <2>2. ASSUME NEW j \in Jobs, NEW side \in Sides, SaveDeliveryPhoto(j, side)
        PROVE  TypeOK'
    BY <2>2 DEF SaveDeliveryPhoto, TypeOK
  <2>3. ASSUME NEW r \in Requests, Crash(r)
        PROVE  TypeOK'
    BY <2>3, ReturnType DEF Crash, tables, TypeOK
  <2> QED
    BY <2>1, <2>2, <2>3, TypeArrival, TypeUpdate, TypeSubmit, TypeDecide DEF Next, Progress
<1> QED
  BY <1>1, InitType, PTL DEF Spec

--------------------------------------------------------------------------------
(***************************************************************************)
(* The stages of a job: StageInv.                                          *)
(***************************************************************************)
SoundRow(row) ==
  /\ row.status \in Working \/ row.before \in Working => row.started
  /\ row.before \notin {"REVIEW", "DELIVERED"}

SoundCopy(seen, row) ==
  /\ seen.started => row.started
  /\ seen.status \in Working \/ seen.before \in Working => seen.started
  /\ seen.before \notin {"REVIEW", "DELIVERED"}

\* What each of the three writes of a job's row does to a sound row, given a
\* copy that may be stale but remembers nothing false.
LEMMA WritesAreSound ==
  ASSUME NEW row \in JobRow, NEW seen \in Snapshot, NEW d \in PatchDto,
         SoundRow(row), SoundCopy(seen, row)
  PROVE  /\ MoveAllowed(d, seen) =>
              SoundRow(Patched(row, d, seen)) /\ (row.started => Patched(row, d, seen).started)
         /\ seen.status # "DELIVERED" =>
              SoundRow(Parked(row, seen)) /\ (row.started => Parked(row, seen).started)
         /\ SoundRow(Released(row, seen)) /\ (row.started => Released(row, seen).started)
<1>1. ASSUME MoveAllowed(d, seen)
      PROVE  SoundRow(Patched(row, d, seen)) /\ (row.started => Patched(row, d, seen).started)
  <2>1. NewStatus(d, seen) \in PatchStatus \cup {Keep}
    BY DEF NewStatus, PatchDto
  <2>2. NewStatus(d, seen) \in {"AWAITING_PART", "COMPLETED", "DELIVERED"} => seen.status \in Working
    BY <1>1 DEF MoveAllowed, ALLOWED_TRANSITIONS, Snapshot, Keep
  <2>3. NewStatus(d, seen) # Keep => Patched(row, d, seen).started
    <3>1. CASE NewStatus(d, seen) = "IN_PROGRESS"
      BY <3>1 DEF SoundCopy, Patched, StartingNow, JobRow, Keep
    <3>2. CASE NewStatus(d, seen) # "IN_PROGRESS"
      BY <2>1, <2>2, <3>2 DEF SoundCopy, Patched, StartingNow, JobRow, Keep
    <3> QED
      BY <3>1, <3>2
  <2>4. row.started => Patched(row, d, seen).started
    BY DEF Patched, JobRow
  <2>5. Patched(row, d, seen).before = row.before
    BY DEF Patched, JobRow
  <2>6. NewStatus(d, seen) = Keep => Patched(row, d, seen).status = row.status
    BY DEF Patched, JobRow
  <2> QED
    BY <2>3, <2>4, <2>5, <2>6 DEF SoundRow
<1>2. ASSUME seen.status # "DELIVERED"
      PROVE  SoundRow(Parked(row, seen)) /\ (row.started => Parked(row, seen).started)
  BY <1>2 DEF Parked, SoundRow, SoundCopy, JobRow, Snapshot
<1>3. SoundRow(Released(row, seen)) /\ (row.started => Released(row, seen).started)
  BY DEF Released, ResumeStatus, SoundRow, SoundCopy, JobRow, Snapshot, NoStatus
<1> QED
  BY <1>1, <1>2, <1>3

\* No write but the gated one enters DELIVERED.
LEMMA WritesAreDocumented ==
  ASSUME NEW row \in JobRow, NEW seen \in Snapshot, NEW d \in PatchDto
  PROVE  /\ Patched(row, d, seen).status = "DELIVERED" \/ Patched(row, d, seen).delivered =>
              \/ NewStatus(d, seen) = "DELIVERED" /\ Patched(row, d, seen).delivered
                                                 /\ Patched(row, d, seen).note = d.note
              \/ /\ row.status = "DELIVERED" \/ row.delivered
                 /\ Patched(row, d, seen).delivered = row.delivered
                 /\ Patched(row, d, seen).note = row.note
         /\ Parked(row, seen).status = "REVIEW"
         /\ Parked(row, seen).delivered = row.delivered
         /\ Parked(row, seen).note = row.note
         /\ seen.before # "DELIVERED" /\ Released(row, seen).status = "DELIVERED" =>
              row.status = "DELIVERED"
         /\ Released(row, seen).delivered = row.delivered
         /\ Released(row, seen).note = row.note
<1>1. Patched(row, d, seen).status = "DELIVERED" \/ Patched(row, d, seen).delivered =>
        \/ NewStatus(d, seen) = "DELIVERED" /\ Patched(row, d, seen).delivered
                                           /\ Patched(row, d, seen).note = d.note
        \/ /\ row.status = "DELIVERED" \/ row.delivered
           /\ Patched(row, d, seen).delivered = row.delivered
           /\ Patched(row, d, seen).note = row.note
  BY DEF Patched, JobRow, PatchDto, Keep
<1> QED
  BY <1>1 DEF Parked, Released, ResumeStatus, JobRow, Snapshot

\* The initial rows are sound, and no handler remembers anything.
LEMMA StageInit == Init => StageInv
<1> SUFFICES ASSUME Init PROVE StageInv
  OBVIOUS
<1> PICK at \in [Jobs -> Stages] : job = [j \in Jobs |-> StageRow[at[j]]]
  BY DEF Init
<1>1. ASSUME NEW g \in StageNames
      PROVE  SoundRow(StageRow[g]) /\ StageRow[g].status # "DELIVERED" /\ ~StageRow[g].delivered
  BY DEF StageNames, StageRow, Row, SoundRow, NoStatus
<1>2. \A j \in Jobs : SoundRow(job[j]) /\ job[j].status # "DELIVERED" /\ ~job[j].delivered
  BY <1>1, StagesAssumption
<1>3. \A r \in Requests : ~Active(r)
  BY DEF Init, Active
<1> QED
  BY <1>2, <1>3 DEF StageInv, WorkImpliesStarted, HandoverDocumented, ResumesToOpenStage, SoundRow

\* A step of r's handler that leaves jobs and photos alone only has to keep its
\* own memory right.
LEMMA StageQuiet ==
  ASSUME TypeOK, StageInv, UNCHANGED <<job, photos>>, NEW r \in Requests,
         \A q \in Requests \ {r} : /\ pc'[q] = pc[q] /\ dto'[q] = dto[q]
                                   /\ saw'[q] = saw[q] /\ target'[q] = target[q],
         Active(r)' => MemoryHolds(r)'
  PROVE  StageInv'
<1>1. ASSUME NEW q \in Requests, q # r, Active(q)'
      PROVE  MemoryHolds(q)'
  <2>1. MemoryHolds(q)
    BY <1>1 DEF StageInv, Active
  <2> QED
    BY <1>1, <2>1 DEF MemoryHolds
<1> QED
  BY <1>1 DEF StageInv, WorkImpliesStarted, HandoverDocumented, ResumesToOpenStage

\* A step of r's handler that writes its job's row.
LEMMA StageWrite ==
  ASSUME TypeOK, StageInv, UNCHANGED <<photos, dto, saw, target>>, NEW r \in Requests,
         NEW step, pc' = [pc EXCEPT ![r] = step],
         step \notin {"technician", "photos", "write", "find", "clear", "resubmit", "create"},
         Active(r),
         NEW row \in JobRow, job' = [job EXCEPT ![target[r]] = row],
         SoundRow(row), job[target[r]].started => row.started,
         row.status = "DELIVERED" \/ row.delivered =>
           photos[target[r]] = Sides /\ row.delivered /\ row.note
  PROVE  StageInv'
<1> USE DEF TypeOK
<1>1. WorkImpliesStarted' /\ ResumesToOpenStage'
  BY DEF StageInv, WorkImpliesStarted, ResumesToOpenStage, SoundRow
<1>2. HandoverDocumented'
  BY DEF StageInv, HandoverDocumented
<1>3. \A j \in Jobs : job[j].started => job'[j].started
  OBVIOUS
<1>4. ASSUME NEW q \in Requests, Active(q)'
      PROVE  MemoryHolds(q)'
  <2>1. MemoryHolds(q)
    BY <1>4 DEF StageInv, Active
  <2>2. target[q] \in Jobs
    OBVIOUS
  <2>3. CASE q = r
    BY <1>3, <2>1, <2>2, <2>3 DEF MemoryHolds
  <2>4. CASE q # r
    BY <1>3, <2>1, <2>2, <2>4 DEF MemoryHolds
  <2> QED
    BY <2>3, <2>4
<1> QED
  BY <1>1, <1>2, <1>4 DEF StageInv

\* A copy just taken remembers nothing false.
LEMMA FreshMemory ==
  ASSUME TypeOK, StageInv, UNCHANGED tables, NEW r \in Requests, NEW j \in Jobs,
         target'[r] = j, saw'[r] \in {CopyOf(j), CopyOfEstimate(j)},
         pc'[r] \in {"technician", "photos", "write"} => MoveAllowed(dto'[r], saw'[r]),
         pc'[r] = "write" => NewStatus(dto'[r], saw'[r]) # "DELIVERED",
         pc'[r] \in {"find", "clear", "resubmit", "create"} => job[j].status # "DELIVERED"
  PROVE  MemoryHolds(r)'
<1>1. /\ saw'[r].status = job[j].status
      /\ saw'[r].before = job[j].before
      /\ saw'[r].started = job[j].started
  BY DEF CopyOf, CopyOfEstimate
<1> QED
  BY <1>1 DEF MemoryHolds, StageInv, WorkImpliesStarted, ResumesToOpenStage, tables

\* A request arrives and takes its copy of a sound row.
LEMMA StageArrival ==
  ASSUME TypeOK, StageInv, NEW r \in Requests, Arrival(r)
  PROVE  StageInv'
<1>1. CASE UpdateReads(r)
  <2> PICK j \in Jobs, u \in Users, d \in PatchDto :
        /\ MoveAllowed(d, CopyOf(j))
        /\ Arrive(r, "update", j, d)
        /\ saw' = [saw EXCEPT ![r] = CopyOf(j)]
        /\ Goto(r, IF d.tech \in Users THEN "technician" ELSE AfterLookup(d, CopyOf(j)))
    BY <1>1 DEF UpdateReads
  <2>1. UNCHANGED tables
    BY <1>1 DEF UpdateReads
  <2>2. target'[r] = j /\ dto'[r] = d /\ saw'[r] = CopyOf(j)
    BY DEF Arrive, TypeOK
  <2>3. /\ pc'[r] \in {"technician", "photos", "write"}
        /\ pc'[r] = "write" => NewStatus(d, CopyOf(j)) # "DELIVERED"
    BY DEF Goto, AfterLookup, TypeOK
  <2>4. MemoryHolds(r)'
    BY <2>1, <2>2, <2>3, FreshMemory
  <2> QED
    BY <2>1, <2>4, StageQuiet DEF Arrive, Goto, tables, TypeOK
<1>2. CASE SubmitReads(r)
  <2> PICK j \in Jobs : /\ job[j].status # "DELIVERED"
                        /\ Arrive(r, "submit", j, NoDto)
                        /\ saw' = [saw EXCEPT ![r] = CopyOf(j)]
    BY <1>2 DEF SubmitReads
  <2>1. UNCHANGED tables /\ pc'[r] = "find"
    BY <1>2 DEF SubmitReads, Goto, TypeOK
  <2>2. target'[r] = j /\ saw'[r] = CopyOf(j)
    BY DEF Arrive, TypeOK
  <2>3. MemoryHolds(r)'
    BY <2>1, <2>2, FreshMemory
  <2> QED
    BY <1>2, <2>1, <2>3, StageQuiet DEF SubmitReads, Arrive, Goto, tables, TypeOK
<1>3. ASSUME NEW c \in {"approve", "decline"}, DecideReads(r, c)
      PROVE  StageInv'
  <2> PICK j \in Jobs : Arrive(r, c, j, NoDto) /\ saw' = [saw EXCEPT ![r] = CopyOfEstimate(j)]
    BY <1>3 DEF DecideReads
  <2>1. UNCHANGED tables /\ pc'[r] = "claim"
    BY <1>3 DEF DecideReads, Goto, TypeOK
  <2>2. target'[r] = j /\ saw'[r] = CopyOfEstimate(j)
    BY DEF Arrive, TypeOK
  <2>3. MemoryHolds(r)'
    BY <2>1, <2>2, FreshMemory
  <2> QED
    BY <1>3, <2>1, <2>3, StageQuiet DEF DecideReads, Arrive, Goto, tables, TypeOK
<1> QED
  BY <1>1, <1>2, <1>3 DEF Arrival

\* Handlers that end, or move on without changing what they remember.
LEMMA StageReturn ==
  ASSUME TypeOK, StageInv, NEW r \in Requests, Return(r), UNCHANGED <<job, photos>>
  PROVE  StageInv'
<1>1. ~Active(r)'
  BY DEF Return, Goto, Active, TypeOK
<1> QED
  BY <1>1, StageQuiet DEF Return, Goto, TypeOK

\* A handler goes on; what its next step relies on was checked.
LEMMA StageAdvance ==
  ASSUME TypeOK, StageInv, NEW r \in Requests, Active(r), NEW step, Advance(r, step),
         UNCHANGED <<job, photos>>,
         step \in {"technician", "photos", "write"} => MoveAllowed(dto[r], saw[r]),
         step \in {"find", "clear", "resubmit", "create"} => saw[r].status # "DELIVERED",
         step = "write" /\ NewStatus(dto[r], saw[r]) = "DELIVERED" =>
           photos[target[r]] = Sides /\ dto[r].note
  PROVE  StageInv'
<1>1. MemoryHolds(r)
  BY DEF StageInv
<1>2. pc'[r] = step
  BY DEF Advance, Goto, TypeOK
<1>3. MemoryHolds(r)'
  BY <1>1, <1>2 DEF MemoryHolds, Advance
<1> QED
  BY <1>3, StageQuiet DEF Advance, Goto, TypeOK

\* The steps of update(): the gate is closed before the write.
LEMMA StageUpdate ==
  ASSUME TypeOK, StageInv, NEW r \in Requests, UpdateStep(r)
  PROVE  StageInv'
<1>1. CASE TechnicianFound(r)
  <2>1. Active(r) /\ MemoryHolds(r) /\ MoveAllowed(dto[r], saw[r])
    BY <1>1 DEF TechnicianFound, Active, StageInv, MemoryHolds
  <2>2. AfterLookup(dto[r], saw[r]) = "write" => NewStatus(dto[r], saw[r]) # "DELIVERED"
    BY DEF AfterLookup
  <2>3. AfterLookup(dto[r], saw[r]) \in {"photos", "write"}
    BY DEF AfterLookup
  <2> QED
    BY <1>1, <2>1, <2>2, <2>3, StageAdvance DEF TechnicianFound, tables
<1>2. CASE DeliveryAllowed(r)
  <2>1. Active(r) /\ MoveAllowed(dto[r], saw[r])
    BY <1>2 DEF DeliveryAllowed, Active, StageInv, MemoryHolds
  <2> QED
    BY <1>2, <2>1, StageAdvance DEF DeliveryAllowed, tables
<1>3. CASE TechnicianMissing(r) \/ DeliveryRefused(r)
  BY <1>3, StageReturn DEF TechnicianMissing, DeliveryRefused, tables
<1>4. CASE UpdateWrites(r)
  <2> DEFINE row == Patched(job[target[r]], dto[r], saw[r])
  <2>1. Active(r) /\ MemoryHolds(r) /\ MoveAllowed(dto[r], saw[r])
    BY <1>4 DEF UpdateWrites, Active, StageInv, MemoryHolds
  <2>2. SoundRow(job[target[r]]) /\ SoundCopy(saw[r], job[target[r]])
    BY <2>1 DEF MemoryHolds, SoundRow, SoundCopy, StageInv, WorkImpliesStarted,
                ResumesToOpenStage, TypeOK
  <2>3. /\ row \in JobRow /\ SoundRow(row)
        /\ job[target[r]].started => row.started
    BY <2>1, <2>2, RowTypes, WritesAreSound DEF TypeOK
  <2>4. row.status = "DELIVERED" \/ row.delivered =>
          photos[target[r]] = Sides /\ row.delivered /\ row.note
    <3>1. NewStatus(dto[r], saw[r]) = "DELIVERED" => photos[target[r]] = Sides /\ dto[r].note
      BY <1>4, <2>1 DEF UpdateWrites, MemoryHolds
    <3>2. job[target[r]].status = "DELIVERED" \/ job[target[r]].delivered =>
            photos[target[r]] = Sides /\ job[target[r]].delivered /\ job[target[r]].note
      BY DEF StageInv, HandoverDocumented, TypeOK
    <3> QED
      BY <3>1, <3>2, WritesAreDocumented DEF TypeOK
  <2> HIDE DEF row
  <2>5. /\ job' = [job EXCEPT ![target[r]] = row]
        /\ pc' = [pc EXCEPT ![r] = "announce"]
        /\ UNCHANGED <<photos, dto, saw, target>>
    BY <1>4 DEF UpdateWrites, Advance, Goto, row
  <2> QED
    BY <2>1, <2>3, <2>4, <2>5, StageWrite
<1>5. CASE UpdateAnnounces(r)
  <2>1. Active(r) /\ UNCHANGED <<job, photos>>
    BY <1>5 DEF UpdateAnnounces, Active
  <2>2. Advance(r, "handover") \/ Return(r)
    BY <1>5 DEF UpdateAnnounces
  <2> QED
    BY <2>1, <2>2, StageAdvance, StageReturn
<1>6. CASE HandoverAnnounces(r)
  BY <1>6, StageReturn DEF HandoverAnnounces
<1> QED
  BY <1>1, <1>2, <1>3, <1>4, <1>5, <1>6 DEF UpdateStep

\* r's memory when only the rows a transaction will delete, or the invoice
\* number, are noted in it.
LEMMA StageNote ==
  ASSUME TypeOK, StageInv, NEW r \in Requests, Active(r), UNCHANGED <<job, photos, dto, target>>,
         NEW step, Goto(r, step),
         \A q \in Requests \ {r} : saw'[q] = saw[q],
         saw'[r].status = saw[r].status, saw'[r].before = saw[r].before,
         saw'[r].started = saw[r].started,
         step \notin {"technician", "photos", "write"},
         step \in {"find", "clear", "resubmit", "create"} => saw[r].status # "DELIVERED"
  PROVE  StageInv'
<1>1. MemoryHolds(r)
  BY DEF StageInv
<1>2. pc'[r] = step
  BY DEF Goto, TypeOK
<1>3. MemoryHolds(r)'
  BY <1>1, <1>2 DEF MemoryHolds
<1> QED
  BY <1>3, StageQuiet DEF Goto, TypeOK

\* The steps of submit(): what it parks is an open stage.
LEMMA StageSubmit ==
  ASSUME TypeOK, StageInv, NEW r \in Requests, SubmitStep(r)
  PROVE  StageInv'
<1>1. CASE SubmitFinds(r)
  <2>1. Active(r) /\ saw[r].status # "DELIVERED"
    BY <1>1 DEF SubmitFinds, Active, StageInv, MemoryHolds
  <2> QED
    BY <1>1, <2>1, StageAdvance DEF SubmitFinds, tables
<1>2. CASE SubmitClears(r)
  <2>1. Active(r) /\ saw[r].status # "DELIVERED"
    BY <1>2 DEF SubmitClears, Active, StageInv, MemoryHolds
  <2>2. /\ saw'[r].status = saw[r].status /\ saw'[r].before = saw[r].before
        /\ saw'[r].started = saw[r].started
        /\ \A q \in Requests \ {r} : saw'[q] = saw[q]
    BY <1>2 DEF SubmitClears, TypeOK, Snapshot
  <2>3. Goto(r, "resubmit") /\ UNCHANGED <<job, photos, dto, target>>
    BY <1>2 DEF SubmitClears, tables
  <2> QED
    BY <2>1, <2>2, <2>3, StageNote
<1>3. CASE SubmitReplaces(r) \/ SubmitCreates(r)
  <2> DEFINE row == Parked(job[target[r]], saw[r])
  <2>1. Active(r) /\ MemoryHolds(r) /\ saw[r].status # "DELIVERED"
    BY <1>3 DEF SubmitReplaces, SubmitCreates, Active, StageInv, MemoryHolds
  <2>2. SoundRow(job[target[r]]) /\ SoundCopy(saw[r], job[target[r]])
    BY <2>1 DEF MemoryHolds, SoundRow, SoundCopy, StageInv, WorkImpliesStarted,
                ResumesToOpenStage, TypeOK
  <2>3. /\ row \in JobRow /\ SoundRow(row)
        /\ job[target[r]].started => row.started
    BY <2>1, <2>2, RowTypes, WritesAreSound DEF TypeOK
  <2>4. row.status = "DELIVERED" \/ row.delivered =>
          photos[target[r]] = Sides /\ row.delivered /\ row.note
    BY WritesAreDocumented DEF StageInv, HandoverDocumented, TypeOK
  <2> HIDE DEF row
  <2>5. /\ job' = [job EXCEPT ![target[r]] = row]
        /\ pc' = [pc EXCEPT ![r] = "submitted"]
        /\ UNCHANGED <<photos, dto, saw, target>>
    BY <1>3 DEF SubmitReplaces, SubmitCreates, Advance, Goto, row
  <2> QED
    BY <2>1, <2>3, <2>4, <2>5, StageWrite
<1>4. CASE SubmitCollides(r) \/ SubmitAnnounces(r)
  BY <1>4, StageReturn DEF SubmitCollides, SubmitAnnounces, tables
<1> QED
  BY <1>1, <1>2, <1>3, <1>4 DEF SubmitStep

\* The steps of decide(): what it restores was sound when read.
LEMMA StageDecide ==
  ASSUME TypeOK, StageInv, NEW r \in Requests, DecideStep(r)
  PROVE  StageInv'
<1>1. CASE DecideClaims(r)
  <2>1. Active(r) /\ UNCHANGED <<job, photos, dto, saw, target>>
    BY <1>1 DEF DecideClaims, Active
  <2>2. pc'[r] \in {"release", "clearBill", "number"}
    BY <1>1 DEF DecideClaims, Goto, TypeOK
  <2>3. MemoryHolds(r)'
    BY <2>1, <2>2 DEF StageInv, MemoryHolds
  <2> QED
    BY <1>1, <2>1, <2>3, StageQuiet DEF DecideClaims, Goto, TypeOK
<1>2. CASE DecideConflicts(r) \/ BillCollides(r) \/ DecisionAnnounces(r)
  BY <1>2, StageReturn DEF DecideConflicts, BillCollides, DecisionAnnounces, tables
<1>3. CASE DeclineReleases(r) \/ ApproveRefreshes(r) \/ ApproveBills(r)
  <2> DEFINE row == Released(job[target[r]], saw[r])
  <2>1. Active(r) /\ MemoryHolds(r)
    BY <1>3 DEF DeclineReleases, ApproveRefreshes, ApproveBills, Active, StageInv
  <2>2. SoundRow(job[target[r]]) /\ SoundCopy(saw[r], job[target[r]])
    BY <2>1 DEF MemoryHolds, SoundRow, SoundCopy, StageInv, WorkImpliesStarted,
                ResumesToOpenStage, TypeOK
  <2>3. /\ row \in JobRow /\ SoundRow(row)
        /\ job[target[r]].started => row.started
    BY <2>1, <2>2, RowTypes, WritesAreSound, DefaultsType DEF TypeOK
  <2>4. row.status = "DELIVERED" \/ row.delivered =>
          photos[target[r]] = Sides /\ row.delivered /\ row.note
    <3>1. saw[r].before # "DELIVERED"
      BY <2>2 DEF SoundCopy
    <3>2. job[target[r]].status = "DELIVERED" \/ job[target[r]].delivered =>
            photos[target[r]] = Sides /\ job[target[r]].delivered /\ job[target[r]].note
      BY DEF StageInv, HandoverDocumented, TypeOK
    <3> QED
      BY <3>1, <3>2, WritesAreDocumented, DefaultsType DEF TypeOK
  <2> HIDE DEF row
  <2>5. /\ job' = [job EXCEPT ![target[r]] = row]
        /\ pc' = [pc EXCEPT ![r] = "decided"]
        /\ UNCHANGED <<photos, dto, saw, target>>
    BY <1>3 DEF DeclineReleases, ApproveRefreshes, ApproveBills, Advance, Goto, row
  <2> QED
    BY <2>1, <2>3, <2>4, <2>5, StageWrite
<1>4. CASE RefreshClears(r)
  <2>1. Active(r)
    BY <1>4 DEF RefreshClears, Active
  <2>2. /\ saw'[r].status = saw[r].status /\ saw'[r].before = saw[r].before
        /\ saw'[r].started = saw[r].started
        /\ \A q \in Requests \ {r} : saw'[q] = saw[q]
    BY <1>4 DEF RefreshClears, TypeOK, Snapshot
  <2>3. Goto(r, "refresh") /\ UNCHANGED <<job, photos, dto, target>>
    BY <1>4 DEF RefreshClears, tables
  <2> QED
    BY <2>1, <2>2, <2>3, StageNote
<1>5. CASE ApproveNumbers(r)
  <2>1. Active(r)
    BY <1>5 DEF ApproveNumbers, Active
  <2>2. /\ saw'[r].status = saw[r].status /\ saw'[r].before = saw[r].before
        /\ saw'[r].started = saw[r].started
        /\ \A q \in Requests \ {r} : saw'[q] = saw[q]
    BY <1>5 DEF ApproveNumbers, TypeOK, Snapshot
  <2>3. Goto(r, "bill") /\ UNCHANGED <<job, photos, dto, target>>
    BY <1>5 DEF ApproveNumbers, tables
  <2> QED
    BY <2>1, <2>2, <2>3, StageNote
<1> QED
  BY <1>1, <1>2, <1>3, <1>4, <1>5 DEF DecideStep

\* saveDeliveryPhoto() only adds photos.
LEMMA StagePhoto ==
  ASSUME TypeOK, StageInv, NEW j \in Jobs, NEW side \in Sides, SaveDeliveryPhoto(j, side)
  PROVE  StageInv'
<1>1. \A i \in Jobs : photos[i] = Sides => photos'[i] = Sides
  BY DEF SaveDeliveryPhoto, TypeOK
<1>2. ASSUME NEW r \in Requests, Active(r)'
      PROVE  MemoryHolds(r)'
  <2>1. MemoryHolds(r) /\ target[r] \in Jobs
    BY <1>2 DEF SaveDeliveryPhoto, StageInv, Active, TypeOK
  <2> QED
    BY <1>1, <2>1 DEF SaveDeliveryPhoto, MemoryHolds
<1>3. HandoverDocumented'
  BY <1>1 DEF SaveDeliveryPhoto, StageInv, HandoverDocumented
<1> QED
  BY <1>2, <1>3 DEF SaveDeliveryPhoto, StageInv, WorkImpliesStarted, ResumesToOpenStage

(***************************************************************************)
(* Whatever requests overlap and whichever handlers die: work implies a    *)
(* start, a delivered vehicle has its photos and its note, and a decision  *)
(* never restores REVIEW or DELIVERED.                                     *)
(***************************************************************************)
LEMMA StageInvariant == Spec => []StageInv
<1>1. TypeOK /\ StageInv /\ [Next]_vars => StageInv'
  <2> SUFFICES ASSUME TypeOK, StageInv, [Next]_vars PROVE StageInv'
    OBVIOUS
  <2>1. CASE UNCHANGED vars
    BY <2>1 DEF vars, StageInv, WorkImpliesStarted, HandoverDocumented, ResumesToOpenStage,
                MemoryHolds, Active
  <2>2. ASSUME NEW r \in Requests, Crash(r)
        PROVE  StageInv'
    BY <2>2, StageReturn DEF Crash, tables
  <2> QED
    BY <2>1, <2>2, StagePhoto, StageArrival, StageUpdate, StageSubmit, StageDecide
       DEF Next, Progress
<1> QED
  BY <1>1, StageInit, TypeCorrect, PTL DEF Spec

(***************************************************************************)
(* update(), submit(), decide(): a job whose status, or whose status to    *)
(* return to, says that work happened has startedAt set.                   *)
(***************************************************************************)
THEOREM StartedWork == Spec => []WorkImpliesStarted
BY StageInvariant, PTL DEF StageInv

(***************************************************************************)
(* update(): every delivered job has its walk-around photos and its note,  *)
(* whatever is written between the gate and the write.                     *)
(***************************************************************************)
THEOREM DocumentedHandover == Spec => []HandoverDocumented
BY StageInvariant, PTL DEF StageInv

(***************************************************************************)
(* submit(), decide(): a decision never restores REVIEW or DELIVERED.      *)
(***************************************************************************)
THEOREM OpenResume == Spec => []ResumesToOpenStage
BY StageInvariant, PTL DEF StageInv

--------------------------------------------------------------------------------
(***************************************************************************)
(* Decisions and bills: DecisionInv.                                       *)
(***************************************************************************)
LEMMA DecisionInit == Init => DecisionInv
<1> SUFFICES ASSUME Init PROVE DecisionInv
  OBVIOUS
<1>1. ASSUME NEW g \in StageNames
      PROVE  /\ StageEstimate[g].sub \notin Requests
             /\ StageEstimate[g].status = "PENDING" =>
                  StageEstimate[g].sub # NoSub /\ StageInvoice[g].lines = {}
             /\ StageInvoice[g].lines \subseteq {Seed}
  BY SubAssumption DEF StageNames, StageEstimate, StageInvoice, NoEstimate, Estimated, NoInvoice
<1>2. ASSUME NEW j \in Jobs
      PROVE  /\ estimate[j].sub \notin Requests
             /\ estimate[j].status = "PENDING" =>
                  estimate[j].sub # NoSub /\ invoice[j].lines = {}
             /\ invoice[j].lines \subseteq {Seed}
  <2> PICK at \in [Jobs -> Stages] :
         /\ estimate = [i \in Jobs |-> StageEstimate[at[i]]]
         /\ invoice  = [i \in Jobs |-> StageInvoice[at[i]]]
    BY DEF Init
  <2> QED
    BY <1>1, StagesAssumption
<1>3. \A r \in Requests : ruling[r] = NoRuling /\ pc[r] = "idle"
  BY DEF Init
<1>4. NoRuling.hit = NoSub /\ NoSub # Seed
  BY SubAssumption DEF NoRuling
<1>5. SubmissionsStored /\ RulingsInOrder
  BY <1>2, <1>3 DEF SubmissionsStored, RulingsInOrder, BillSteps
<1>6. RulingsSettle /\ DecidedOnce
  BY <1>3, <1>4 DEF RulingsSettle, DecidedOnce
<1>7. SeedSettles
  BY <1>2 DEF SeedSettles
<1>8. BillsOnlyApproved
  <2> SUFFICES ASSUME NEW j \in Jobs, NEW s \in invoice[j].lines
               PROVE  s = Seed /\ \A r \in Requests : ruling[r].hit # Seed
    BY DEF BillsOnlyApproved
  <2> QED
    BY <1>2, <1>3, <1>4
<1> QED
  BY <1>5, <1>6, <1>7, <1>8 DEF DecisionInv

\* A step of r's handler that writes neither estimates nor invoices, and rules
\* on nothing.
LEMMA DecisionQuiet ==
  ASSUME TypeOK, DecisionInv, UNCHANGED <<estimate, invoice, ruling>>, NEW r \in Requests,
         \A q \in Requests \ {r} : pc'[q] = pc[q] /\ saw'[q] = saw[q] /\ target'[q] = target[q]
                                     /\ op'[q] = op[q],
         pc[r] \in Stored => pc'[r] \in Stored,
         pc[r] # "idle" => target'[r] = target[r],
         pc'[r] # "idle",
         pc'[r] = "claim" => /\ pc[r] = "idle" /\ saw'[r].sub # NoSub
                            /\ op'[r] \in {"approve", "decline"},
         pc'[r] \in BillSteps => pc[r] \in BillSteps /\ saw'[r].lines = saw[r].lines
  PROVE  DecisionInv'
<1>1. \A q \in Requests : pc[q] \in Stored => pc'[q] \in Stored
  OBVIOUS
<1>2. \A q \in Requests : ruling[q] # NoRuling => target'[q] = target[q]
  BY DEF DecisionInv, RulingsInOrder
<1>3. NoRuling.choice = "none" /\ NoRuling.hit = NoSub /\ NoSub # Seed
  BY SubAssumption DEF NoRuling
<1>4. \A j \in Jobs : ApprovedFor(j)' = ApprovedFor(j)
  BY <1>2, <1>3 DEF ApprovedFor, DecisionInv, RulingsInOrder
<1>5. SubmissionsStored'
  BY <1>1 DEF DecisionInv, SubmissionsStored
<1>6. RulingsInOrder'
  BY DEF DecisionInv, RulingsInOrder
<1>7. RulingsSettle'
  BY <1>1, <1>2, <1>3 DEF DecisionInv, RulingsSettle
<1>8. SeedSettles'
  BY <1>4 DEF DecisionInv, SeedSettles
<1>9. DecidedOnce'
  BY <1>2, <1>3 DEF DecisionInv, DecidedOnce
<1>10. BillsOnlyApproved'
  BY <1>2, <1>3, <1>4 DEF DecisionInv, BillsOnlyApproved
<1> QED
  BY <1>5, <1>6, <1>7, <1>8, <1>9, <1>10 DEF DecisionInv

\* A handler ends: nothing is decided or billed.
LEMMA DecisionReturn ==
  ASSUME TypeOK, DecisionInv, NEW r \in Requests, Return(r), UNCHANGED <<estimate, invoice>>
  PROVE  DecisionInv'
<1>1. /\ pc'[r] = "done"
      /\ \A q \in Requests \ {r} : pc'[q] = pc[q] /\ saw'[q] = saw[q]
      /\ UNCHANGED <<op, target, ruling>>
  BY DEF Return, Goto, TypeOK
<1> QED
  BY <1>1, DecisionQuiet DEF Stored, BillSteps

\* A handler goes on outside the billing steps.
LEMMA DecisionAdvance ==
  ASSUME TypeOK, DecisionInv, NEW r \in Requests, NEW step, Advance(r, step),
         UNCHANGED <<estimate, invoice>>, pc[r] \notin Stored,
         step \notin {"idle", "claim"} \cup BillSteps
  PROVE  DecisionInv'
<1>1. /\ pc'[r] = step
      /\ \A q \in Requests \ {r} : pc'[q] = pc[q]
      /\ UNCHANGED <<op, target, saw, ruling>>
  BY DEF Advance, Goto, TypeOK
<1> QED
  BY <1>1, DecisionQuiet

\* r notes in its memory what it is about to delete, or an invoice number.
LEMMA DecisionNote ==
  ASSUME TypeOK, DecisionInv, NEW r \in Requests,
         UNCHANGED <<estimate, invoice, op, target, ruling>>,
         \A q \in Requests \ {r} : saw'[q] = saw[q],
         saw'[r].lines = saw[r].lines,
         pc[r] \notin Stored, NEW step, Goto(r, step),
         step \notin {"idle", "claim"},
         step \in BillSteps => pc[r] \in BillSteps
  PROVE  DecisionInv'
<1>1. pc'[r] = step /\ \A q \in Requests \ {r} : pc'[q] = pc[q]
  BY DEF Goto, TypeOK
<1> QED
  BY <1>1, DecisionQuiet

\* The commit of a submission.
LEMMA DecisionSubmits ==
  ASSUME TypeOK, DecisionInv, NEW r \in Requests, pc[r] \in {"resubmit", "create"},
         Advance(r, "submitted"), UNCHANGED invoice,
         estimate'[target[r]].sub = r,
         \A j \in Jobs \ {target[r]} : estimate'[j] = estimate[j]
  PROVE  DecisionInv'
<1>1. /\ pc'[r] = "submitted"
      /\ \A q \in Requests \ {r} : pc'[q] = pc[q]
      /\ UNCHANGED <<op, target, saw, ruling>>
      /\ target[r] \in Jobs
  BY DEF Advance, Goto, TypeOK
<1>2. r # NoSub /\ r # Seed
  BY SubAssumption
<1>3. pc[r] \notin Stored /\ pc'[r] \in Stored
  BY <1>1 DEF Stored
<1>4. \A q \in Requests : pc[q] \in Stored => pc'[q] \in Stored
  BY <1>1, <1>3
<1>5. SubmissionsStored'
  BY <1>1, <1>2, <1>3, <1>4 DEF DecisionInv, SubmissionsStored
<1>6. RulingsInOrder'
  BY <1>1 DEF DecisionInv, RulingsInOrder, BillSteps
<1>7. RulingsSettle'
  BY <1>1, <1>3, <1>4 DEF DecisionInv, RulingsSettle, TypeOK
<1>8. \A j \in Jobs : ApprovedFor(j)' = ApprovedFor(j)
  BY <1>1 DEF ApprovedFor
<1>9. SeedSettles'
  BY <1>1, <1>2, <1>8 DEF DecisionInv, SeedSettles
<1>10. DecidedOnce' /\ BillsOnlyApproved'
  BY <1>1, <1>8 DEF DecisionInv, DecidedOnce, BillsOnlyApproved
<1> QED
  BY <1>5, <1>6, <1>7, <1>9, <1>10 DEF DecisionInv

\* The claim: the submission it hits was pending, so nobody has ruled on it.
LEMMA DecisionClaims ==
  ASSUME TypeOK, DecisionInv, NEW r \in Requests, DecideClaims(r)
  PROVE  DecisionInv'
<1> DEFINE j == target[r]
           s == estimate[j].sub
<1>1. /\ j \in Jobs /\ estimate[j].status = "PENDING" /\ s # NoSub
      /\ s \in Requests => pc[s] \in Stored
  BY DEF TypeOK, DecideClaims, Claimable, DecisionInv, SubmissionsStored
<1>2. /\ UNCHANGED <<invoice, op, target, saw>>
      /\ \A q \in Requests \ {r} : pc'[q] = pc[q] /\ ruling'[q] = ruling[q]
      /\ pc'[r] \in {"release", "clearBill", "number"}
      /\ pc'[r] # "release" => op[r] # "decline"
  BY DEF DecideClaims, Goto, TypeOK
<1>3. /\ ruling'[r].choice = op[r] /\ ruling'[r].hit = s
      /\ ruling'[r].lines = saw[r].lines
  BY DEF DecideClaims, TypeOK
<1>4. /\ estimate'[j].sub = s /\ estimate'[j].status # "PENDING"
      /\ \A i \in Jobs \ {j} : estimate'[i] = estimate[i]
  BY <1>1 DEF DecideClaims, TypeOK, EstimateRow
<1>5. ruling[r] = NoRuling /\ op[r] \in {"approve", "decline"} /\ pc[r] \notin Stored
  BY DEF DecideClaims, DecisionInv, RulingsInOrder, Stored
<1>6. \A q \in Requests : pc[q] \in Stored => pc'[q] \in Stored
  BY <1>2, <1>5
<1>7. NoRuling.choice = "none" /\ NoRuling.hit = NoSub
  BY DEF NoRuling
<1>8. \A i \in Jobs : \A q \in ApprovedFor(i) :
        q # r /\ q \in ApprovedFor(i)' /\ ruling'[q] = ruling[q]
  BY <1>2, <1>5, <1>7 DEF ApprovedFor
<1> HIDE DEF s
<1>9. SubmissionsStored'
  BY <1>1, <1>4, <1>6 DEF DecisionInv, SubmissionsStored, s
<1>10. RulingsInOrder'
  BY <1>2, <1>3, <1>5 DEF DecisionInv, RulingsInOrder, BillSteps
<1>11. RulingsSettle'
  <2> SUFFICES ASSUME NEW q \in Requests, ruling'[q].hit # NoSub
               PROVE  /\ ruling'[q].hit \in Requests => pc'[ruling'[q].hit] \in Stored
                      /\ ~(estimate'[target[q]].sub = ruling'[q].hit
                           /\ estimate'[target[q]].status = "PENDING")
    BY <1>2 DEF RulingsSettle
  <2>1. CASE q = r
    BY <2>1, <1>1, <1>3, <1>4, <1>6
  <2>2. CASE q # r
    <3>1. ruling'[q] = ruling[q] /\ target[q] \in Jobs
      BY <2>2, <1>2 DEF TypeOK
    <3> QED
      BY <3>1, <1>4, <1>6 DEF DecisionInv, RulingsSettle
  <2> QED
    BY <2>1, <2>2
<1>12. SeedSettles'
  BY <1>2, <1>4, <1>8 DEF DecisionInv, SeedSettles
<1>13. \A q \in Requests \ {r} : target[q] = j => ruling[q].hit # s
  BY <1>1 DEF DecisionInv, RulingsSettle, s
<1>14. DecidedOnce'
  BY <1>2, <1>3, <1>13 DEF DecisionInv, DecidedOnce
<1>15. BillsOnlyApproved'
  <2> SUFFICES ASSUME NEW i \in Jobs, NEW l \in invoice[i].lines,
                      \A q \in ApprovedFor(i) : l \notin ruling[q].lines
               PROVE  l = Seed /\ \A q \in Requests : target[q] = i => ruling'[q].hit # Seed
    BY <1>2, <1>8 DEF BillsOnlyApproved
  <2>1. l = Seed /\ \A q \in Requests : target[q] = i => ruling[q].hit # Seed
    BY DEF DecisionInv, BillsOnlyApproved
  <2>2. i = j => s # Seed
    BY <2>1, <1>1 DEF DecisionInv, SeedSettles, s
  <2> QED
    BY <2>1, <2>2, <1>2, <1>3
<1> QED
  BY <1>9, <1>10, <1>11, <1>12, <1>14, <1>15 DEF DecisionInv

\* The commit that bills: only lines of r's ruling are added.
LEMMA DecisionBills ==
  ASSUME TypeOK, DecisionInv, NEW r \in Requests, pc[r] \in BillSteps,
         Advance(r, "decided"), UNCHANGED estimate,
         invoice'[target[r]].lines \subseteq invoice[target[r]].lines \cup saw[r].lines,
         \A j \in Jobs \ {target[r]} : invoice'[j] = invoice[j]
  PROVE  DecisionInv'
<1>1. /\ pc'[r] = "decided"
      /\ \A q \in Requests \ {r} : pc'[q] = pc[q]
      /\ UNCHANGED <<op, target, saw, ruling>>
      /\ target[r] \in Jobs
  BY DEF Advance, Goto, TypeOK
<1>2. pc[r] \notin Stored
  BY DEF Stored, BillSteps
<1>3. r \in ApprovedFor(target[r]) /\ ruling[r].lines = saw[r].lines
  BY DEF DecisionInv, RulingsInOrder, ApprovedFor
<1>4. \A j \in Jobs : ApprovedFor(j)' = ApprovedFor(j)
  BY <1>1 DEF ApprovedFor
<1>5. \A j \in Jobs : \A s \in invoice'[j].lines :
        s \in invoice[j].lines \/ \E q \in ApprovedFor(j) : s \in ruling[q].lines
  BY <1>1, <1>3
<1>6. SubmissionsStored' /\ RulingsSettle'
  BY <1>1, <1>2 DEF DecisionInv, SubmissionsStored, RulingsSettle
<1>7. RulingsInOrder'
  BY <1>1 DEF DecisionInv, RulingsInOrder, BillSteps
<1>8. SeedSettles'
  BY <1>1, <1>4, <1>5 DEF DecisionInv, SeedSettles
<1>9. DecidedOnce'
  BY <1>1 DEF DecisionInv, DecidedOnce
<1>10. BillsOnlyApproved'
  BY <1>1, <1>4, <1>5 DEF DecisionInv, BillsOnlyApproved
<1> QED
  BY <1>6, <1>7, <1>8, <1>9, <1>10 DEF DecisionInv

\* A request arrives; decide() only with a pending estimate.
LEMMA DecisionArrival ==
  ASSUME TypeOK, DecisionInv, NEW r \in Requests, Arrival(r)
  PROVE  DecisionInv'
<1>1. /\ pc[r] = "idle" /\ UNCHANGED <<estimate, invoice, ruling>>
      /\ \A q \in Requests \ {r} : pc'[q] = pc[q] /\ saw'[q] = saw[q] /\ target'[q] = target[q]
                                   /\ op'[q] = op[q]
  BY DEF Arrival, UpdateReads, SubmitReads, DecideReads, MayArrive, Arrive, Goto, TypeOK, tables
<1>2. CASE UpdateReads(r) \/ SubmitReads(r)
  <2>1. pc'[r] \in {"technician", "photos", "write", "find"}
    BY <1>2 DEF UpdateReads, SubmitReads, Goto, AfterLookup, TypeOK
  <2> QED
    BY <1>1, <2>1, DecisionQuiet DEF Stored, BillSteps
<1>3. ASSUME NEW c \in {"approve", "decline"}, DecideReads(r, c)
      PROVE  DecisionInv'
  <2> PICK j \in Jobs : /\ estimate[j].status = "PENDING"
                        /\ Arrive(r, c, j, NoDto)
                        /\ saw' = [saw EXCEPT ![r] = CopyOfEstimate(j)]
    BY <1>3 DEF DecideReads
  <2>1. pc'[r] = "claim" /\ op'[r] = c
    BY <1>3 DEF DecideReads, Goto, Arrive, TypeOK
  <2>2. saw'[r].sub = estimate[j].sub
    BY DEF CopyOfEstimate, TypeOK
  <2>3. saw'[r].sub # NoSub
    BY <2>2 DEF DecisionInv, SubmissionsStored
  <2> QED
    BY <1>1, <2>1, <2>3, DecisionQuiet DEF Stored, BillSteps
<1> QED
  BY <1>2, <1>3 DEF Arrival

\* The steps of update() decide and bill nothing.
LEMMA DecisionUpdate ==
  ASSUME TypeOK, DecisionInv, NEW r \in Requests, UpdateStep(r)
  PROVE  DecisionInv'
<1>1. UNCHANGED <<estimate, invoice>> /\ pc[r] \notin Stored
  BY DEF UpdateStep, TechnicianFound, TechnicianMissing, DeliveryAllowed, DeliveryRefused,
         UpdateWrites, UpdateAnnounces, HandoverAnnounces, tables, Stored
<1>2. \/ Return(r)
      \/ \E step \in {"photos", "write", "announce", "handover"} : Advance(r, step)
  BY DEF UpdateStep, TechnicianFound, TechnicianMissing, DeliveryAllowed, DeliveryRefused,
         UpdateWrites, UpdateAnnounces, HandoverAnnounces, AfterLookup
<1> QED
  BY <1>1, <1>2, DecisionReturn, DecisionAdvance DEF BillSteps

\* The steps of submit().
LEMMA DecisionSubmit ==
  ASSUME TypeOK, DecisionInv, NEW r \in Requests, SubmitStep(r)
  PROVE  DecisionInv'
<1>1. CASE SubmitFinds(r)
  <2>1. \E step \in {"create", "clear"} : Advance(r, step)
    BY <1>1 DEF SubmitFinds
  <2> QED
    BY <1>1, <2>1, DecisionAdvance DEF SubmitFinds, BillSteps, Stored, tables
<1>2. CASE SubmitClears(r)
  <2>1. saw'[r].lines = saw[r].lines /\ \A q \in Requests \ {r} : saw'[q] = saw[q]
    BY <1>2 DEF SubmitClears, TypeOK, Snapshot
  <2>2. /\ Goto(r, "resubmit") /\ pc[r] \notin Stored
        /\ UNCHANGED <<estimate, invoice, op, target, ruling>>
    BY <1>2 DEF SubmitClears, Stored, tables
  <2> QED
    BY <2>1, <2>2, DecisionNote DEF BillSteps
<1>3. CASE SubmitReplaces(r) \/ SubmitCreates(r)
  <2>1. /\ estimate'[target[r]].sub = r
        /\ \A j \in Jobs \ {target[r]} : estimate'[j] = estimate[j]
    BY <1>3 DEF SubmitReplaces, SubmitCreates, TypeOK
  <2> QED
    BY <1>3, <2>1, DecisionSubmits DEF SubmitReplaces, SubmitCreates
<1>4. CASE SubmitCollides(r) \/ SubmitAnnounces(r)
  BY <1>4, DecisionReturn DEF SubmitCollides, SubmitAnnounces, tables
<1> QED
  BY <1>1, <1>2, <1>3, <1>4 DEF SubmitStep

\* The steps of decide().
LEMMA DecisionDecide ==
  ASSUME TypeOK, DecisionInv, NEW r \in Requests, DecideStep(r)
  PROVE  DecisionInv'
<1>1. CASE DecideConflicts(r) \/ BillCollides(r) \/ DecisionAnnounces(r)
  BY <1>1, DecisionReturn DEF DecideConflicts, BillCollides, DecisionAnnounces, tables
<1>2. CASE DeclineReleases(r)
  BY <1>2, DecisionAdvance DEF DeclineReleases, Stored, BillSteps
<1>3. CASE RefreshClears(r)
  <2>1. saw'[r].lines = saw[r].lines /\ \A q \in Requests \ {r} : saw'[q] = saw[q]
    BY <1>3 DEF RefreshClears, TypeOK, Snapshot
  <2>2. /\ Goto(r, "refresh") /\ pc[r] \in BillSteps /\ pc[r] \notin Stored
        /\ UNCHANGED <<estimate, invoice, op, target, ruling>>
    BY <1>3 DEF RefreshClears, Stored, BillSteps, tables
  <2> QED
    BY <2>1, <2>2, DecisionNote
<1>4. CASE ApproveNumbers(r)
  <2>1. saw'[r].lines = saw[r].lines /\ \A q \in Requests \ {r} : saw'[q] = saw[q]
    BY <1>4 DEF ApproveNumbers, TypeOK, Snapshot
  <2>2. /\ Goto(r, "bill") /\ pc[r] \in BillSteps /\ pc[r] \notin Stored
        /\ UNCHANGED <<estimate, invoice, op, target, ruling>>
    BY <1>4 DEF ApproveNumbers, Stored, BillSteps, tables
  <2> QED
    BY <2>1, <2>2, DecisionNote
<1>5. CASE ApproveRefreshes(r) \/ ApproveBills(r)
  <2>1. /\ pc[r] \in BillSteps /\ Advance(r, "decided") /\ UNCHANGED estimate
    BY <1>5 DEF ApproveRefreshes, ApproveBills, BillSteps
  <2>2. /\ invoice'[target[r]].lines \subseteq invoice[target[r]].lines \cup saw[r].lines
        /\ \A j \in Jobs \ {target[r]} : invoice'[j] = invoice[j]
    BY <1>5 DEF ApproveRefreshes, ApproveBills, TypeOK, InvoiceRow
  <2> QED
    BY <2>1, <2>2, DecisionBills
<1> QED
  BY <1>1, <1>2, <1>3, <1>4, <1>5, DecisionClaims DEF DecideStep

\* Whoever races: every submission is ruled on once, and bills hold what was
\* approved.
LEMMA DecisionInvariant == Spec => []DecisionInv
<1>1. TypeOK /\ DecisionInv /\ [Next]_vars => DecisionInv'
  <2> SUFFICES ASSUME TypeOK, DecisionInv, [Next]_vars PROVE DecisionInv'
    OBVIOUS
  <2>1. CASE UNCHANGED vars \/ \E j \in Jobs, side \in Sides : SaveDeliveryPhoto(j, side)
    BY <2>1 DEF vars, SaveDeliveryPhoto, DecisionInv, SubmissionsStored, RulingsInOrder,
                RulingsSettle, SeedSettles, DecidedOnce, BillsOnlyApproved, ApprovedFor
  <2>2. ASSUME NEW r \in Requests, Crash(r)
        PROVE  DecisionInv'
    BY <2>2, DecisionReturn DEF Crash, tables
  <2> QED
    BY <2>1, <2>2, DecisionArrival, DecisionUpdate, DecisionSubmit, DecisionDecide
       DEF Next, Progress
<1> QED
  BY <1>1, DecisionInit, TypeCorrect, PTL DEF Spec

(***************************************************************************)
(* decide(): of any number of approvers at most one rules on a submission. *)
(***************************************************************************)
THEOREM OneDecision == Spec => []DecidedOnce
BY DecisionInvariant, PTL DEF DecisionInv

(***************************************************************************)
(* decide(), submit(): whichever invoice transactions race, the lines of a *)
(* job's invoice were approved for that job.                               *)
(***************************************************************************)
THEOREM ApprovedBills == Spec => []BillsOnlyApproved
BY DecisionInvariant, PTL DEF DecisionInv

--------------------------------------------------------------------------------
(***************************************************************************)
(* What a ruling stands for: RuledAsRead.                                  *)
(***************************************************************************)

\* A step of r's handler, or its arrival, leaves the others where they are, and
\* a request that has ruled keeps its ruling and its job.
LEMMA OthersKept ==
  ASSUME TypeOK, DecisionInv, NEW r \in Requests, Arrival(r) \/ Progress(r) \/ Crash(r)
  PROVE  /\ \A q \in Requests \ {r} :
              /\ pc'[q] = pc[q] /\ op'[q] = op[q] /\ target'[q] = target[q] /\ dto'[q] = dto[q]
              /\ saw'[q] = saw[q] /\ ruling'[q] = ruling[q]
         /\ pc[r] # "idle" => target'[r] = target[r] /\ op'[r] = op[r]
         /\ pc[r] # "claim" => ruling'[r] = ruling[r]
         /\ pc[r] \in Stored => pc'[r] \in Stored
<1> USE DEF TypeOK, Goto, Return, Advance, Arrive, Stored
<1>1. CASE Arrival(r)
  BY <1>1 DEF Arrival, UpdateReads, SubmitReads, DecideReads, MayArrive
<1>2. CASE Crash(r)
  BY <1>2 DEF Crash, Active
<1>3. CASE UpdateStep(r)
  BY <1>3 DEF UpdateStep, TechnicianFound, TechnicianMissing, DeliveryAllowed,
              DeliveryRefused, UpdateWrites, UpdateAnnounces, HandoverAnnounces
<1>4. CASE SubmitStep(r)
  BY <1>4 DEF SubmitStep, SubmitFinds, SubmitClears, SubmitReplaces, SubmitCreates,
              SubmitCollides, SubmitAnnounces
<1>5. CASE DecideStep(r)
  <2>1. CASE ApproveNumbers(r)
    BY <2>1 DEF ApproveNumbers
  <2>2. CASE ~ApproveNumbers(r)
    BY <1>5, <2>2 DEF DecideStep, DecideClaims, DecideConflicts, DeclineReleases, RefreshClears,
                ApproveRefreshes, ApproveBills, BillCollides, DecisionAnnounces
  <2> QED
    BY <2>1, <2>2
<1> QED
  BY <1>1, <1>2, <1>3, <1>4, <1>5 DEF Progress

\* Whoever has ruled is neither before its arrival nor before its claim.
LEMMA RuledIsLate ==
  ASSUME DecisionInv, NEW q \in Requests, ruling[q].hit # NoSub \/ ruling[q].choice # "none"
  PROVE  pc[q] \notin {"idle", "claim"}
<1>1. NoRuling.hit = NoSub /\ NoRuling.choice = "none"
  BY DEF NoRuling
<1>2. pc[q] \in {"idle", "claim"} => ruling[q] = NoRuling
  BY DEF DecisionInv, RulingsInOrder
<1> QED
  BY <1>1, <1>2

LEMMA PinnedQuiet ==
  ASSUME TypeOK, DecisionInv, CopiesPinned, RuledAsRead, NEW r \in Requests,
         Arrival(r) \/ Progress(r) \/ Crash(r), UNCHANGED <<estimate, ruling>>,
         pc'[r] = "claim" => /\ saw'[r].sub = estimate[target'[r]].sub
                            /\ saw'[r].lines = estimate[target'[r]].lines
                            /\ target'[r] \in Jobs
  PROVE  CopiesPinned' /\ RuledAsRead'
<1>1. \A q \in Requests : pc[q] \in Stored => pc'[q] \in Stored
  BY OthersKept
<1>2. CopiesPinned'
  <2> SUFFICES ASSUME NEW q \in Requests, pc'[q] = "claim"
               PROVE  /\ saw'[q].sub \in Requests => pc'[saw'[q].sub] \in Stored
                      /\ estimate[target'[q]].sub = saw'[q].sub =>
                           estimate[target'[q]].lines = saw'[q].lines
    BY DEF CopiesPinned
  <2>1. CASE q = r
    BY <2>1, <1>1 DEF DecisionInv, SubmissionsStored
  <2>2. CASE q # r
    BY <2>2, <1>1, OthersKept DEF CopiesPinned
  <2> QED
    BY <2>1, <2>2
<1>3. \A q \in Requests : ruling[q].hit # NoSub => target'[q] = target[q]
  <2>1. ASSUME NEW q \in Requests, ruling[q].hit # NoSub
        PROVE  target'[q] = target[q]
    <3>1. pc[q] # "idle"
      BY <2>1, RuledIsLate
    <3> QED
      BY <3>1, OthersKept
  <2> QED
    BY <2>1
<1>4. RuledAsRead'
  BY <1>3 DEF RuledAsRead
<1> QED
  BY <1>2, <1>4

\* A submission is stored: nobody has read it yet, nobody has ruled on it.
LEMMA PinnedSubmits ==
  ASSUME TypeOK, DecisionInv, CopiesPinned, RuledAsRead, NEW r \in Requests,
         SubmitReplaces(r) \/ SubmitCreates(r)
  PROVE  CopiesPinned' /\ RuledAsRead'
<1>1. /\ pc[r] \notin Stored /\ pc'[r] \in Stored /\ pc'[r] # "claim"
      /\ \A q \in Requests \ {r} : pc'[q] = pc[q]
      /\ UNCHANGED <<op, target, saw, ruling>>
  BY DEF SubmitReplaces, SubmitCreates, Advance, Goto, Stored, TypeOK
<1>2. /\ target[r] \in Jobs /\ estimate'[target[r]].sub = r
      /\ \A j \in Jobs \ {target[r]} : estimate'[j] = estimate[j]
  BY DEF SubmitReplaces, SubmitCreates, TypeOK
<1>3. \A q \in Requests : pc[q] = "claim" => saw[q].sub # r
  BY <1>1 DEF CopiesPinned
<1>4. \A q \in Requests : ruling[q].hit # r
  BY <1>1, SubAssumption DEF DecisionInv, RulingsSettle
<1>5. CopiesPinned'
  BY <1>1, <1>2, <1>3 DEF CopiesPinned, TypeOK
<1>6. RuledAsRead'
  BY <1>1, <1>2, <1>4 DEF RuledAsRead, TypeOK
<1> QED
  BY <1>5, <1>6

\* The claim: an estimate with a stamp of its own is the one in the copy.
LEMMA PinnedClaims ==
  ASSUME TypeOK, DecisionInv, CopiesPinned, RuledAsRead, NEW r \in Requests, DecideClaims(r)
  PROVE  CopiesPinned' /\ RuledAsRead'
<1> DEFINE est == estimate[target[r]]
<1>1. /\ target[r] \in Jobs /\ est \in EstimateRow /\ saw[r] \in Snapshot
      /\ StampOf[est.sub] = StampOf[saw[r].sub] /\ pc[r] = "claim"
  BY DEF DecideClaims, Claimable, TypeOK
<1>2. saw[r].sub \in Submissions
  BY <1>1 DEF DecisionInv, RulingsInOrder, Snapshot
<1>3. est.sub # NoSub /\ StampAlone(est.sub) => est.lines = saw[r].lines
  BY <1>1, <1>2 DEF CopiesPinned, StampAlone
<1>4. \A j \in Jobs : estimate'[j].sub = estimate[j].sub /\ estimate'[j].lines = estimate[j].lines
  BY <1>1 DEF DecideClaims, TypeOK, EstimateRow
<1>5. /\ UNCHANGED <<op, target, saw>> /\ pc'[r] # "claim"
      /\ \A q \in Requests \ {r} : pc'[q] = pc[q] /\ ruling'[q] = ruling[q]
      /\ ruling'[r].hit = est.sub /\ ruling'[r].lines = saw[r].lines
  BY DEF DecideClaims, Goto, TypeOK
<1>6. \A q \in Requests : pc[q] \in Stored => pc'[q] \in Stored
  BY <1>1, <1>5 DEF Stored
<1>7. CopiesPinned'
  BY <1>4, <1>5, <1>6 DEF CopiesPinned, TypeOK
<1>8. RuledAsRead'
  <2> SUFFICES ASSUME NEW q \in Requests, ruling'[q].hit = estimate'[target[q]].sub,
                      estimate'[target[q]].sub # NoSub, StampAlone(estimate'[target[q]].sub)
               PROVE  estimate'[target[q]].lines = ruling'[q].lines
    BY <1>5 DEF RuledAsRead, StampAlone
  <2>1. target[q] \in Jobs
    BY DEF TypeOK
  <2>2. CASE q = r
    BY <2>1, <2>2, <1>3, <1>4, <1>5
  <2>3. CASE q # r
    BY <2>1, <2>3, <1>4, <1>5 DEF RuledAsRead
  <2> QED
    BY <2>2, <2>3
<1> QED
  BY <1>7, <1>8

LEMMA PinnedStep ==
  ASSUME TypeOK, DecisionInv, CopiesPinned, RuledAsRead, [Next]_vars
  PROVE  CopiesPinned' /\ RuledAsRead'
<1>1. CASE UNCHANGED vars \/ \E j \in Jobs, side \in Sides : SaveDeliveryPhoto(j, side)
  BY <1>1 DEF vars, SaveDeliveryPhoto, CopiesPinned, RuledAsRead, StampAlone
<1>2. ASSUME NEW r \in Requests, Arrival(r)
      PROVE  CopiesPinned' /\ RuledAsRead'
  <2>1. UNCHANGED <<estimate, ruling>>
    BY <1>2 DEF Arrival, UpdateReads, SubmitReads, DecideReads, tables
  <2>2. CASE UpdateReads(r) \/ SubmitReads(r)
    <3>1. pc'[r] # "claim"
      BY <2>2 DEF UpdateReads, SubmitReads, Goto, AfterLookup, TypeOK
    <3> QED
      BY <1>2, <2>1, <3>1, PinnedQuiet
  <2>3. ASSUME NEW c \in {"approve", "decline"}, DecideReads(r, c)
        PROVE  CopiesPinned' /\ RuledAsRead'
    <3> PICK j \in Jobs : Arrive(r, c, j, NoDto) /\ saw' = [saw EXCEPT ![r] = CopyOfEstimate(j)]
      BY <2>3 DEF DecideReads
    <3>1. /\ target'[r] = j /\ saw'[r].sub = estimate[j].sub
          /\ saw'[r].lines = estimate[j].lines
      BY DEF Arrive, CopyOfEstimate, TypeOK
    <3> QED
      BY <1>2, <2>1, <3>1, PinnedQuiet
  <2> QED
    BY <1>2, <2>2, <2>3 DEF Arrival
<1>3. ASSUME NEW r \in Requests, Progress(r) \/ Crash(r),
             ~(SubmitReplaces(r) \/ SubmitCreates(r) \/ DecideClaims(r))
      PROVE  UNCHANGED <<estimate, ruling>> /\ pc'[r] # "claim"
  <2> USE DEF Goto, Return, Advance, tables, TypeOK
  <2>1. CASE UpdateStep(r)
    BY <2>1 DEF UpdateStep, TechnicianFound, TechnicianMissing, DeliveryAllowed, AfterLookup,
                DeliveryRefused, UpdateWrites, UpdateAnnounces, HandoverAnnounces
  <2>2. CASE SubmitStep(r) \/ Crash(r)
    BY <2>2, <1>3 DEF SubmitStep, SubmitFinds, SubmitClears, SubmitCollides, SubmitAnnounces, Crash
  <2>3. CASE DecideStep(r)
    <3>1. CASE ApproveNumbers(r)
      BY <3>1 DEF ApproveNumbers
    <3>2. CASE ~ApproveNumbers(r)
      BY <2>3, <3>2, <1>3 DEF DecideStep, DecideConflicts, DeclineReleases, RefreshClears,
                  ApproveRefreshes, ApproveBills, BillCollides, DecisionAnnounces
    <3> QED
      BY <3>1, <3>2
  <2> QED
    BY <1>3, <2>1, <2>2, <2>3 DEF Progress
<1> QED
  BY <1>1, <1>2, <1>3, PinnedQuiet, PinnedSubmits, PinnedClaims
     DEF Next, Progress

(***************************************************************************)
(* decide(): as long as no resubmission replaces the estimate it ruled on, *)
(* the stored lines are those its handler read, whatever was resubmitted   *)
(* before the claim, if the stored submission shares its createdAt with no *)
(* other.  Nothing is assumed of the other stamps.                         *)
(***************************************************************************)
THEOREM RulingsAreAsRead == Spec => []RuledAsRead
<1>1. Init => CopiesPinned /\ RuledAsRead
  BY DEF Init, CopiesPinned, RuledAsRead, NoRuling
<1> QED
  BY <1>1, PinnedStep, TypeCorrect, DecisionInvariant, PTL DEF Spec

--------------------------------------------------------------------------------
(***************************************************************************)
(* What the timeline tells: AnnouncedIsStored.                             *)
(***************************************************************************)

\* A start, a delivery, an estimate, an invoice: once on file, it stays.
LEMMA FactsKept ==
  ASSUME TypeOK, NEW r \in Requests, Arrival(r) \/ Progress(r) \/ Crash(r), NEW j \in Jobs
  PROVE  /\ job[j].started => job'[j].started
         /\ job[j].delivered => job'[j].delivered
         /\ estimate[j].status # "NONE" => estimate'[j].status # "NONE"
         /\ TellingInv /\ invoice[j].number # 0 => invoice'[j].number # 0
<1> USE DEF TypeOK, Goto, Return, Advance, Arrive, tables
<1>1. CASE Arrival(r) \/ Crash(r)
  BY <1>1 DEF Arrival, UpdateReads, SubmitReads, DecideReads, Crash
<1>2. CASE UpdateStep(r)
  <2>1. CASE UpdateWrites(r)
    BY <2>1 DEF UpdateWrites, Patched, JobRow
  <2>2. CASE ~UpdateWrites(r)
    BY <1>2, <2>2 DEF UpdateStep, TechnicianFound, TechnicianMissing, DeliveryAllowed,
                DeliveryRefused, UpdateAnnounces, HandoverAnnounces
  <2> QED
    BY <2>1, <2>2
<1>3. CASE SubmitStep(r)
  <2>1. CASE SubmitReplaces(r) \/ SubmitCreates(r)
    <3>1. PICK l : estimate' = [estimate EXCEPT ![target[r]] =
                                  [status |-> "PENDING", sub |-> r, lines |-> l]]
      BY <2>1 DEF SubmitReplaces, SubmitCreates
    <3>2. /\ job' = [job EXCEPT ![target[r]] = Parked(job[target[r]], saw[r])]
          /\ UNCHANGED invoice
      BY <2>1 DEF SubmitReplaces, SubmitCreates
    <3>3. \A row \in JobRow : /\ Parked(row, saw[r]).started = row.started
                              /\ Parked(row, saw[r]).delivered = row.delivered
      BY DEF Parked, JobRow
    <3> QED
      BY <3>1, <3>2, <3>3
  <2>2. CASE ~(SubmitReplaces(r) \/ SubmitCreates(r))
    BY <1>3, <2>2 DEF SubmitStep, SubmitFinds, SubmitClears, SubmitCollides, SubmitAnnounces
  <2> QED
    BY <2>1, <2>2
<1>4. CASE DecideStep(r)
  <2>1. CASE DeclineReleases(r) \/ ApproveRefreshes(r)
    <3>1. PICK l : invoice' = invoice \/ invoice' = [invoice EXCEPT ![target[r]] = [@ EXCEPT !.lines = l]]
      BY <2>1 DEF DeclineReleases, ApproveRefreshes
    <3>2. \A e \in InvoiceRow : [e EXCEPT !.lines = l].number = e.number
      BY DEF InvoiceRow
    <3>3. /\ job' = [job EXCEPT ![target[r]] = Released(job[target[r]], saw[r])]
          /\ UNCHANGED estimate
      BY <2>1 DEF DeclineReleases, ApproveRefreshes
    <3>4. \A row \in JobRow : /\ Released(row, saw[r]).started = row.started
                              /\ Released(row, saw[r]).delivered = row.delivered
      BY DEF Released, JobRow
    <3> QED
      BY <3>1, <3>2, <3>3, <3>4
  <2>2. CASE ApproveBills(r)
    <3>1. TellingInv => saw[r].number # 0
      BY <2>2 DEF ApproveBills, TellingInv, AboutToTell
    <3> QED
      BY <2>2, <3>1 DEF ApproveBills, Released, JobRow
  <2>3. CASE ApproveNumbers(r)
    BY <2>3 DEF ApproveNumbers
  <2>4. CASE DecideClaims(r)
    BY <2>4 DEF DecideClaims, EstimateRow
  <2>5. CASE DecideConflicts(r) \/ RefreshClears(r) \/ BillCollides(r) \/ DecisionAnnounces(r)
    BY <2>5 DEF DecideConflicts, RefreshClears, BillCollides, DecisionAnnounces
  <2> QED
    BY <1>4, <2>1, <2>2, <2>3, <2>4, <2>5 DEF DecideStep
<1> QED
  BY <1>1, <1>2, <1>3, <1>4 DEF Progress

\* What was on file about a line stays on file.
LEMMA OnFileKept ==
  ASSUME TypeOK, DecisionInv, TellingInv, NEW r \in Requests, Arrival(r) \/ Progress(r) \/ Crash(r),
         NEW j \in Jobs, NEW q \in Requests, NEW kind \in TimelineKind, OnFile(q, kind, j)
  PROVE  OnFile(q, kind, j)'
<1>1. ruling[q].choice # "none" =>
        target'[q] = target[q] /\ ruling'[q] = ruling[q]
  <2>1. ruling[q].choice # "none" => pc[q] \notin {"idle", "claim"}
    BY RuledIsLate
  <2> QED
    BY <2>1, OthersKept
<1> QED
  BY <1>1, FactsKept DEF OnFile, TimelineKind

\* A step that tells at most of what is on file then, and leaves its handler
\* with nothing on its mind that is not.
LEMMA TellingStep ==
  ASSUME TypeOK, TypeOK', DecisionInv, DecisionInv', TellingInv, NEW r \in Requests,
         Arrival(r) \/ Progress(r) \/ Crash(r),
         NEW kinds \in SUBSET TimelineKind, Log(r, kinds),
         \A kind \in kinds : target'[r] = target[r] /\ OnFile(r, kind, target[r])',
         AboutToTell(r)', ruling'[r].choice # "none" => ruling'[r].hit # NoSub
  PROVE  TellingInv'
<1>1. ASSUME NEW j \in Jobs, NEW q \in Requests, NEW kind \in TimelineKind,
             <<q, kind>> \in timeline'[j]
      PROVE  OnFile(q, kind, j)'
  <2>1. CASE <<q, kind>> \in timeline[j]
    BY <2>1, OnFileKept DEF TellingInv, AnnouncedIsStored
  <2>2. CASE <<q, kind>> \notin timeline[j]
    <3>1. timeline' = [timeline EXCEPT ![target[r]] = timeline[target[r]] \cup ({r} \X kinds)]
      BY DEF Log
    <3>2. j = target[r] /\ <<q, kind>> \in {r} \X kinds
      BY <1>1, <2>2, <3>1 DEF TypeOK
    <3> QED
      BY <3>2
  <2> QED
    BY <2>1, <2>2
<1>2. ASSUME NEW q \in Requests, q # r
      PROVE  AboutToTell(q)' /\ (ruling'[q].choice # "none" => ruling'[q].hit # NoSub)
  <2>1. /\ pc'[q] = pc[q] /\ op'[q] = op[q] /\ target'[q] = target[q] /\ dto'[q] = dto[q]
        /\ saw'[q] = saw[q] /\ ruling'[q] = ruling[q]
    BY <1>2, OthersKept
  <2>2. target[q] \in Jobs
    BY DEF TypeOK
  <2>3. AboutToTell(q)
    BY DEF TellingInv
  <2> QED
    BY <2>1, <2>2, <2>3, FactsKept DEF AboutToTell, TellingInv, NewStatus, StartingNow
<1>3. ASSUME NEW j \in Jobs, NEW p \in Verdicts(j)', NEW q \in Verdicts(j)', p # q
      PROVE  ruling'[p].hit # ruling'[q].hit
  <2>1. ASSUME NEW s \in Verdicts(j)'
        PROVE  s \in Requests /\ target'[s] = j /\ ruling'[s].hit # NoSub
    <3>1. s \in Requests /\ (<<s, "approved">> \in timeline'[j] \/ <<s, "declined">> \in timeline'[j])
      BY DEF Verdicts
    <3>2. target'[s] = j /\ ruling'[s].choice # "none"
      BY <3>1, <1>1 DEF OnFile, TimelineKind
    <3> QED
      BY <3>1, <3>2, <1>2
  <2> QED
    BY <2>1, <1>3 DEF DecisionInv, DecidedOnce
<1> QED
  BY <1>1, <1>2, <1>3 DEF TellingInv, AnnouncedIsStored

\* A step that tells nothing.
LEMMA TellingQuiet ==
  ASSUME TypeOK, TypeOK', DecisionInv, DecisionInv', TellingInv, NEW r \in Requests,
         Arrival(r) \/ Progress(r) \/ Crash(r), UNCHANGED timeline,
         AboutToTell(r)', ruling'[r].choice # "none" => ruling'[r].hit # NoSub
  PROVE  TellingInv'
<1>1. Log(r, {})
  <2>1. target[r] \in Jobs /\ timeline[target[r]] \cup ({r} \X {}) = timeline[target[r]]
    BY DEF TypeOK
  <2> QED
    BY <2>1 DEF Log, TypeOK
<1> QED
  BY <1>1, TellingStep

\* A handler that ends has nothing left to tell.
LEMMA TellingReturn ==
  ASSUME TypeOK, TellingInv, NEW r \in Requests, Return(r)
  PROVE  AboutToTell(r)' /\ (ruling'[r].choice # "none" => ruling'[r].hit # NoSub)
<1>1. pc'[r] = "done" /\ ruling' = ruling
  BY DEF Return, Goto, TypeOK
<1> QED
  BY <1>1 DEF AboutToTell, BillSteps, TellingInv

\* A request arrives.
LEMMA TellingArrival ==
  ASSUME TypeOK, TypeOK', DecisionInv, DecisionInv', TellingInv, NEW r \in Requests, Arrival(r)
  PROVE  TellingInv'
<1>1. UNCHANGED <<tables, ruling>>
  BY DEF Arrival, UpdateReads, SubmitReads, DecideReads
<1>2. ruling'[r].choice # "none" => ruling'[r].hit # NoSub
  BY <1>1 DEF TellingInv
<1>3. CASE UpdateReads(r) \/ SubmitReads(r)
  <2>1. pc'[r] \in {"technician", "photos", "write", "find"}
    BY <1>3 DEF UpdateReads, SubmitReads, Goto, AfterLookup, TypeOK
  <2>2. AboutToTell(r)'
    BY <2>1 DEF AboutToTell, BillSteps
  <2> QED
    BY <1>1, <1>2, <2>2, TellingQuiet DEF tables
<1>4. ASSUME NEW c \in {"approve", "decline"}, DecideReads(r, c)
      PROVE  TellingInv'
  <2> PICK j \in Jobs : Arrive(r, c, j, NoDto) /\ saw' = [saw EXCEPT ![r] = CopyOfEstimate(j)]
    BY <1>4 DEF DecideReads
  <2>1. pc'[r] = "claim" /\ target'[r] = j /\ saw'[r].invoiced = (invoice[j].number # 0)
    BY <1>4 DEF DecideReads, Goto, Arrive, CopyOfEstimate, TypeOK
  <2>2. AboutToTell(r)'
    BY <1>1, <2>1 DEF AboutToTell, BillSteps, tables
  <2> QED
    BY <1>1, <1>2, <2>2, TellingQuiet DEF tables
<1> QED
  BY <1>3, <1>4 DEF Arrival

\* The steps of update().
LEMMA TellingUpdate ==
  ASSUME TypeOK, TypeOK', DecisionInv, DecisionInv', TellingInv, NEW r \in Requests, UpdateStep(r)
  PROVE  TellingInv'
<1>1. Progress(r) /\ AboutToTell(r) /\ target[r] \in Jobs
  BY DEF Progress, TellingInv, TypeOK
<1>2. CASE TechnicianMissing(r) \/ DeliveryRefused(r)
  BY <1>1, <1>2, TellingReturn, TellingQuiet DEF TechnicianMissing, DeliveryRefused, tables
<1>3. CASE TechnicianFound(r) \/ DeliveryAllowed(r) \/ UpdateWrites(r)
  <2>1. UNCHANGED <<timeline, ruling>>
    BY <1>3 DEF TechnicianFound, DeliveryAllowed, UpdateWrites, Advance, tables
  <2>2. CASE TechnicianFound(r) \/ DeliveryAllowed(r)
    <3>1. pc'[r] \in {"photos", "write"}
      BY <2>2 DEF TechnicianFound, DeliveryAllowed, Advance, Goto, AfterLookup, TypeOK
    <3>2. AboutToTell(r)'
      BY <3>1 DEF AboutToTell, BillSteps
    <3> QED
      BY <1>1, <2>1, <3>2, TellingQuiet DEF TellingInv
  <2>3. CASE UpdateWrites(r)
    <3>1. /\ pc'[r] = "announce" /\ UNCHANGED <<target, dto, saw>>
          /\ job'[target[r]] = Patched(job[target[r]], dto[r], saw[r])
      BY <1>1, <2>3 DEF UpdateWrites, Advance, Goto, TypeOK
    <3>2. /\ StartingNow(dto[r], saw[r]) => job'[target[r]].started
          /\ NewStatus(dto[r], saw[r]) = "DELIVERED" => job'[target[r]].delivered
      BY <1>1, <3>1 DEF Patched, JobRow, TypeOK
    <3>3. AboutToTell(r)'
      BY <3>1, <3>2 DEF AboutToTell, BillSteps, StartingNow, NewStatus
    <3> QED
      BY <1>1, <2>1, <3>3, TellingQuiet DEF TellingInv
  <2> QED
    BY <1>3, <2>2, <2>3
<1>4. CASE UpdateAnnounces(r)
  <2> DEFINE new   == NewStatus(dto[r], saw[r])
             kinds == IF new = Keep THEN {}
                      ELSE IF StartingNow(dto[r], saw[r]) THEN {"work_started"}
                      ELSE {"status_change"}
  <2>1. /\ pc[r] = "announce" /\ Log(r, kinds) /\ UNCHANGED <<job, photos, estimate, invoice>>
        /\ IF new = "DELIVERED" THEN Advance(r, "handover") ELSE Return(r)
    BY <1>4 DEF UpdateAnnounces
  <2>2. kinds \in SUBSET TimelineKind
    BY DEF TimelineKind
  <2>3. \A kind \in kinds : target'[r] = target[r] /\ OnFile(r, kind, target[r])'
    BY <1>1, <2>1 DEF OnFile, AboutToTell, Advance, Return
  <2>4. AboutToTell(r)' /\ (ruling'[r].choice # "none" => ruling'[r].hit # NoSub)
    <3>1. CASE new = "DELIVERED"
      <4>1. pc'[r] = "handover" /\ UNCHANGED <<job, target, ruling>>
        BY <2>1, <3>1 DEF Advance, Goto, TypeOK
      <4>2. job[target[r]].delivered
        BY <1>1, <2>1, <3>1 DEF AboutToTell
      <4> QED
        BY <4>1, <4>2 DEF AboutToTell, BillSteps, TellingInv
    <3>2. CASE new # "DELIVERED"
      BY <2>1, <3>2, TellingReturn
    <3> QED
      BY <3>1, <3>2
  <2> HIDE DEF kinds
  <2> QED
    BY <1>1, <2>1, <2>2, <2>3, <2>4, TellingStep
<1>5. CASE HandoverAnnounces(r)
  <2>1. /\ Log(r, {"delivered"}) /\ Return(r) /\ UNCHANGED job
        /\ job[target[r]].delivered
    BY <1>1, <1>5 DEF HandoverAnnounces, AboutToTell
  <2>2. \A kind \in {"delivered"} : target'[r] = target[r] /\ OnFile(r, kind, target[r])'
    BY <2>1 DEF OnFile, Return
  <2>3. {"delivered"} \in SUBSET TimelineKind
    BY DEF TimelineKind
  <2> QED
    BY <1>1, <2>1, <2>2, <2>3, TellingReturn, TellingStep
<1> QED
  BY <1>2, <1>3, <1>4, <1>5 DEF UpdateStep

\* The steps of submit().
LEMMA TellingSubmit ==
  ASSUME TypeOK, TypeOK', DecisionInv, DecisionInv', TellingInv, NEW r \in Requests, SubmitStep(r)
  PROVE  TellingInv'
<1>1. Progress(r) /\ AboutToTell(r) /\ target[r] \in Jobs
  BY DEF Progress, TellingInv, TypeOK
<1>2. CASE SubmitCollides(r)
  BY <1>1, <1>2, TellingReturn, TellingQuiet DEF SubmitCollides, tables
<1>3. CASE SubmitFinds(r) \/ SubmitClears(r)
  <2>1. pc'[r] \in {"create", "clear", "resubmit"} /\ UNCHANGED <<timeline, ruling>>
    BY <1>3 DEF SubmitFinds, SubmitClears, Advance, Goto, tables, TypeOK
  <2>2. AboutToTell(r)'
    BY <2>1 DEF AboutToTell, BillSteps
  <2> QED
    BY <1>1, <2>1, <2>2, TellingQuiet DEF TellingInv
<1>4. CASE SubmitReplaces(r) \/ SubmitCreates(r)
  <2>1. /\ pc'[r] = "submitted" /\ UNCHANGED <<timeline, target, ruling>>
        /\ estimate'[target[r]].status = "PENDING"
    BY <1>1, <1>4 DEF SubmitReplaces, SubmitCreates, Advance, Goto, TypeOK
  <2>2. AboutToTell(r)'
    BY <2>1 DEF AboutToTell, BillSteps
  <2> QED
    BY <1>1, <2>1, <2>2, TellingQuiet DEF TellingInv
<1>5. CASE SubmitAnnounces(r)
  <2>1. /\ Log(r, {"estimate_submitted"}) /\ Return(r) /\ UNCHANGED estimate
        /\ estimate[target[r]].status # "NONE"
    BY <1>1, <1>5 DEF SubmitAnnounces, AboutToTell
  <2>2. \A kind \in {"estimate_submitted"} : target'[r] = target[r] /\ OnFile(r, kind, target[r])'
    BY <2>1 DEF OnFile, Return
  <2>3. {"estimate_submitted"} \in SUBSET TimelineKind
    BY DEF TimelineKind
  <2> QED
    BY <1>1, <2>1, <2>2, <2>3, TellingReturn, TellingStep
<1> QED
  BY <1>2, <1>3, <1>4, <1>5 DEF SubmitStep

\* The steps of decide().
LEMMA TellingDecide ==
  ASSUME TypeOK, TypeOK', DecisionInv, DecisionInv', TellingInv, NEW r \in Requests, DecideStep(r)
  PROVE  TellingInv'
<1>1. Progress(r) /\ AboutToTell(r) /\ target[r] \in Jobs
  BY DEF Progress, TellingInv, TypeOK
<1>2. CASE DecideConflicts(r) \/ BillCollides(r)
  BY <1>1, <1>2, TellingReturn, TellingQuiet DEF DecideConflicts, BillCollides, tables
<1>3. CASE DecideClaims(r)
  <2>1. /\ pc[r] = "claim" /\ UNCHANGED <<timeline, invoice, op, target, saw>>
        /\ pc'[r] = (IF op[r] = "decline" THEN "release"
                     ELSE IF saw[r].invoiced THEN "clearBill" ELSE "number")
        /\ ruling'[r].choice = op[r] /\ ruling'[r].hit = estimate[target[r]].sub
        /\ estimate[target[r]].status = "PENDING"
    BY <1>3 DEF DecideClaims, Claimable, Goto, TypeOK
  <2>2. op[r] \in {"approve", "decline"} /\ estimate[target[r]].sub # NoSub
    BY <1>1, <2>1 DEF DecisionInv, RulingsInOrder, SubmissionsStored
  <2>3. AboutToTell(r)'
    BY <1>1, <2>1, <2>2 DEF AboutToTell, BillSteps
  <2> QED
    BY <1>1, <2>1, <2>2, <2>3, TellingQuiet
<1>4. CASE DeclineReleases(r)
  <2>1. pc[r] = "release" /\ pc'[r] = "decided" /\ UNCHANGED <<timeline, op, ruling>>
    BY <1>4 DEF DeclineReleases, Advance, Goto, TypeOK
  <2>2. AboutToTell(r)'
    BY <1>1, <2>1 DEF AboutToTell, BillSteps
  <2> QED
    BY <1>1, <2>1, <2>2, TellingQuiet DEF TellingInv
<1>5. CASE RefreshClears(r)
  <2>1. pc[r] = "clearBill" /\ pc'[r] = "refresh" /\ UNCHANGED <<timeline, invoice, op, target, ruling>>
    BY <1>5 DEF RefreshClears, Goto, tables, TypeOK
  <2>2. AboutToTell(r)'
    BY <1>1, <2>1 DEF AboutToTell, BillSteps
  <2> QED
    BY <1>1, <2>1, <2>2, TellingQuiet DEF TellingInv
<1>6. CASE ApproveNumbers(r)
  <2> PICK n \in 1 .. (2 * Cardinality(Jobs) + 1) : saw' = [saw EXCEPT ![r] = [@ EXCEPT !.number = n]]
    BY <1>6 DEF ApproveNumbers
  <2>1. pc[r] = "number" /\ pc'[r] = "bill" /\ UNCHANGED <<timeline, op, ruling>>
    BY <1>6 DEF ApproveNumbers, Goto, tables, TypeOK
  <2>2. saw'[r].number = n /\ n # 0
    BY DEF TypeOK, Snapshot
  <2>3. AboutToTell(r)'
    BY <1>1, <2>1, <2>2 DEF AboutToTell, BillSteps
  <2> QED
    BY <1>1, <2>1, <2>3, TellingQuiet DEF TellingInv
<1>7. CASE ApproveRefreshes(r) \/ ApproveBills(r)
  <2>1. pc[r] \in {"refresh", "bill"} /\ pc'[r] = "decided" /\ UNCHANGED <<timeline, op, target, ruling>>
    BY <1>7 DEF ApproveRefreshes, ApproveBills, Advance, Goto, TypeOK
  <2>2. op[r] = "approve" /\ ruling[r].choice = "approve"
    BY <1>1, <2>1 DEF AboutToTell, BillSteps, DecisionInv, RulingsInOrder
  <2>3. invoice'[target[r]].number # 0
    <3>1. CASE ApproveRefreshes(r)
      BY <1>1, <3>1 DEF ApproveRefreshes, AboutToTell, InvoiceRow, TypeOK
    <3>2. CASE ApproveBills(r)
      BY <1>1, <3>2 DEF ApproveBills, AboutToTell, TypeOK
    <3> QED
      BY <1>7, <3>1, <3>2
  <2>4. AboutToTell(r)'
    BY <2>1, <2>2, <2>3 DEF AboutToTell, BillSteps
  <2> QED
    BY <1>1, <2>1, <2>4, TellingQuiet DEF TellingInv
<1>8. CASE DecisionAnnounces(r)
  <2> DEFINE kinds == {IF op[r] = "approve" THEN "approved" ELSE "declined"}
  <2>1. /\ pc[r] = "decided" /\ Log(r, kinds) /\ Return(r)
        /\ UNCHANGED <<job, estimate, invoice, op, target, ruling>>
    BY <1>8 DEF DecisionAnnounces, Return
  <2>2. \A kind \in kinds : target'[r] = target[r] /\ OnFile(r, kind, target[r])'
    BY <1>1, <2>1 DEF OnFile, AboutToTell
  <2>3. kinds \in SUBSET TimelineKind
    BY DEF TimelineKind
  <2> HIDE DEF kinds
  <2> QED
    BY <1>1, <2>1, <2>2, <2>3, TellingReturn, TellingStep
<1> QED
  BY <1>2, <1>3, <1>4, <1>5, <1>6, <1>7, <1>8 DEF DecideStep

(***************************************************************************)
(* update(), submit() and decide(): no line of the timeline tells of a     *)
(* start, a delivery, an estimate or a verdict that the tables do not      *)
(* have, whichever statements fail and whatever overlaps; and no two of    *)
(* its verdicts are on one submission.                                     *)
(***************************************************************************)
THEOREM AnnouncementsHold == Spec => []AnnouncedIsStored
<1>1. Init => TellingInv
  BY DEF Init, TellingInv, AnnouncedIsStored, Verdicts, AboutToTell, BillSteps, NoRuling
<1>2. ASSUME TypeOK, TypeOK', DecisionInv, DecisionInv', TellingInv, [Next]_vars
      PROVE  TellingInv'
  <2>1. CASE UNCHANGED vars \/ \E j \in Jobs, side \in Sides : SaveDeliveryPhoto(j, side)
    <3>1. UNCHANGED <<job, estimate, invoice, timeline, pc, op, target, dto, saw, ruling>>
      BY <2>1 DEF vars, SaveDeliveryPhoto
    <3>2. ASSUME NEW j \in Jobs
          PROVE  /\ Verdicts(j)' = Verdicts(j)
                 /\ \A r \in Requests, kind \in TimelineKind : OnFile(r, kind, j)' = OnFile(r, kind, j)
      BY <3>1 DEF Verdicts, OnFile
    <3>3. AnnouncedIsStored'
      BY <1>2, <3>1, <3>2 DEF TellingInv, AnnouncedIsStored
    <3>4. ASSUME NEW r \in Requests
          PROVE  AboutToTell(r)' /\ (ruling'[r].choice # "none" => ruling'[r].hit # NoSub)
      BY <1>2, <3>1 DEF TellingInv, AboutToTell, NewStatus, StartingNow
    <3> QED
      BY <3>3, <3>4 DEF TellingInv
  <2>2. ASSUME NEW r \in Requests, Crash(r)
        PROVE  TellingInv'
    BY <1>2, <2>2, TellingReturn, TellingQuiet DEF Crash, tables
  <2> QED
    BY <1>2, <2>1, <2>2, TellingArrival, TellingUpdate, TellingSubmit, TellingDecide
       DEF Next, Progress
<1>3. TellingInv => AnnouncedIsStored
  BY DEF TellingInv
<1> QED
  BY <1>1, <1>2, <1>3, TypeCorrect, DecisionInvariant, PTL DEF Spec

--------------------------------------------------------------------------------
(***************************************************************************)
(* The lifecycle, implemented by requests that do not overlap.             *)
(***************************************************************************)
LifecycleStep == [Lifecycle!Next]_(Lifecycle!vars)

\* Two handlers at work were asked for two decisions, or for two submissions.
LEMMA Company ==
  ASSUME Orderly, TypeOK, OrderlyInv, NEW q \in Requests, NEW r \in Requests,
         q # r, Active(q), Active(r)
  PROVE  /\ pc[r] \notin UpdateSteps
         /\ pc[r] \in ParkSteps \cup {"submitted"} <=> pc[q] \in ParkSteps \cup {"submitted"}
         /\ pc[r] \in BillSteps => pc[q] \notin BillSteps
<1>1. <<op[q], op[r]>> \in Overlap \/ <<op[r], op[q]>> \in Overlap
  BY DEF OrderlyInv, InCompany
<1>2. \/ op[q] \in Decisions /\ op[r] \in Decisions
      \/ op[q] = "submit" /\ op[r] = "submit"
  BY <1>1 DEF Orderly, Deciders, Submitters
<1>3. op[q] = "approve" /\ op[r] = "approve" => target[q] = target[r]
  BY <1>1 DEF Orderly, TypeOK
<1>4. StepsInOrder(q) /\ StepsInOrder(r) /\ Current(q) /\ Current(r)
  BY DEF OrderlyInv, Current
<1>5. pc[q] \in Steps /\ pc[r] \in Steps
  BY DEF TypeOK
<1>6. pc[r] \in BillSteps => pc[q] \notin BillSteps
  BY <1>3, <1>4 DEF StepsInOrder, OrderlyInv, OneRuling, RulingSteps
<1> QED
  BY <1>2, <1>4, <1>5, <1>6
     DEF StepsInOrder, Decisions, UpdateSteps, ParkSteps, BillSteps, Steps, Active

\* The tables and the handlers have a lifecycle in view.
LEMMA ViewType == TypeOK => Lifecycle!TypeOK
<1> SUFFICES ASSUME TypeOK PROVE Lifecycle!TypeOK
  OBVIOUS
<1>1. \A j \in Jobs : VerdictOf(j) \in Lifecycle!Verdict
  BY DEF VerdictOf, VerdictFor, TypeOK, EstimateRow, Lifecycle!Verdict
<1> QED
  BY <1>1 DEF TypeOK, JobRow, Lifecycle!TypeOK, Lifecycle!Status, Lifecycle!None, NoStatus

\* The two names of a missing stamp.
LEMMA NoStatusIsNone == NoStatus = Lifecycle!None
BY DEF NoStatus, Lifecycle!None

\* What others do to their memories does not matter to r's.
LEMMA SameCurrent ==
  ASSUME NEW r \in Requests, Current(r), target[r] \in Jobs,
         pc'[r] = pc[r], op'[r] = op[r], target'[r] = target[r], saw'[r] = saw[r],
         dto'[r] = dto[r],
         UNCHANGED <<job, estimate, invoice>>
  PROVE  Current(r)'
BY DEF Current, StepsInOrder, UpdateCurrent, ParkCurrent, ClaimCurrent, RulingCurrent,
       CanBill, Issued

\* A step that leaves the rows alone, and neither makes a decision nor ends
\* one, only has to keep its own memory right.
LEMMA OrderlyQuiet ==
  ASSUME TypeOK, TypeOK', OrderlyInv, NEW r \in Requests, UNCHANGED <<job, estimate, invoice>>,
         \A q \in Requests \ {r} : /\ pc'[q] = pc[q] /\ op'[q] = op[q] /\ target'[q] = target[q]
                                   /\ saw'[q] = saw[q] /\ dto'[q] = dto[q],
         pc[r] \in RulingSteps <=> pc'[r] \in RulingSteps,
         pc[r] \in RulingSteps => target'[r] = target[r],
         Current(r)', InCompany'
  PROVE  OrderlyInv' /\ LifecycleStep
<1>1. \A q \in Requests : Current(q)'
  BY SameCurrent DEF OrderlyInv, TypeOK
<1>2. \A q \in Requests : /\ pc[q] \in RulingSteps <=> pc'[q] \in RulingSteps
                          /\ pc[q] \in RulingSteps => target'[q] = target[q]
  OBVIOUS
<1>3. OneRuling'
  BY <1>2 DEF OrderlyInv, OneRuling
<1>4. \A j \in Jobs : Deciding(j)' = Deciding(j)
  BY <1>2 DEF Deciding, RulingSteps
<1>5. \A j \in Jobs : VerdictOf(j)' = VerdictOf(j)
  BY <1>4 DEF VerdictOf
<1>6. UNCHANGED Lifecycle!vars
  BY <1>5 DEF Lifecycle!vars
<1>7. Lifecycle!Agreement'
  BY <1>5 DEF OrderlyInv, Lifecycle!Agreement
<1>8. ApprovedIsBilled'
  BY <1>4 DEF OrderlyInv, ApprovedIsBilled
<1> QED
  BY <1>1, <1>3, <1>6, <1>7, <1>8 DEF OrderlyInv, LifecycleStep

\* A handler that goes on, or ends, has the company it had.
LEMMA SameCompany ==
  ASSUME OrderlyInv, NEW r \in Requests, UNCHANGED op,
         \A q \in Requests \ {r} : pc'[q] = pc[q], Active(r)
  PROVE  InCompany'
BY DEF OrderlyInv, InCompany, Active

\* A handler that ends without having decided.
LEMMA OrderlyReturn ==
  ASSUME TypeOK, TypeOK', OrderlyInv, NEW r \in Requests, Active(r), pc[r] \notin RulingSteps,
         Return(r), UNCHANGED <<job, estimate, invoice>>
  PROVE  OrderlyInv' /\ LifecycleStep
<1>1. /\ pc'[r] = "done" /\ UNCHANGED <<op, target>>
      /\ \A q \in Requests \ {r} : pc'[q] = pc[q] /\ saw'[q] = saw[q] /\ dto'[q] = dto[q]
  BY DEF Return, Goto, TypeOK
<1>2. Current(r)'
  BY <1>1 DEF Current, StepsInOrder, UpdateCurrent, ParkCurrent, ClaimCurrent, RulingCurrent,
              UpdateSteps, ParkSteps, BillSteps, RulingSteps
<1>3. InCompany'
  BY <1>1, SameCompany
<1> QED
  BY <1>1, <1>2, <1>3, OrderlyQuiet DEF RulingSteps, BillSteps

\* A handler that goes on with what it remembers, and has not decided.
LEMMA OrderlyAdvance ==
  ASSUME TypeOK, TypeOK', OrderlyInv, NEW r \in Requests, Active(r), pc[r] \notin RulingSteps,
         NEW step, step \notin RulingSteps,
         Advance(r, step), UNCHANGED <<job, estimate, invoice>>,
         Current(r)'
  PROVE  OrderlyInv' /\ LifecycleStep
<1>1. /\ pc'[r] = step /\ UNCHANGED <<op, target, saw, dto>>
      /\ \A q \in Requests \ {r} : pc'[q] = pc[q]
  BY DEF Advance, Goto, TypeOK
<1>2. InCompany'
  BY <1>1, SameCompany
<1> QED
  BY <1>1, <1>2, OrderlyQuiet

\* r's handler writes the row of its job, its estimate or its invoice; its
\* fellows have their memories checked by the caller.
LEMMA OrderlyWrite ==
  ASSUME TypeOK, TypeOK', OrderlyInv, NEW r \in Requests, Active(r), UNCHANGED op,
         \A q \in Requests \ {r} : pc'[q] = pc[q],
         \A q \in Requests : Current(q)',
         OneRuling', Lifecycle!Agreement', ApprovedIsBilled'
  PROVE  OrderlyInv'
BY SameCompany DEF OrderlyInv

\* The update statement, from a current copy.
LEMMA PatchedFromCurrent ==
  ASSUME NEW row \in JobRow, NEW seen \in Snapshot, NEW d \in PatchDto,
         CopyCurrent(seen, row)
  PROVE  LET new == NewStatus(d, seen)
         IN  /\ Patched(row, d, seen).before = row.before
             /\ Patched(row, d, seen).status = IF new = Keep THEN row.status ELSE new
             /\ Patched(row, d, seen).started = (row.started \/ new = "IN_PROGRESS")
<1>1. Patched(row, d, seen).started =
        IF NewStatus(d, seen) = "IN_PROGRESS" /\ ~row.started THEN TRUE ELSE row.started
  BY DEF Patched, StartingNow, CopyCurrent, JobRow
<1>2. row.started \in BOOLEAN
  BY DEF JobRow
<1>3. Patched(row, d, seen).started = (row.started \/ NewStatus(d, seen) = "IN_PROGRESS")
  BY <1>1, <1>2
<1> QED
  BY <1>3 DEF Patched, JobRow

\* PATCH: a transition is a move of the lifecycle, anything else is none.
LEMMA OrderlyPatch ==
  ASSUME Orderly, TypeOK, TypeOK', OrderlyInv, NEW r \in Requests, UpdateWrites(r)
  PROVE  OrderlyInv' /\ LifecycleStep
<1> DEFINE t   == target[r]
           new == NewStatus(dto[r], saw[r])
<1>1. /\ pc[r] = "write" /\ pc'[r] = "announce" /\ Active(r) /\ t \in Jobs
      /\ UNCHANGED <<op, target, saw, dto, estimate, invoice>>
      /\ \A q \in Requests \ {r} : pc'[q] = pc[q]
  BY DEF UpdateWrites, Advance, Goto, TypeOK, Active
<1>2. \A q \in Requests \ {r} : ~Active(q)
  BY <1>1, Company DEF UpdateSteps
<1>3. /\ CopyCurrent(saw[r], job[t]) /\ MoveAllowed(dto[r], saw[r])
      /\ op[r] = "update"
  BY <1>1 DEF OrderlyInv, Current, UpdateCurrent, StepsInOrder, UpdateSteps
<1>4. \A q \in Requests : pc[q] \notin RulingSteps /\ pc'[q] \notin RulingSteps
  BY <1>1, <1>2 DEF Active, RulingSteps, BillSteps
<1>5. \A q \in Requests : Current(q)'
  BY <1>1, <1>2, <1>3 DEF Active, Current, StepsInOrder, UpdateCurrent, ParkCurrent, ClaimCurrent,
     RulingCurrent, UpdateSteps, ParkSteps, BillSteps, RulingSteps
<1>6. OneRuling'
  BY <1>4 DEF OneRuling
<1>7. \A j \in Jobs : ~Deciding(j) /\ ~Deciding(j)'
  BY <1>4 DEF Deciding, RulingSteps
<1>8. \A j \in Jobs : VerdictOf(j)' = VerdictOf(j)
  BY <1>1, <1>7 DEF VerdictOf
<1>9. ApprovedIsBilled'
  BY <1>1, <1>7 DEF OrderlyInv, ApprovedIsBilled
<1>10. /\ \A j \in Jobs \ {t} : job'[j] = job[j]
       /\ job'[t].before = job[t].before
       /\ job'[t].status = IF new = Keep THEN job[t].status ELSE new
       /\ job'[t].started = (job[t].started \/ new = "IN_PROGRESS")
  <2>1. job' = [job EXCEPT ![t] = Patched(job[t], dto[r], saw[r])]
    BY DEF UpdateWrites
  <2>2. job[t] \in JobRow /\ saw[r] \in Snapshot /\ dto[r] \in PatchDto
    BY <1>1 DEF TypeOK
  <2>3. job'[t] = Patched(job[t], dto[r], saw[r]) /\ \A j \in Jobs \ {t} : job'[j] = job[j]
    BY <1>1, <2>1 DEF TypeOK
  <2> QED
    BY <1>3, <2>2, <2>3, PatchedFromCurrent
<1>11. new # Keep => new \in ALLOWED_TRANSITIONS[job[t].status]
  BY <1>3 DEF MoveAllowed, CopyCurrent
<1>12. LifecycleStep
  <2>1. CASE new = Keep
    <3>1. job[t].started \in BOOLEAN
      BY <1>1 DEF TypeOK, JobRow
    <3>2. job'[t].started = job[t].started
      BY <2>1, <3>1, <1>10 DEF Keep
    <3>3. \A j \in Jobs : /\ job'[j].status = job[j].status /\ job'[j].before = job[j].before
                          /\ job'[j].started = job[j].started
      BY <2>1, <3>2, <1>10
    <3> QED
      BY <3>3, <1>1, <1>8 DEF LifecycleStep, Lifecycle!vars
  <2>2. CASE new # Keep
    <3>1. Lifecycle!Move(t, new)
      BY <2>2, <1>1, <1>8, <1>10, <1>11
         DEF Lifecycle!Move, Lifecycle!PatchMoves, ALLOWED_TRANSITIONS, Lifecycle!Status, TypeOK
    <3>2. new \in Lifecycle!Status
      BY <2>2, <1>1 DEF NewStatus, TypeOK, PatchDto, Lifecycle!Status
    <3> QED
      BY <3>1, <3>2, <1>1 DEF LifecycleStep, Lifecycle!Next, Lifecycle!Move
  <2> QED
    BY <2>1, <2>2
<1>13. Lifecycle!Agreement'
  <2>1. \A j \in Jobs : Lifecycle!Consistent(job[j].status, job[j].before, job[j].started,
                                             VerdictOf(j), invoice[j].number # 0)
    BY DEF OrderlyInv, Lifecycle!Agreement
  <2>2. ASSUME NEW j \in Jobs
        PROVE  Lifecycle!Consistent(job'[j].status, job'[j].before, job'[j].started,
                                    VerdictOf(j)', invoice'[j].number # 0)
    <3>1. CASE j # t \/ new = Keep
      <4>1. job[j].started \in BOOLEAN
        BY DEF TypeOK, JobRow
      <4>2. job'[j].started = job[j].started
        BY <3>1, <4>1, <1>10 DEF Keep
      <4>3. job'[j].status = job[j].status /\ job'[j].before = job[j].before
        BY <3>1, <1>10
      <4> QED
        BY <4>2, <4>3, <2>1, <1>1, <1>8 DEF Lifecycle!Consistent
    <3>2. CASE j = t /\ new # Keep
      <4>1. /\ job[t].status # "REVIEW" /\ new \in Working
            /\ new # "IN_PROGRESS" => job[t].status \in Working
        BY <3>2, <1>1, <1>11 DEF ALLOWED_TRANSITIONS, TypeOK, JobRow
      <4> QED
        BY <4>1, <3>2, <2>1, <1>1, <1>8, <1>10
           DEF Lifecycle!Consistent, Lifecycle!Working, Lifecycle!None, TypeOK, JobRow
    <3> QED
      BY <3>1, <3>2
  <2> QED
    BY <2>2 DEF Lifecycle!Agreement
<1> QED
  BY <1>1, <1>5, <1>6, <1>9, <1>12, <1>13, OrderlyWrite

\* The commit of a submission: it parks the job, whoever parked it before.
LEMMA OrderlyPark ==
  ASSUME Orderly, TypeOK, TypeOK', OrderlyInv, NEW r \in Requests,
         SubmitReplaces(r) \/ SubmitCreates(r)
  PROVE  OrderlyInv' /\ LifecycleStep
<1> DEFINE t == target[r]
<1>1. /\ pc[r] \in {"resubmit", "create"} /\ pc'[r] = "submitted" /\ Active(r) /\ t \in Jobs
      /\ UNCHANGED <<op, target, saw, dto, invoice>>
      /\ \A q \in Requests \ {r} : pc'[q] = pc[q]
  BY DEF SubmitReplaces, SubmitCreates, Advance, Goto, TypeOK, Active
<1>2. \A q \in Requests \ {r} : pc[q] \in ParkSteps \cup {"submitted", "idle", "done"}
  BY <1>1, Company DEF ParkSteps, Active
<1>3. ParkCurrent(r) /\ op[r] = "submit" /\ saw[r].status # "DELIVERED"
  BY <1>1 DEF OrderlyInv, Current, ParkCurrent, StepsInOrder, ParkSteps
<1>4. \A q \in Requests : pc[q] \notin RulingSteps /\ pc'[q] \notin RulingSteps
  BY <1>1, <1>2 DEF ParkSteps, RulingSteps, BillSteps
<1>5. /\ \A j \in Jobs \ {t} : job'[j] = job[j]
      /\ job'[t].status = "REVIEW" /\ job'[t].started = job[t].started
      /\ job'[t].before = IF job[t].status = "REVIEW" THEN job[t].before ELSE job[t].status
  <2>1. job' = [job EXCEPT ![t] = Parked(job[t], saw[r])] /\ job[t] \in JobRow
    BY <1>1 DEF SubmitReplaces, SubmitCreates, TypeOK
  <2>2. /\ Parked(job[t], saw[r]).status = "REVIEW"
        /\ Parked(job[t], saw[r]).started = job[t].started
        /\ Parked(job[t], saw[r]).before =
              IF saw[r].status = "REVIEW" THEN job[t].before ELSE saw[r].status
    BY <2>1 DEF Parked, JobRow
  <2>3. job'[t] = Parked(job[t], saw[r]) /\ \A j \in Jobs \ {t} : job'[j] = job[j]
    BY <1>1, <2>1 DEF TypeOK
  <2>4. job[t].status = "REVIEW" => job[t].before # "REVIEW"
    BY <1>1 DEF OrderlyInv, Lifecycle!Agreement, Lifecycle!Consistent
  <2> QED
    BY <1>1, <1>3, <2>2, <2>3, <2>4 DEF ParkCurrent, ParkSteps
<1>6. /\ estimate'[t].status = "PENDING"
      /\ \A j \in Jobs \ {t} : estimate'[j] = estimate[j]
  BY <1>1 DEF SubmitReplaces, SubmitCreates, TypeOK
<1>7. ASSUME NEW q \in Requests
      PROVE  Current(q)'
  <2>1. StepsInOrder(q)'
    BY <1>1, <1>3 DEF OrderlyInv, Current, StepsInOrder, UpdateSteps, ParkSteps, BillSteps
  <2>2. ParkCurrent(q)'
    <3>1. CASE q = r
      BY <3>1, <1>1 DEF ParkCurrent, ParkSteps
    <3>2. CASE q # r /\ target[q] # t
      BY <3>2, <1>1, <1>5 DEF OrderlyInv, Current, ParkCurrent, TypeOK
    <3>3. CASE q # r /\ target[q] = t
      BY <3>3, <1>1, <1>5 DEF OrderlyInv, Current, ParkCurrent
    <3> QED
      BY <3>1, <3>2, <3>3
  <2> QED
    BY <2>1, <2>2, <1>1, <1>2, <1>4
       DEF Current, UpdateCurrent, ClaimCurrent, RulingCurrent, ParkSteps
<1>8. OneRuling'
  BY <1>4 DEF OneRuling
<1>9. \A j \in Jobs : ~Deciding(j) /\ ~Deciding(j)'
  BY <1>4 DEF Deciding, RulingSteps
<1>10. VerdictOf(t)' = "pending" /\ \A j \in Jobs \ {t} : VerdictOf(j)' = VerdictOf(j)
  BY <1>1, <1>6, <1>9 DEF VerdictOf, VerdictFor
<1>11. ApprovedIsBilled'
  BY <1>1, <1>6, <1>9 DEF OrderlyInv, ApprovedIsBilled
<1>12. job[t].status # "DELIVERED"
  BY <1>1, <1>3 DEF ParkCurrent, ParkSteps
<1>13. LifecycleStep
  <2>1. Lifecycle!Submit(t)
    BY <1>1, <1>5, <1>10, <1>12 DEF Lifecycle!Submit, TypeOK
  <2> QED
    BY <2>1, <1>1 DEF LifecycleStep, Lifecycle!Next, Lifecycle!Submit
<1>14. Lifecycle!Agreement'
  <2>1. \A j \in Jobs : Lifecycle!Consistent(job[j].status, job[j].before, job[j].started,
                                             VerdictOf(j), invoice[j].number # 0)
    BY DEF OrderlyInv, Lifecycle!Agreement
  <2>2. Lifecycle!Consistent(job'[t].status, job'[t].before, job'[t].started,
                             VerdictOf(t)', invoice'[t].number # 0)
    BY <2>1, <1>1, <1>5, <1>10, <1>12
       DEF Lifecycle!Consistent, Lifecycle!None, Lifecycle!Working, TypeOK, JobRow
  <2> QED
    BY <2>1, <2>2, <1>1, <1>5, <1>10 DEF Lifecycle!Agreement
<1> QED
  BY <1>1, <1>7, <1>8, <1>11, <1>13, <1>14, OrderlyWrite

\* A job gets back the status it had before REVIEW.
LEMMA ReleaseView ==
  ASSUME NEW t \in Jobs, \A j \in Jobs \ {t} : job'[j] = job[j],
         job'[t].status = job[t].before, job'[t].before = NoStatus,
         job'[t].started = job[t].started, VerdictOf(t) = "pending"
  PROVE  Lifecycle!Release(t)
BY NoStatusIsNone DEF Lifecycle!Release

\* A decision takes effect: it releases the job, and an approval is billed.
LEMMA OrderlyRules ==
  ASSUME Orderly, TypeOK, TypeOK', OrderlyInv, NEW r \in Requests, pc[r] \in RulingSteps,
         Advance(r, "decided"), UNCHANGED estimate,
         job' = [job EXCEPT ![target[r]] = Released(@, saw[r])],
         \A j \in Jobs \ {target[r]} : invoice'[j] = invoice[j],
         pc[r] = "release" => UNCHANGED invoice,
         pc[r] \in BillSteps => /\ invoice'[target[r]].number # 0
                                /\ invoice'[target[r]].lines = estimate[target[r]].lines
  PROVE  OrderlyInv' /\ LifecycleStep
<1> PICK t \in Jobs : t = target[r]
  BY DEF TypeOK
<1>1. /\ pc'[r] = "decided" /\ Active(r)
      /\ UNCHANGED <<op, target, saw, dto>>
      /\ \A q \in Requests \ {r} : pc'[q] = pc[q]
  BY DEF Advance, Goto, TypeOK, Active, RulingSteps, BillSteps
<1>2. \A q \in Requests \ {r} :
        /\ pc[q] \in RulingSteps \cup {"claim", "decided", "idle", "done"}
        /\ pc[r] \in BillSteps => pc[q] \notin BillSteps
        /\ pc[q] \in RulingSteps => target[q] # t
  <2> SUFFICES ASSUME NEW q \in Requests \ {r}
               PROVE  /\ pc[q] \in RulingSteps \cup {"claim", "decided", "idle", "done"}
                      /\ pc[r] \in BillSteps => pc[q] \notin BillSteps
                      /\ pc[q] \in RulingSteps => target[q] # t
    OBVIOUS
  <2>1. pc[q] \in RulingSteps => target[q] # t
    BY DEF OrderlyInv, OneRuling
  <2>2. pc[q] \in Steps
    BY DEF TypeOK
  <2>3. CASE ~Active(q)
    BY <2>1, <2>3 DEF Active, BillSteps
  <2>4. CASE Active(q)
    <3>1. /\ pc[q] \notin UpdateSteps
          /\ pc[r] \in ParkSteps \cup {"submitted"} <=> pc[q] \in ParkSteps \cup {"submitted"}
          /\ pc[r] \in BillSteps => pc[q] \notin BillSteps
      BY <2>4, <1>1, Company
    <3> QED
      BY <2>1, <2>2, <3>1 DEF UpdateSteps, ParkSteps, RulingSteps, BillSteps, Steps
  <2> QED
    BY <2>3, <2>4
<1>3. /\ RulingCurrent(r) /\ CopyCurrent(saw[r], job[t])
      /\ saw[r].status = "REVIEW" /\ saw[r].before # NoStatus
      /\ estimate[t].status = IF pc[r] = "release" THEN "DECLINED" ELSE "APPROVED"
  BY DEF OrderlyInv, Current, RulingCurrent
<1>4. /\ \A j \in Jobs \ {t} : job'[j] = job[j]
      /\ job'[t].status = job[t].before /\ job'[t].before = NoStatus
      /\ job'[t].started = job[t].started
  <2>1. job'[t] = Released(job[t], saw[r]) /\ \A j \in Jobs \ {t} : job'[j] = job[j]
    BY <1>1 DEF TypeOK
  <2>2. job[t] \in JobRow
    BY <1>1 DEF TypeOK
  <2>3. Released(job[t], saw[r]).status = saw[r].before
    BY <2>2, <1>3 DEF Released, ResumeStatus, JobRow
  <2>4. /\ Released(job[t], saw[r]).before = NoStatus
        /\ Released(job[t], saw[r]).started = job[t].started
    BY <2>2 DEF Released, JobRow
  <2> QED
    BY <2>1, <2>3, <2>4, <1>3 DEF CopyCurrent
<1>5. pc[r] \notin BillSteps => UNCHANGED invoice
  BY DEF RulingSteps
<1>6. ASSUME NEW q \in Requests
      PROVE  Current(q)'
  <2>1. StepsInOrder(q)'
    BY <1>1 DEF OrderlyInv, Current, StepsInOrder, UpdateSteps, ParkSteps, BillSteps,
       RulingSteps, Decisions
  <2>2. UpdateCurrent(q)' /\ ParkCurrent(q)'
    BY <1>1, <1>2 DEF UpdateCurrent, ParkCurrent, ParkSteps, RulingSteps, BillSteps
  <2>3. ClaimCurrent(q)'
    BY <1>1, <1>3, <1>4 DEF OrderlyInv, Current, ClaimCurrent, TypeOK
  <2>4. RulingCurrent(q)'
    <3>1. CASE pc[q] \notin RulingSteps \/ q = r
      BY <3>1, <1>1 DEF RulingCurrent, RulingSteps, BillSteps
    <3>2. CASE pc[q] \in RulingSteps /\ q # r
      <4>1. target[q] \in Jobs \ {t}
        BY <3>2, <1>2 DEF TypeOK
      <4>2. RulingCurrent(q) /\ pc'[q] = pc[q] /\ target'[q] = target[q] /\ saw'[q] = saw[q]
        BY <3>2, <1>1 DEF OrderlyInv, Current
      <4>3. /\ job'[target[q]] = job[target[q]] /\ invoice'[target[q]] = invoice[target[q]]
        BY <4>1, <1>4
      <4>4. pc[q] = "bill" => CanBill(q)'
        <5>1. pc[q] = "bill" => UNCHANGED invoice
          BY <3>2, <1>2, <1>5 DEF BillSteps
        <5> QED
          BY <3>2, <5>1, <4>2 DEF RulingCurrent, CanBill, Issued
      <4> QED
        BY <4>2, <4>3, <4>4 DEF RulingCurrent
    <3> QED
      BY <3>1, <3>2
  <2> QED
    BY <2>1, <2>2, <2>3, <2>4 DEF Current
<1>7. OneRuling'
  BY <1>1 DEF OrderlyInv, OneRuling, RulingSteps, BillSteps
<1>8. Deciding(t) /\ ~Deciding(t)'
  BY <1>1, <1>2 DEF Deciding, RulingSteps, BillSteps
<1>9. ASSUME NEW j \in Jobs \ {t}
      PROVE  Deciding(j)' <=> Deciding(j)
  BY <1>1 DEF Deciding
<1>10. /\ VerdictOf(t) = "pending"
       /\ VerdictOf(t)' = IF pc[r] = "release" THEN "declined" ELSE "approved"
       /\ \A j \in Jobs \ {t} : VerdictOf(j)' = VerdictOf(j)
  <2>1. VerdictOf(t) = "pending"
    BY <1>8 DEF VerdictOf
  <2>2. VerdictOf(t)' = IF pc[r] = "release" THEN "declined" ELSE "approved"
    BY <1>1, <1>3, <1>8 DEF VerdictOf, VerdictFor
  <2>3. \A j \in Jobs \ {t} : VerdictOf(j)' = VerdictOf(j)
    BY <1>9 DEF VerdictOf
  <2> QED
    BY <2>1, <2>2, <2>3
<1>11. ApprovedIsBilled'
  <2>1. estimate[t].status = "APPROVED" => pc[r] \in BillSteps
    BY <1>3 DEF RulingSteps
  <2> QED
    BY <2>1, <1>9 DEF OrderlyInv, ApprovedIsBilled
<1>12. pc[r] # "release" => invoice'[t].number # 0
  BY DEF RulingSteps
<1>13. LifecycleStep
  <2>1. Lifecycle!Release(t)
    BY <1>1, <1>4, <1>10, ReleaseView
  <2>2. CASE pc[r] = "release"
    <3>1. Lifecycle!Decline(t)
      BY <2>1, <2>2, <1>1, <1>10 DEF Lifecycle!Decline
    <3> QED
      BY <3>1, <1>1 DEF LifecycleStep, Lifecycle!Next, Lifecycle!Decline, Lifecycle!Release
  <2>3. CASE pc[r] # "release"
    <3>1. Lifecycle!Approve(t)
      BY <2>1, <2>3, <1>1, <1>10, <1>12 DEF Lifecycle!Approve
    <3> QED
      BY <3>1, <1>1 DEF LifecycleStep, Lifecycle!Next, Lifecycle!Approve, Lifecycle!Release
  <2> QED
    BY <2>2, <2>3
<1>14. Lifecycle!Agreement'
  <2>1. \A j \in Jobs : Lifecycle!Consistent(job[j].status, job[j].before, job[j].started,
                                             VerdictOf(j), invoice[j].number # 0)
    BY DEF OrderlyInv, Lifecycle!Agreement
  <2>2. pc[r] = "release" => UNCHANGED invoice
    OBVIOUS
  <2>3. Lifecycle!Consistent(job'[t].status, job'[t].before, job'[t].started,
                             VerdictOf(t)', invoice'[t].number # 0)
    BY <2>1, <2>2, <1>1, <1>3, <1>4, <1>10, <1>12
       DEF Lifecycle!Consistent, Lifecycle!None, Lifecycle!Working, NoStatus, CopyCurrent
  <2> QED
    BY <2>1, <2>3, <1>1, <1>4, <1>10 DEF Lifecycle!Agreement
<1> QED
  BY <1>1, <1>6, <1>7, <1>11, <1>13, <1>14, OrderlyWrite

\* The claim: the decision is made, the lifecycle still waits.
LEMMA OrderlyClaim ==
  ASSUME Orderly, TypeOK, TypeOK', OrderlyInv, NEW r \in Requests, DecideClaims(r)
  PROVE  OrderlyInv' /\ LifecycleStep
<1> PICK t \in Jobs : t = target[r]
  BY DEF TypeOK
<1>1. /\ pc[r] = "claim" /\ Active(r) /\ estimate[t].status = "PENDING"
      /\ UNCHANGED <<op, target, saw, dto, job, invoice>>
      /\ \A q \in Requests \ {r} : pc'[q] = pc[q]
  BY DEF DecideClaims, Claimable, Goto, TypeOK, Active
<1>2. /\ op[r] \in Decisions /\ CopyCurrent(saw[r], job[t])
      /\ saw[r].lines = estimate[t].lines
      /\ saw[r].invoiced = (invoice[t].number # 0)
  BY <1>1 DEF OrderlyInv, Current, StepsInOrder, ClaimCurrent
<1>3. pc'[r] = IF op[r] = "decline" THEN "release"
               ELSE IF saw[r].invoiced THEN "clearBill" ELSE "number"
  BY DEF DecideClaims, Goto, TypeOK
<1>4. /\ \A j \in Jobs \ {t} : estimate'[j] = estimate[j]
      /\ estimate'[t].lines = estimate[t].lines
      /\ estimate'[t].status = IF op[r] = "approve" THEN "APPROVED" ELSE "DECLINED"
  BY DEF DecideClaims, TypeOK, EstimateRow
<1>5. \A q \in Requests \ {r} : pc[q] \in RulingSteps => target[q] # t
  BY <1>1 DEF OrderlyInv, Current, RulingCurrent
<1>6. VerdictOf(t) = "pending"
  BY <1>1 DEF VerdictOf, VerdictFor
<1>7. job[t].status = "REVIEW" /\ job[t].before # NoStatus
  BY <1>6, NoStatusIsNone DEF OrderlyInv, Lifecycle!Agreement, Lifecycle!Consistent
<1>8. /\ pc'[r] \in RulingSteps
      /\ pc'[r] \in BillSteps => op[r] = "approve"
      /\ pc'[r] = "release" <=> op[r] = "decline"
  BY <1>2, <1>3 DEF RulingSteps, BillSteps, Decisions
<1>9. ASSUME NEW q \in Requests
      PROVE  Current(q)'
  <2>1. CASE q = r
    <3>1. StepsInOrder(q)'
      BY <2>1, <1>1, <1>2, <1>3 DEF StepsInOrder, UpdateSteps, ParkSteps, BillSteps, Decisions
    <3>2. UpdateCurrent(q)' /\ ParkCurrent(q)' /\ ClaimCurrent(q)'
      BY <2>1, <1>3 DEF UpdateCurrent, ParkCurrent, ClaimCurrent, ParkSteps
    <3>3. RulingCurrent(q)'
      <4>1. /\ pc'[r] = "clearBill" => invoice[t].number # 0
            /\ pc'[r] = "number" => invoice[t].number = 0
            /\ pc'[r] \notin {"refresh", "bill"}
        BY <1>2, <1>3
      <4>2. CopyCurrent(saw[r], job[t])'
        BY <1>1, <1>2 DEF CopyCurrent
      <4>3. saw'[r].status = "REVIEW" /\ saw'[r].before # NoStatus
        BY <1>1, <1>2, <1>7 DEF CopyCurrent
      <4>4. estimate'[t].status = IF pc'[r] = "release" THEN "DECLINED" ELSE "APPROVED"
        BY <1>2, <1>4, <1>8 DEF Decisions
      <4>5. estimate'[t].lines = saw'[r].lines
        BY <1>1, <1>2, <1>4
      <4>6. target'[q] = t
        BY <2>1, <1>1
      <4> QED
        BY <2>1, <4>1, <4>2, <4>3, <4>4, <4>5, <4>6, <1>1 DEF RulingCurrent
    <3> QED
      BY <3>1, <3>2, <3>3 DEF Current
  <2>2. CASE q # r
    <3>1. /\ pc'[q] = pc[q] /\ Current(q)
          /\ target[q] \in Jobs
      BY <2>2, <1>1 DEF OrderlyInv, TypeOK
    <3>2. StepsInOrder(q)' /\ UpdateCurrent(q)' /\ ParkCurrent(q)'
      BY <3>1, <1>1 DEF Current, StepsInOrder, UpdateCurrent, ParkCurrent
    <3>3. ClaimCurrent(q)'
      BY <3>1, <1>1, <1>4 DEF Current, ClaimCurrent
    <3>4. RulingCurrent(q)'
      BY <3>1, <2>2, <1>1, <1>4, <1>5 DEF Current, RulingCurrent, CanBill, Issued
    <3> QED
      BY <3>2, <3>3, <3>4 DEF Current
  <2> QED
    BY <2>1, <2>2
<1>10. OneRuling'
  BY <1>1, <1>5 DEF OrderlyInv, OneRuling
<1>11. Deciding(t)'
  BY <1>1, <1>8 DEF Deciding, RulingSteps
<1>12. ASSUME NEW j \in Jobs \ {t}
       PROVE  Deciding(j)' <=> Deciding(j)
  BY <1>1 DEF Deciding
<1>13. \A j \in Jobs : VerdictOf(j)' = VerdictOf(j)
  BY <1>4, <1>6, <1>11, <1>12 DEF VerdictOf
<1>14. ApprovedIsBilled'
  BY <1>1, <1>4, <1>11, <1>12 DEF OrderlyInv, ApprovedIsBilled
<1>15. LifecycleStep
  BY <1>1, <1>13 DEF LifecycleStep, Lifecycle!vars
<1>16. Lifecycle!Agreement'
  BY <1>1, <1>13 DEF OrderlyInv, Lifecycle!Agreement
<1> QED
  BY <1>1, <1>9, <1>10, <1>14, <1>15, <1>16, OrderlyWrite

\* An approver looks for the lines to delete, or for a number, before it bills.
LEMMA OrderlyNote ==
  ASSUME Orderly, TypeOK, TypeOK', OrderlyInv, NEW r \in Requests,
         RefreshClears(r) \/ ApproveNumbers(r)
  PROVE  OrderlyInv' /\ LifecycleStep
<1>1. /\ pc[r] \in {"clearBill", "number"} /\ Active(r)
      /\ pc'[r] = IF pc[r] = "number" THEN "bill" ELSE "refresh"
      /\ UNCHANGED <<op, target, dto, job, estimate, invoice>>
      /\ \A q \in Requests \ {r} : pc'[q] = pc[q] /\ saw'[q] = saw[q]
  BY DEF RefreshClears, ApproveNumbers, Goto, TypeOK, Active, tables
<1>2. /\ saw'[r].status = saw[r].status /\ saw'[r].before = saw[r].before
      /\ saw'[r].started = saw[r].started /\ saw'[r].lines = saw[r].lines
      /\ pc[r] = "clearBill" => saw'[r].doomed = invoice[target[r]].lines
      /\ pc[r] = "number" => saw'[r].number # 0 /\ saw'[r].number \notin Issued
  <2>1. CASE RefreshClears(r)
    BY <2>1 DEF RefreshClears, TypeOK, Snapshot
  <2>2. CASE ApproveNumbers(r)
    <3>1. PICK n \in 1 .. (2 * Cardinality(Jobs) + 1) :
            IsNextNumber(n) /\ saw' = [saw EXCEPT ![r] = [@ EXCEPT !.number = n]]
      BY <2>2 DEF ApproveNumbers
    <3>2. n # 0 /\ n \notin Issued
      BY <3>1 DEF IsNextNumber
    <3>3. pc[r] = "number"
      BY <2>2 DEF ApproveNumbers
    <3> QED
      BY <3>1, <3>2, <3>3 DEF TypeOK, Snapshot
  <2> QED
    BY <2>1, <2>2
<1>3. Current(r)'
  <2>1. Current(r) /\ pc[r] \in RulingSteps
    BY <1>1 DEF OrderlyInv, RulingSteps, BillSteps
  <2>2. StepsInOrder(r)'
    BY <2>1, <1>1 DEF Current, StepsInOrder, UpdateSteps, ParkSteps, BillSteps
  <2>3. UpdateCurrent(r)' /\ ParkCurrent(r)' /\ ClaimCurrent(r)'
    BY <1>1 DEF UpdateCurrent, ParkCurrent, ClaimCurrent, ParkSteps
  <2>4. RulingCurrent(r)'
    BY <2>1, <1>1, <1>2 DEF Current, RulingCurrent, CopyCurrent, CanBill, Issued
  <2> QED
    BY <2>2, <2>3, <2>4 DEF Current
<1>4. InCompany'
  BY <1>1, SameCompany
<1> QED
  BY <1>1, <1>3, <1>4, OrderlyQuiet DEF RulingSteps, BillSteps

\* A request arrives, and finds only company it may have.
LEMMA OrderlyArrival ==
  ASSUME Orderly, TypeOK, TypeOK', OrderlyInv, NEW r \in Requests, Arrival(r)
  PROVE  OrderlyInv' /\ LifecycleStep
<1>1. /\ pc[r] = "idle" /\ UNCHANGED <<job, estimate, invoice>>
      /\ \A q \in Requests \ {r} : /\ pc'[q] = pc[q] /\ op'[q] = op[q] /\ target'[q] = target[q]
                                    /\ saw'[q] = saw[q] /\ dto'[q] = dto[q]
  BY DEF Arrival, UpdateReads, SubmitReads, DecideReads, MayArrive, Arrive, Goto, TypeOK, tables
<1>2. \A q \in Requests \ {r} : Active(q) => <<op[q], op'[r]>> \in Overlap
  BY DEF Arrival, UpdateReads, SubmitReads, DecideReads, MayArrive, Arrive, TypeOK
<1>3. InCompany'
  BY <1>1, <1>2 DEF OrderlyInv, InCompany, Active
<1>4. pc'[r] \notin RulingSteps /\ Current(r)'
  <2>1. CASE UpdateReads(r)
    <3> PICK j \in Jobs, u \in Users, d \in PatchDto :
          /\ MoveAllowed(d, CopyOf(j))
          /\ Arrive(r, "update", j, d)
          /\ saw' = [saw EXCEPT ![r] = CopyOf(j)]
          /\ Goto(r, IF d.tech \in Users THEN "technician" ELSE AfterLookup(d, CopyOf(j)))
      BY <2>1 DEF UpdateReads
    <3>1. /\ target'[r] = j /\ dto'[r] = d /\ saw'[r] = CopyOf(j) /\ op'[r] = "update"
          /\ pc'[r] \in {"technician", "photos", "write"}
      BY DEF Arrive, Goto, AfterLookup, TypeOK
    <3>2. UpdateCurrent(r)'
      BY <3>1, <1>1 DEF UpdateCurrent, CopyCurrent, CopyOf
    <3> QED
      BY <3>1, <3>2 DEF Current, StepsInOrder, ParkCurrent, ClaimCurrent, RulingCurrent,
         UpdateSteps, ParkSteps, BillSteps, RulingSteps
  <2>2. CASE SubmitReads(r)
    <3> PICK j \in Jobs : /\ job[j].status # "DELIVERED"
                          /\ Arrive(r, "submit", j, NoDto)
                          /\ saw' = [saw EXCEPT ![r] = CopyOf(j)]
      BY <2>2 DEF SubmitReads
    <3>1. target'[r] = j /\ saw'[r].status = job[j].status /\ op'[r] = "submit"
      BY DEF Arrive, TypeOK, CopyOf
    <3>2. pc'[r] = "find"
      BY <2>2 DEF SubmitReads, Goto, TypeOK
    <3> QED
      BY <3>1, <3>2, <1>1 DEF Current, StepsInOrder, UpdateCurrent, ParkCurrent, ClaimCurrent,
         RulingCurrent, UpdateSteps, ParkSteps, BillSteps, RulingSteps
  <2>3. ASSUME NEW c \in Decisions, DecideReads(r, c)
        PROVE  pc'[r] \notin RulingSteps /\ Current(r)'
    <3> PICK j \in Jobs : Arrive(r, c, j, NoDto) /\ saw' = [saw EXCEPT ![r] = CopyOfEstimate(j)]
      BY <2>3 DEF DecideReads
    <3>1. target'[r] = j /\ saw'[r] = CopyOfEstimate(j) /\ op'[r] = c
      BY DEF Arrive, TypeOK
    <3>2. pc'[r] = "claim"
      BY <2>3 DEF DecideReads, Goto, TypeOK
    <3>3. ClaimCurrent(r)'
      BY <3>1, <1>1 DEF ClaimCurrent, CopyCurrent, CopyOfEstimate
    <3> QED
      BY <3>1, <3>2, <3>3 DEF Current, StepsInOrder, UpdateCurrent, ParkCurrent, RulingCurrent,
         UpdateSteps, ParkSteps, BillSteps, RulingSteps
  <2> QED
    BY <2>1, <2>2, <2>3 DEF Arrival, Decisions
<1> QED
  BY <1>1, <1>3, <1>4, OrderlyQuiet DEF RulingSteps, BillSteps

\* The steps of update().
LEMMA OrderlyUpdate ==
  ASSUME Orderly, TypeOK, TypeOK', OrderlyInv, NEW r \in Requests, UpdateStep(r)
  PROVE  OrderlyInv' /\ LifecycleStep
<1>1. pc[r] \in UpdateSteps => Active(r) /\ pc[r] \notin RulingSteps
  BY DEF UpdateSteps, Active, RulingSteps, BillSteps
<1>2. Current(r) /\ pc \in [Requests -> Steps]
  BY DEF OrderlyInv, TypeOK
<1>3. ASSUME NEW step \in UpdateSteps, pc[r] \in UpdateSteps, Advance(r, step),
             UNCHANGED <<job, estimate, invoice>>,
             step = "handover" \/ pc[r] \in {"technician", "photos"}
      PROVE  OrderlyInv' /\ LifecycleStep
  <2>1. pc'[r] = step /\ UNCHANGED <<op, target, saw, dto>>
    BY <1>2, <1>3 DEF Advance, Goto
  <2>2. UpdateCurrent(r)'
    BY <1>2, <1>3, <2>1 DEF Current, UpdateCurrent, CopyCurrent
  <2>3. Current(r)'
    BY <1>2, <1>3, <2>1, <2>2 DEF Current, StepsInOrder, ParkCurrent, ClaimCurrent, RulingCurrent,
       UpdateSteps, ParkSteps, BillSteps, RulingSteps
  <2>4. step \notin RulingSteps
    BY DEF UpdateSteps, RulingSteps, BillSteps
  <2> QED
    BY <1>1, <1>3, <2>3, <2>4, OrderlyAdvance
<1>4. CASE TechnicianFound(r)
  <2>1. AfterLookup(dto[r], saw[r]) \in UpdateSteps
    BY DEF AfterLookup, UpdateSteps
  <2> QED
    BY <1>3, <1>4, <2>1 DEF TechnicianFound, tables, UpdateSteps
<1>5. CASE DeliveryAllowed(r)
  BY <1>3, <1>5 DEF DeliveryAllowed, tables, UpdateSteps
<1>6. CASE TechnicianMissing(r) \/ DeliveryRefused(r) \/ HandoverAnnounces(r)
  BY <1>1, <1>6, OrderlyReturn
     DEF TechnicianMissing, DeliveryRefused, HandoverAnnounces, tables, UpdateSteps
<1>7. CASE UpdateAnnounces(r)
  <2>1. /\ pc[r] = "announce" /\ UNCHANGED <<job, estimate, invoice>>
        /\ Advance(r, "handover") \/ Return(r)
    BY <1>7 DEF UpdateAnnounces
  <2> QED
    BY <1>1, <1>3, <2>1, OrderlyReturn DEF UpdateSteps
<1> QED
  BY <1>4, <1>5, <1>6, <1>7, OrderlyPatch DEF UpdateStep

\* The steps of submit().
LEMMA OrderlySubmit ==
  ASSUME Orderly, TypeOK, TypeOK', OrderlyInv, NEW r \in Requests, SubmitStep(r)
  PROVE  OrderlyInv' /\ LifecycleStep
<1>1. pc[r] \in ParkSteps \cup {"submitted"} => Active(r) /\ pc[r] \notin RulingSteps
  BY DEF ParkSteps, Active, RulingSteps, BillSteps
<1>2. Current(r) /\ pc \in [Requests -> Steps] /\ saw \in [Requests -> Snapshot]
  BY DEF OrderlyInv, TypeOK
<1>3. CASE SubmitFinds(r)
  <2> PICK step \in {"create", "clear"} : Advance(r, step)
    BY <1>3 DEF SubmitFinds
  <2>1. /\ pc'[r] = step /\ UNCHANGED <<op, target, saw, dto, job, estimate, invoice>>
        /\ pc[r] = "find"
    BY <1>2, <1>3 DEF SubmitFinds, Advance, Goto, tables
  <2>2. Current(r)'
    BY <1>2, <2>1 DEF Current, StepsInOrder, UpdateCurrent, ParkCurrent, ClaimCurrent,
       RulingCurrent, UpdateSteps, ParkSteps, BillSteps, RulingSteps
  <2>3. step \notin RulingSteps
    BY DEF RulingSteps, BillSteps
  <2> QED
    BY <1>1, <2>1, <2>2, <2>3, OrderlyAdvance DEF ParkSteps
<1>4. CASE SubmitClears(r)
  <2>1. /\ pc[r] = "clear" /\ pc'[r] = "resubmit"
        /\ UNCHANGED <<op, target, dto, job, estimate, invoice>>
        /\ \A q \in Requests \ {r} : pc'[q] = pc[q] /\ saw'[q] = saw[q]
        /\ saw'[r].status = saw[r].status
    BY <1>2, <1>4 DEF SubmitClears, Goto, tables, Snapshot
  <2>2. Current(r)'
    BY <1>2, <2>1 DEF Current, StepsInOrder, UpdateCurrent, ParkCurrent, ClaimCurrent,
       RulingCurrent, UpdateSteps, ParkSteps, BillSteps, RulingSteps
  <2>3. InCompany'
    BY <1>1, <2>1, SameCompany DEF ParkSteps
  <2> QED
    BY <2>1, <2>2, <2>3, OrderlyQuiet DEF RulingSteps, BillSteps
<1>5. CASE SubmitCollides(r) \/ SubmitAnnounces(r)
  BY <1>1, <1>5, OrderlyReturn DEF SubmitCollides, SubmitAnnounces, tables, ParkSteps
<1> QED
  BY <1>3, <1>4, <1>5, OrderlyPark DEF SubmitStep

\* The steps of decide(): what it bills with can be billed.
LEMMA OrderlyDecide ==
  ASSUME Orderly, TypeOK, TypeOK', OrderlyInv, NEW r \in Requests, DecideStep(r)
  PROVE  OrderlyInv' /\ LifecycleStep
<1>1. RulingCurrent(r)
  BY DEF OrderlyInv, Current
<1>2. CASE DecideConflicts(r) \/ DecisionAnnounces(r)
  BY <1>2, OrderlyReturn
     DEF DecideConflicts, DecisionAnnounces, tables, Active, RulingSteps, BillSteps
<1>3. CASE BillCollides(r)
  BY <1>1, <1>3 DEF BillCollides, RulingCurrent, RulingSteps, BillSteps
<1>4. CASE DeclineReleases(r)
  BY <1>4, OrderlyRules DEF DeclineReleases, RulingSteps, BillSteps
<1>5. CASE ApproveRefreshes(r) \/ ApproveBills(r)
  <2>1. /\ pc[r] \in {"refresh", "bill"} /\ Advance(r, "decided") /\ UNCHANGED estimate
        /\ job' = [job EXCEPT ![target[r]] = Released(@, saw[r])]
        /\ \A j \in Jobs \ {target[r]} : invoice'[j] = invoice[j]
    BY <1>5 DEF ApproveRefreshes, ApproveBills, TypeOK
  <2>2. invoice'[target[r]].number # 0 /\ invoice'[target[r]].lines = estimate[target[r]].lines
    <3>1. CASE ApproveRefreshes(r)
      <4>1. invoice[target[r]].number # 0 /\ saw[r].doomed = invoice[target[r]].lines
        BY <3>1, <1>1 DEF ApproveRefreshes, RulingCurrent, RulingSteps, BillSteps
      <4>2. estimate[target[r]].lines = saw[r].lines
        BY <3>1, <1>1 DEF ApproveRefreshes, RulingCurrent, RulingSteps, BillSteps
      <4> QED
        BY <3>1, <4>1, <4>2 DEF ApproveRefreshes, TypeOK, InvoiceRow
    <3>2. CASE ApproveBills(r)
      <4>1. saw[r].number # 0 /\ estimate[target[r]].lines = saw[r].lines
        BY <3>2, <1>1 DEF ApproveBills, RulingCurrent, RulingSteps, BillSteps
      <4> QED
        BY <3>2, <4>1 DEF ApproveBills, TypeOK
    <3> QED
      BY <1>5, <3>1, <3>2
  <2>3. pc[r] \in RulingSteps /\ pc[r] # "release"
    BY <2>1 DEF RulingSteps, BillSteps
  <2> QED
    BY <2>1, <2>2, <2>3, OrderlyRules
<1> QED
  BY <1>2, <1>3, <1>4, <1>5, OrderlyClaim, OrderlyNote DEF DecideStep

\* Every step of an orderly system is a step of the lifecycle, or none.
LEMMA OrderlyStep ==
  ASSUME Orderly, TypeOK, TypeOK', OrderlyInv, [Next]_vars
  PROVE  OrderlyInv' /\ LifecycleStep
<1>1. CASE \/ UNCHANGED vars
           \/ \E j \in Jobs, side \in Sides : SaveDeliveryPhoto(j, side)
  <2>1. UNCHANGED <<job, estimate, invoice, pc, op, target, dto, saw>>
    BY <1>1 DEF vars, SaveDeliveryPhoto
  <2>2. InCompany'
    BY <2>1 DEF OrderlyInv, InCompany, Active
  <2>3. ASSUME NEW r \in Requests PROVE Current(r)'
    BY <2>1, SameCurrent DEF OrderlyInv, TypeOK
  <2>4. \A j \in Jobs : Deciding(j)' = Deciding(j)
    BY <2>1 DEF Deciding
  <2>5. \A j \in Jobs : VerdictOf(j)' = VerdictOf(j)
    BY <2>1, <2>4 DEF VerdictOf
  <2>6. OneRuling' /\ ApprovedIsBilled' /\ Lifecycle!Agreement'
    BY <2>1, <2>4, <2>5 DEF OrderlyInv, OneRuling, ApprovedIsBilled, Lifecycle!Agreement
  <2>7. LifecycleStep
    BY <2>1, <2>5 DEF LifecycleStep, Lifecycle!vars
  <2> QED
    BY <2>2, <2>3, <2>6, <2>7 DEF OrderlyInv
<1>2. ASSUME NEW r \in Requests, Crash(r)
      PROVE  FALSE
  BY <1>2 DEF Crash, Orderly
<1> QED
  BY <1>1, <1>2, OrderlyArrival, OrderlyUpdate, OrderlySubmit, OrderlyDecide
     DEF Next, Progress

\* The stages a job may be found at are points of the lifecycle.
LEMMA OrderlyInit == Init => OrderlyInv /\ Lifecycle!Init
<1> SUFFICES ASSUME Init PROVE OrderlyInv /\ Lifecycle!Init
  OBVIOUS
<1> PICK at \in [Jobs -> Stages] :
       /\ job      = [j \in Jobs |-> StageRow[at[j]]]
       /\ estimate = [j \in Jobs |-> StageEstimate[at[j]]]
       /\ invoice  = [j \in Jobs |-> StageInvoice[at[j]]]
  BY DEF Init
<1>1. \A r \in Requests : pc[r] = "idle"
  BY DEF Init
<1>2. \A j \in Jobs : ~Deciding(j)
  BY <1>1 DEF Deciding, BillSteps
<1>3. ASSUME NEW g \in StageNames
      PROVE  /\ Lifecycle!Consistent(StageRow[g].status, StageRow[g].before, StageRow[g].started,
                    VerdictFor[StageEstimate[g].status], StageInvoice[g].number # 0)
             /\ StageInvoice[g].number # 0 => StageInvoice[g].lines = StageEstimate[g].lines
  BY DEF StageNames, StageRow, StageEstimate, StageInvoice, Row, NoEstimate, Estimated,
         NoInvoice, VerdictFor, Lifecycle!Consistent, Lifecycle!None, Lifecycle!Working, NoStatus
<1>4. \A j \in Jobs : at[j] \in StageNames
  BY StagesAssumption
<1>5. \A j \in Jobs : VerdictOf(j) = VerdictFor[estimate[j].status]
  BY <1>2 DEF VerdictOf
<1>6. Lifecycle!Agreement
  BY <1>3, <1>4, <1>5 DEF Lifecycle!Agreement
<1>7. ApprovedIsBilled
  BY <1>3, <1>4 DEF ApprovedIsBilled
<1>8. \A r \in Requests : Current(r)
  BY <1>1 DEF Current, StepsInOrder, UpdateCurrent, ParkCurrent, ClaimCurrent, RulingCurrent,
     UpdateSteps, ParkSteps, BillSteps, RulingSteps
<1>9. InCompany /\ OneRuling
  BY <1>1 DEF InCompany, OneRuling, Active, RulingSteps, BillSteps
<1>10. Lifecycle!TypeOK
  BY InitType, ViewType
<1> QED
  BY <1>6, <1>7, <1>8, <1>9, <1>10 DEF OrderlyInv, Lifecycle!Init, Lifecycle!Agreement

\* Whoever writes a row has a current copy of it.
LEMMA OrderlyInvariant == ASSUME Orderly PROVE Spec => []OrderlyInv
<1>1. TypeOK /\ TypeOK' /\ OrderlyInv /\ [Next]_vars => OrderlyInv'
  BY OrderlyStep
<1> QED
  BY <1>1, OrderlyInit, TypeCorrect, PTL DEF Spec

(***************************************************************************)
(* update(), submit() and decide() together, where requests do not overlap *)
(* except decisions and resubmissions, and no handler dies: seen through   *)
(* the tables, every handler takes one step of JobLifecycle.               *)
(***************************************************************************)
THEOREM LifecycleImplemented ==
  ASSUME Orderly
  PROVE  Spec => ImplementsLifecycle
<1>1. TypeOK /\ TypeOK' /\ OrderlyInv /\ [Next]_vars => [Lifecycle!Next]_(Lifecycle!vars)
  BY OrderlyStep DEF LifecycleStep
<1>2. Init => Lifecycle!Init
  BY OrderlyInit
<1> QED
  BY <1>1, <1>2, OrderlyInvariant, TypeCorrect, PTL
     DEF Spec, ImplementsLifecycle, Lifecycle!Spec

(***************************************************************************)
(* decide(): then an approved estimate is billed as it was approved, also  *)
(* after a resubmission refreshed the lines.                               *)
(***************************************************************************)
THEOREM BillsFollowApprovals ==
  ASSUME Orderly
  PROVE  Spec => []InvoiceFollowsApproval
<1>1. OrderlyInv => InvoiceFollowsApproval
  BY DEF OrderlyInv, ApprovedIsBilled, InvoiceFollowsApproval, Deciding, Active, BillSteps
<1> QED
  BY <1>1, OrderlyInvariant, PTL

(***************************************************************************)
(* jobs.service.ts, "DELIVERED is terminal": true of requests that do not  *)
(* overlap.                                                                *)
(***************************************************************************)
THEOREM DeliveredStays ==
  ASSUME Orderly
  PROVE  Spec => DeliveredIsTerminal
<1>1. ASSUME TypeOK, OrderlyInv, LifecycleStep, NEW i \in Jobs, job[i].status = "DELIVERED"
      PROVE  job'[i].status = "DELIVERED"
  <2>1. ASSUME NEW j \in Jobs, NEW s \in Lifecycle!Status, Lifecycle!Move(j, s)
        PROVE  job'[i].status = "DELIVERED"
    BY <1>1, <2>1 DEF Lifecycle!Move, Lifecycle!PatchMoves, Lifecycle!Status
  <2>2. ASSUME NEW j \in Jobs, Lifecycle!Submit(j)
        PROVE  job'[i].status = "DELIVERED"
    BY <1>1, <2>2 DEF Lifecycle!Submit
  <2>3. ASSUME NEW j \in Jobs, Lifecycle!Release(j)
        PROVE  job'[i].status = "DELIVERED"
    BY <1>1, <2>3 DEF Lifecycle!Release, OrderlyInv, Lifecycle!Agreement, Lifecycle!Consistent
  <2>4. CASE UNCHANGED Lifecycle!vars
    BY <1>1, <2>4 DEF Lifecycle!vars
  <2> QED
    BY <1>1, <2>1, <2>2, <2>3, <2>4
       DEF LifecycleStep, Lifecycle!Next, Lifecycle!Approve, Lifecycle!Decline
<1>2. TypeOK /\ TypeOK' /\ OrderlyInv /\ [Next]_vars =>
        [\A j \in Jobs : job[j].status = "DELIVERED" => job'[j].status = "DELIVERED"]_job
  BY <1>1, OrderlyStep
<1> QED
  BY <1>2, OrderlyInvariant, TypeCorrect, PTL DEF Spec, DeliveredIsTerminal

--------------------------------------------------------------------------------
(***************************************************************************)
(* What the lifecycle promises, for every set of jobs, however it is       *)
(* implemented.                                                            *)
(***************************************************************************)
VARIABLES status, resume, started, verdict, billed

Promise == INSTANCE JobLifecycle

\* The agreement is inductive.
LEMMA AgreementStep ==
  ASSUME Promise!TypeOK, Promise!Agreement, [Promise!Next]_(Promise!vars)
  PROVE  Promise!TypeOK' /\ Promise!Agreement'
<1> USE DEF Promise!TypeOK, Promise!Agreement, Promise!Consistent, Promise!Status,
            Promise!Working, Promise!Verdict, Promise!None
<1>1. ASSUME NEW j \in Jobs, NEW s \in Promise!Status, Promise!Move(j, s)
      PROVE  Promise!TypeOK' /\ Promise!Agreement'
  <2>1. s \in Promise!Working /\ status[j] # "REVIEW" /\ (s = "IN_PROGRESS" \/ started[j])
    BY <1>1 DEF Promise!Move, Promise!PatchMoves
  <2> QED
    BY <1>1, <2>1 DEF Promise!Move
<1>2. ASSUME NEW j \in Jobs, Promise!Submit(j)
      PROVE  Promise!TypeOK' /\ Promise!Agreement'
  BY <1>2 DEF Promise!Submit
<1>3. ASSUME NEW j \in Jobs, Promise!Approve(j)
      PROVE  Promise!TypeOK' /\ Promise!Agreement'
  BY <1>3 DEF Promise!Approve, Promise!Release
<1>4. ASSUME NEW j \in Jobs, Promise!Decline(j)
      PROVE  Promise!TypeOK' /\ Promise!Agreement'
  BY <1>4 DEF Promise!Decline, Promise!Release
<1>5. CASE UNCHANGED Promise!vars
  BY <1>5 DEF Promise!vars
<1> QED
  BY <1>1, <1>2, <1>3, <1>4, <1>5 DEF Promise!Next

(***************************************************************************)
(* The lifecycle of a job and of its estimate agree: REVIEW goes with a    *)
(* pending estimate and a status to return to, work with a start, and an   *)
(* approval with an invoice (update(), submit(), decide()).                *)
(***************************************************************************)
THEOREM LifecyclesAgree == Promise!Spec => [](Promise!TypeOK /\ Promise!Agreement)
<1>1. Promise!Init => Promise!TypeOK /\ Promise!Agreement
  BY DEF Promise!Init, Promise!Agreement
<1>2. Promise!TypeOK /\ Promise!Agreement /\ [Promise!Next]_(Promise!vars)
        => Promise!TypeOK' /\ Promise!Agreement'
  BY AgreementStep
<1> QED
  BY <1>1, <1>2, PTL DEF Promise!Spec

(***************************************************************************)
(* Neither a PATCH nor the estimate flow leads out of DELIVERED            *)
(* (ALLOWED_TRANSITIONS, the guard of submit(), the claim of decide()).    *)
(***************************************************************************)
THEOREM HandoverFinal == Promise!Spec => Promise!DeliveredIsFinal
<1>1. Promise!TypeOK /\ Promise!Agreement /\ [Promise!Next]_(Promise!vars) =>
        [\A j \in Jobs : status[j] = "DELIVERED" => status'[j] = "DELIVERED"]_(Promise!vars)
  <2> SUFFICES ASSUME Promise!TypeOK, Promise!Agreement, Promise!Next,
                      NEW i \in Jobs, status[i] = "DELIVERED"
               PROVE  status'[i] = "DELIVERED"
    OBVIOUS
  <2>1. ASSUME NEW j \in Jobs, NEW s \in Promise!Status, Promise!Move(j, s)
        PROVE  status'[i] = "DELIVERED"
    BY <2>1 DEF Promise!Move, Promise!PatchMoves, Promise!TypeOK, Promise!Status
  <2>2. ASSUME NEW j \in Jobs, Promise!Submit(j)
        PROVE  status'[i] = "DELIVERED"
    BY <2>2 DEF Promise!Submit, Promise!TypeOK
  <2>3. ASSUME NEW j \in Jobs, Promise!Release(j)
        PROVE  status'[i] = "DELIVERED"
    BY <2>3 DEF Promise!Release, Promise!Agreement, Promise!Consistent, Promise!TypeOK
  <2> QED
    BY <2>1, <2>2, <2>3 DEF Promise!Next, Promise!Approve, Promise!Decline
<1> QED
  BY <1>1, LifecyclesAgree, PTL DEF Promise!Spec, Promise!DeliveredIsFinal
================================================================================
