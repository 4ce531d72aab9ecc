------------------------------ MODULE JobLifecycle -----------------------------
(***************************************************************************)
(* What the job cards promise, with every operation in one step: the       *)
(* lifecycle a PATCH may drive, the estimate that parks a job in REVIEW,   *)
(* and the decision that releases it (jobs.service.ts update(),            *)
(* estimates.service.ts submit() and decide(), the comments of model Job   *)
(* in schema.prisma).  JobWorkflow has the handlers statement by           *)
(* statement; LifecycleRefinement relates the two.                         *)
(***************************************************************************)
CONSTANT Jobs

None == "NULL"

Status  == {"NOT_STARTED", "REVIEW", "IN_PROGRESS", "AWAITING_PART",
            "COMPLETED", "DELIVERED"}
Working == {"IN_PROGRESS", "AWAITING_PART", "COMPLETED", "DELIVERED"}
Verdict == {"none", "pending", "approved", "declined"}

VARIABLES
  status,    \* the job's status
  resume,    \* statusBeforeReview
  started,   \* has work ever started?
  verdict,   \* how the job's estimate stands
  billed     \* is there an invoice?

vars == <<status, resume, started, verdict, billed>>

TypeOK ==
  /\ status  \in [Jobs -> Status]
  /\ resume  \in [Jobs -> Status \cup {None}]
  /\ started \in [Jobs -> BOOLEAN]
  /\ verdict \in [Jobs -> Verdict]
  /\ billed  \in [Jobs -> BOOLEAN]

(* A job starts fresh, or at a point the operations below lead to. *)
Consistent(s, b, st, v, bl) ==
  /\ s = "REVIEW" <=> v = "pending"
  /\ s = "REVIEW" <=> b # None
  /\ b \notin {"REVIEW", "DELIVERED"}
  /\ s \in Working \/ b \in Working <=> st
  /\ v = "approved" => bl
  /\ bl => v # "none"

Init ==
  /\ TypeOK
  /\ \A j \in Jobs : Consistent(status[j], resume[j], started[j], verdict[j], billed[j])

PatchMoves ==
  [s \in Status |->
     CASE s = "NOT_STARTED"   -> {"IN_PROGRESS"}
       [] s = "IN_PROGRESS"   -> {"AWAITING_PART", "COMPLETED"}
       [] s = "AWAITING_PART" -> {"IN_PROGRESS", "COMPLETED"}
       [] s = "COMPLETED"     -> {"IN_PROGRESS", "DELIVERED"}
       [] OTHER               -> {}]

\* PATCH /jobs/:id: update().
Move(j, s) ==
  /\ s \in PatchMoves[status[j]]
  /\ status'  = [status EXCEPT ![j] = s]
  /\ started' = [started EXCEPT ![j] = @ \/ s = "IN_PROGRESS"]
  /\ UNCHANGED <<resume, verdict, billed>>

\* POST /jobs/:id/estimate: submit().
Submit(j) ==
  /\ status[j] # "DELIVERED"
  /\ status'  = [status EXCEPT ![j] = "REVIEW"]
  /\ resume'  = [resume EXCEPT ![j] = IF status[j] = "REVIEW" THEN @ ELSE status[j]]
  /\ verdict' = [verdict EXCEPT ![j] = "pending"]
  /\ UNCHANGED <<started, billed>>

\* POST /approvals/:id/decision: decide().
Release(j) ==
  /\ verdict[j] = "pending"
  /\ status' = [status EXCEPT ![j] = resume[j]]
  /\ resume' = [resume EXCEPT ![j] = None]
  /\ UNCHANGED started

Approve(j) ==
  /\ Release(j)
  /\ verdict' = [verdict EXCEPT ![j] = "approved"]
  /\ billed'  = [billed EXCEPT ![j] = TRUE]

Decline(j) ==
  /\ Release(j)
  /\ verdict' = [verdict EXCEPT ![j] = "declined"]
  /\ UNCHANGED billed

Next == \E j \in Jobs :
  \/ \E s \in Status : Move(j, s)
  \/ Submit(j) \/ Approve(j) \/ Decline(j)

Spec == Init /\ [][Next]_vars
--------------------------------------------------------------------------------
(***************************************************************************)
(* The lifecycle of a job and the life of its estimate agree: a job is in  *)
(* REVIEW exactly while its estimate awaits a decision, it remembers the   *)
(* status to restore exactly then, it has a start exactly if work happened *)
(* before it was parked or since, and an approved estimate has been billed.*)
(***************************************************************************)
Agreement == \A j \in Jobs :
  Consistent(status[j], resume[j], started[j], verdict[j], billed[j])

(***************************************************************************)
(* A vehicle that was handed over stays handed over: neither a PATCH nor   *)
(* the estimate flow leads out of DELIVERED.                               *)
(***************************************************************************)
DeliveredIsFinal ==
  [][\A j \in Jobs : status[j] = "DELIVERED" => status'[j] = "DELIVERED"]_vars
================================================================================
