------------------------------ MODULE JobWorkflow ------------------------------
(***************************************************************************)
(* The life of a job card: jobs.service.ts update() and                    *)
(* saveDeliveryPhoto(), estimates.service.ts submit() and decide().        *)
(*                                                                         *)
(* Every HTTP request runs as one asynchronous handler.  An await on the   *)
(* database lets other handlers (of this process or of another instance)   *)
(* run, so an action here is one statement or one $transaction of the      *)
(* handler together with the code up to the next await.  What a handler    *)
(* read earlier it keeps in a local copy (saw), and its later writes use   *)
(* that copy.  A request that is refused on its first read changes nothing *)
(* and is not a step.                                                      *)
(***************************************************************************)
EXTENDS Integers, FiniteSets

CONSTANTS
  Jobs,       \* the job cards of one workshop
  Requests,   \* the requests served in a behaviour; each is served once
  Seed,       \* the submission an estimate present at the start came from
  Sides,      \* COMPLETION_SIDES: the walk-around photos a hand-over needs
  Techs,      \* users with role TECH
  Office,     \* users with role MANAGER or ADMIN
  Assignees,  \* the techId values a PATCH body may carry
  Stages,     \* where the jobs may stand at the start
  Overlap,    \* the pairs of operations that may be in flight together
  StampOf,    \* the millisecond at which a submission is dated (createdAt)
  Crashes     \* may a handler die half way (restart, lost connection)?

NoStatus == "NULL"
Keep     == "undefined"
Nobody   == "nobody"
NoSub    == "none"

Status       == {"NOT_STARTED", "REVIEW", "IN_PROGRESS", "AWAITING_PART",
                 "COMPLETED", "DELIVERED"}
Working      == {"IN_PROGRESS", "AWAITING_PART", "COMPLETED", "DELIVERED"}
PatchStatus  == {"IN_PROGRESS", "AWAITING_PART", "COMPLETED", "DELIVERED"}
Ops          == {"update", "submit", "approve", "decline"}
Users        == Techs \cup Office
Submissions  == Requests \cup {Seed}

StageNames   == {"fresh", "started", "completed", "inReview", "resubmitted",
                 "billed"}

ASSUME JobsAssumption    == Jobs # {} /\ IsFiniteSet(Jobs)
ASSUME UsersAssumption   == /\ Nobody \notin Users /\ Keep \notin Users
                            /\ Techs \cap Office = {}
                            /\ Assignees \subseteq Users \cup {Nobody}
ASSUME StagesAssumption  == Stages \subseteq StageNames
ASSUME StampAssumption   == StampOf \in [Submissions -> Nat]
ASSUME SubAssumption     == Seed \notin Requests /\ NoSub \notin Submissions
ASSUME OverlapAssumption == Overlap \subseteq Ops \X Ops
ASSUME CrashAssumption   == Crashes \in BOOLEAN

(* jobs.service.ts: the moves a PATCH may make. *)
ALLOWED_TRANSITIONS ==
  [s \in Status |->
     CASE s = "NOT_STARTED"   -> {"IN_PROGRESS"}
       [] s = "IN_PROGRESS"   -> {"AWAITING_PART", "COMPLETED"}
       [] s = "AWAITING_PART" -> {"IN_PROGRESS", "COMPLETED"}
       [] s = "COMPLETED"     -> {"IN_PROGRESS", "DELIVERED"}
       [] OTHER               -> {}]

(***************************************************************************)
(* Tables of the database.                                                 *)
(***************************************************************************)
JobRow == [status: Status, before: Status \cup {NoStatus}, started: BOOLEAN,
           delivered: BOOLEAN, note: BOOLEAN, tech: Users \cup {Nobody}]

\* status "NONE": the job has no estimate row.  lines: the submissions whose
\* line items are in the table for this estimate.
EstimateRow == [status: {"NONE", "PENDING", "APPROVED", "DECLINED"},
                sub: Submissions \cup {NoSub}, lines: SUBSET Submissions]

\* number 0: the job has no invoice row.
InvoiceRow == [number: Nat, lines: SUBSET Submissions]

TimelineKind == {"work_started", "status_change", "delivered",
                 "estimate_submitted", "approved", "declined"}

VARIABLES
  job,        \* table Job
  photos,     \* table DeliveryPhoto: the sides photographed
  estimate,   \* tables Estimate and EstimateLine
  invoice,    \* tables Invoice and InvoiceLine
  timeline,   \* table JobCardEvent: which request wrote which kind of line
  pc,         \* where a request's handler stands
  op,         \* what the request asks for
  target,     \* the job it names
  dto,        \* the body of a PATCH
  saw,        \* the handler's local copies of what it read
  ruling      \* history: the submission a claim hit, the lines its handler had read

tables == <<job, photos, estimate, invoice, timeline>>
vars   == <<job, photos, estimate, invoice, timeline, pc, op, target, dto, saw,
            ruling>>

PatchDto == [status: PatchStatus \cup {Keep}, tech: Assignees \cup {Keep},
             note: BOOLEAN]
NoDto    == [status |-> Keep, tech |-> Keep, note |-> FALSE]

Snapshot == [status: Status, before: Status \cup {NoStatus}, started: BOOLEAN,
             sub: Submissions \cup {NoSub}, lines: SUBSET Submissions,
             invoiced: BOOLEAN, doomed: SUBSET Submissions, number: Nat]
Nothing  == [status |-> "NOT_STARTED", before |-> NoStatus, started |-> FALSE,
             sub |-> NoSub, lines |-> {}, invoiced |-> FALSE, doomed |-> {},
             number |-> 0]

Ruling   == [choice: Ops \cup {"none"}, hit: Submissions \cup {NoSub},
             lines: SUBSET Submissions]
NoRuling == [choice |-> "none", hit |-> NoSub, lines |-> {}]

Steps == {"idle", "technician", "photos", "write", "announce", "handover",
          "find", "clear", "resubmit", "create", "submitted",
          "claim", "release", "clearBill", "refresh", "number", "bill",
          "decided", "done"}

TypeOK ==
  /\ job      \in [Jobs -> JobRow]
  /\ photos   \in [Jobs -> SUBSET Sides]
  /\ estimate \in [Jobs -> EstimateRow]
  /\ invoice  \in [Jobs -> InvoiceRow]
  /\ timeline \in [Jobs -> SUBSET (Requests \X TimelineKind)]
  /\ pc       \in [Requests -> Steps]
  /\ op       \in [Requests -> Ops \cup {"none"}]
  /\ target   \in [Requests -> Jobs]
  /\ dto      \in [Requests -> PatchDto]
  /\ saw      \in [Requests -> Snapshot]
  /\ ruling   \in [Requests -> Ruling]

(***************************************************************************)
(* Where a job may stand at the start: the stages of the demo data         *)
(* (prisma/seed.ts) and of a card whose creation stopped before its first  *)
(* estimate was stored.                                                    *)
(***************************************************************************)
Row(s, b, st) == [status |-> s, before |-> b, started |-> st,
                  delivered |-> FALSE, note |-> FALSE, tech |-> Nobody]
NoEstimate    == [status |-> "NONE", sub |-> NoSub, lines |-> {}]
Estimated(s)  == [status |-> s, sub |-> Seed, lines |-> {Seed}]
NoInvoice     == [number |-> 0, lines |-> {}]

StageRow == [g \in StageNames |->
  CASE g = "fresh"       -> Row("NOT_STARTED", NoStatus, FALSE)
    [] g = "started"     -> Row("IN_PROGRESS", NoStatus, TRUE)
    [] g = "inReview"    -> Row("REVIEW", "NOT_STARTED", FALSE)
    [] g = "resubmitted" -> Row("REVIEW", "AWAITING_PART", TRUE)
    [] OTHER             -> Row("COMPLETED", NoStatus, TRUE)]

StageEstimate == [g \in StageNames |->
  CASE g \in {"inReview", "resubmitted"} -> Estimated("PENDING")
    [] g = "billed"                      -> Estimated("APPROVED")
    [] OTHER                             -> NoEstimate]

StageInvoice == [g \in StageNames |->
  IF g = "billed" THEN [number |-> 1, lines |-> {Seed}] ELSE NoInvoice]

Init ==
  /\ \E at \in [Jobs -> Stages] :
       /\ \A i, j \in Jobs : at[i] = "billed" /\ at[j] = "billed" => i = j
       /\ job      = [j \in Jobs |-> StageRow[at[j]]]
       /\ estimate = [j \in Jobs |-> StageEstimate[at[j]]]
       /\ invoice  = [j \in Jobs |-> StageInvoice[at[j]]]
  /\ photos   = [j \in Jobs |-> {}]
  /\ timeline = [j \in Jobs |-> {}]
  /\ pc       = [r \in Requests |-> "idle"]
  /\ op       = [r \in Requests |-> "none"]
  /\ target   = [r \in Requests |-> CHOOSE j \in Jobs : TRUE]   \* not yet set
  /\ dto      = [r \in Requests |-> NoDto]
  /\ saw      = [r \in Requests |-> Nothing]
  /\ ruling   = [r \in Requests |-> NoRuling]

--------------------------------------------------------------------------------
(***************************************************************************)
(* Requests.                                                               *)
(***************************************************************************)
Active(r) == pc[r] \notin {"idle", "done"}

\* Bound: a request of kind o may arrive now (Overlap).
MayArrive(r, o) ==
  /\ pc[r] = "idle"
  /\ \A q \in Requests : Active(q) => <<op[q], o>> \in Overlap

Arrive(r, o, j, d) ==
  /\ op'     = [op EXCEPT ![r] = o]
  /\ target' = [target EXCEPT ![r] = j]
  /\ dto'    = [dto EXCEPT ![r] = d]

Goto(r, step) == pc' = [pc EXCEPT ![r] = step]

\* The handler ends, normally or with an error; its locals are gone.
Return(r) ==
  /\ Goto(r, "done")
  /\ dto' = [dto EXCEPT ![r] = NoDto]
  /\ saw' = [saw EXCEPT ![r] = Nothing]
  /\ UNCHANGED <<op, target, ruling>>

Advance(r, step) ==
  /\ Goto(r, step)
  /\ UNCHANGED <<op, target, dto, saw, ruling>>

\* A process restart, a lost database connection, an unhandled rejection: the
\* handler never runs again, what it has committed stays.
Crash(r) ==
  /\ Crashes
  /\ Active(r)
  /\ Return(r)
  /\ UNCHANGED tables

Log(r, kinds) ==
  timeline' = [timeline EXCEPT ![target[r]] = @ \cup ({r} \X kinds)]

\* resolveJob and the first read of submit(): a copy of the job's row.
CopyOf(j) == [status |-> job[j].status, before |-> job[j].before,
              started |-> job[j].started, sub |-> NoSub, lines |-> {},
              invoiced |-> FALSE, doomed |-> {}, number |-> 0]

\* The first read of decide(): the estimate with its job and its job's invoice.
CopyOfEstimate(j) == [status |-> job[j].status, before |-> job[j].before,
                      started |-> job[j].started, sub |-> estimate[j].sub,
                      lines |-> estimate[j].lines,
                      invoiced |-> (invoice[j].number # 0),
                      doomed |-> {}, number |-> 0]

--------------------------------------------------------------------------------
(***************************************************************************)
(* PATCH /jobs/:id: jobs.service.ts update().                              *)
(***************************************************************************)
MayAccess(u, j) == u \in Techs => job[j].tech = u

\* Re-sending the status the handler read is not a transition.
NewStatus(d, seen) == IF d.status = seen.status THEN Keep ELSE d.status

MoveAllowed(d, seen) ==
  NewStatus(d, seen) # Keep => NewStatus(d, seen) \in ALLOWED_TRANSITIONS[seen.status]

AfterLookup(d, seen) ==
  IF NewStatus(d, seen) = "DELIVERED" THEN "photos" ELSE "write"

UpdateReads(r) ==
  /\ MayArrive(r, "update")
  /\ \E j \in Jobs, u \in Users, d \in PatchDto :
       /\ d.status = Keep => d.tech # Keep
       /\ d.note => d.status = "DELIVERED"
       /\ MayAccess(u, j)
       /\ u \in Techs => d.tech = Keep
       /\ MoveAllowed(d, CopyOf(j))
       /\ Arrive(r, "update", j, d)
       /\ saw' = [saw EXCEPT ![r] = CopyOf(j)]
       /\ Goto(r, IF d.tech \in Users THEN "technician" ELSE AfterLookup(d, CopyOf(j)))
  /\ UNCHANGED <<tables, ruling>>

\* The technician exists in this workshop and is active ...
TechnicianFound(r) ==
  /\ pc[r] = "technician"
  /\ Advance(r, AfterLookup(dto[r], saw[r]))
  /\ UNCHANGED tables

\* ... or the request is answered with 404.
TechnicianMissing(r) ==
  /\ pc[r] = "technician"
  /\ Return(r)
  /\ UNCHANGED tables

\* Delivery needs all walk-around photos and a hand-off note.
\* Variant: any photo will do.
DeliveryAllowedWithSomePhotos(r) ==
  /\ pc[r] = "photos"
  /\ photos[target[r]] # {}
  /\ dto[r].note
  /\ Advance(r, "write")
  /\ UNCHANGED tables

DeliveryAllowed(r) ==
  /\ pc[r] = "photos"
  /\ photos[target[r]] = Sides
  /\ dto[r].note
  /\ Advance(r, "write")
  /\ UNCHANGED tables

DeliveryRefused(r) ==
  /\ pc[r] = "photos"
  /\ photos[target[r]] # Sides \/ ~dto[r].note
  /\ Return(r)
  /\ UNCHANGED tables

StartingNow(d, seen) == NewStatus(d, seen) = "IN_PROGRESS" /\ ~seen.started

\* The columns the update statement sets, computed from the local copy.
Patched(row, d, seen) ==
  LET new        == NewStatus(d, seen)
      delivering == new = "DELIVERED"
  IN  [row EXCEPT !.status    = IF new = Keep THEN @ ELSE new,
                  !.started   = IF StartingNow(d, seen) THEN TRUE ELSE @,
                  !.tech      = IF d.tech = Keep THEN @ ELSE d.tech,
                  !.delivered = IF delivering THEN TRUE ELSE @,
                  !.note      = IF delivering THEN d.note ELSE @]

UpdateWrites(r) ==
  /\ pc[r] = "write"
  /\ job' = [job EXCEPT ![target[r]] = Patched(@, dto[r], saw[r])]
  /\ Advance(r, "announce")
  /\ UNCHANGED <<photos, estimate, invoice, timeline>>

\* One timeline line for a transition; a delivery gets a second one.
UpdateAnnounces(r) ==
  LET new == NewStatus(dto[r], saw[r])
  IN  /\ pc[r] = "announce"
      /\ Log(r, IF new = Keep THEN {}
                ELSE IF StartingNow(dto[r], saw[r]) THEN {"work_started"}
                ELSE {"status_change"})
      /\ IF new = "DELIVERED" THEN Advance(r, "handover") ELSE Return(r)
      /\ UNCHANGED <<job, photos, estimate, invoice>>

HandoverAnnounces(r) ==
  /\ pc[r] = "handover"
  /\ Log(r, {"delivered"})
  /\ Return(r)
  /\ UNCHANGED <<job, photos, estimate, invoice>>

\* POST /jobs/:id/delivery-photos: an upsert of one side, at any time.
SaveDeliveryPhoto(j, side) ==
  /\ photos' = [photos EXCEPT ![j] = @ \cup {side}]
  /\ UNCHANGED <<job, estimate, invoice, timeline, pc, op, target, dto, saw, ruling>>

--------------------------------------------------------------------------------
(***************************************************************************)
(* POST /jobs/:id/estimate: estimates.service.ts submit().                 *)
(***************************************************************************)
SubmitReads(r) ==
  /\ MayArrive(r, "submit")
  /\ \E j \in Jobs :
       /\ job[j].status # "DELIVERED"
       /\ Arrive(r, "submit", j, NoDto)
       /\ saw' = [saw EXCEPT ![r] = CopyOf(j)]
  /\ Goto(r, "find")
  /\ UNCHANGED <<tables, ruling>>

SubmitFinds(r) ==
  /\ pc[r] = "find"
  /\ Advance(r, IF estimate[target[r]].status = "NONE" THEN "create" ELSE "clear")
  /\ UNCHANGED tables

\* Variant: a double submit overwrites the stamp.
ParkedAlways(row, seen) ==
  [row EXCEPT !.status = "REVIEW", !.before = seen.status]

\* parkInReview, built from the row read at the start.
Parked(row, seen) ==
  [row EXCEPT !.status = "REVIEW",
              !.before = IF seen.status = "REVIEW" THEN @ ELSE seen.status]

\* The first statement of the $transaction, deleteMany, sees the lines
\* committed when it starts (READ COMMITTED) ...
SubmitClears(r) ==
  /\ pc[r] = "clear"
  /\ saw' = [saw EXCEPT ![r] = [@ EXCEPT !.doomed = estimate[target[r]].lines]]
  /\ Goto(r, "resubmit")
  /\ UNCHANGED <<tables, op, target, dto, ruling>>

\* ... and the transaction commits the deletion, the new lines and the park.
SubmitReplaces(r) ==
  /\ pc[r] = "resubmit"
  /\ estimate' = [estimate EXCEPT ![target[r]] =
                    [status |-> "PENDING", sub |-> r,
                     lines |-> (@.lines \ saw[r].doomed) \cup {r}]]
  /\ job' = [job EXCEPT ![target[r]] = Parked(@, saw[r])]
  /\ Advance(r, "submitted")
  /\ UNCHANGED <<photos, invoice, timeline>>

SubmitCreates(r) ==
  /\ pc[r] = "create"
  /\ estimate[target[r]].status = "NONE"
  /\ estimate' = [estimate EXCEPT ![target[r]] =
                    [status |-> "PENDING", sub |-> r, lines |-> {r}]]
  /\ job' = [job EXCEPT ![target[r]] = Parked(@, saw[r])]
  /\ Advance(r, "submitted")
  /\ UNCHANGED <<photos, invoice, timeline>>

\* jobId is unique: a first submission that lost the race fails as a whole.
SubmitCollides(r) ==
  /\ pc[r] = "create"
  /\ estimate[target[r]].status # "NONE"
  /\ Return(r)
  /\ UNCHANGED tables

SubmitAnnounces(r) ==
  /\ pc[r] = "submitted"
  /\ Log(r, {"estimate_submitted"})
  /\ Return(r)
  /\ UNCHANGED <<job, photos, estimate, invoice>>

--------------------------------------------------------------------------------
(***************************************************************************)
(* POST /approvals/:id/decision: estimates.service.ts decide(), by a       *)
(* manager or an admin.                                                    *)
(***************************************************************************)
DecideReads(r, choice) ==
  /\ MayArrive(r, choice)
  /\ \E j \in Jobs :
       /\ estimate[j].status = "PENDING"
       /\ Arrive(r, choice, j, NoDto)
       /\ saw' = [saw EXCEPT ![r] = CopyOfEstimate(j)]
  /\ Goto(r, "claim")
  /\ UNCHANGED <<tables, ruling>>

\* Variants: a claim by createdAt only, and by status only.
ClaimableTwice(est, seen)    == StampOf[est.sub] = StampOf[seen.sub]
ClaimableAnyStamp(est, seen) == est.status = "PENDING"

\* What the claim's WHERE clause matches: still pending, same createdAt.
Claimable(est, seen) ==
  /\ est.status = "PENDING"
  /\ StampOf[est.sub] = StampOf[seen.sub]

DecideClaims(r) ==
  /\ pc[r] = "claim"
  /\ Claimable(estimate[target[r]], saw[r])
  /\ estimate' = [estimate EXCEPT ![target[r]].status =
                    IF op[r] = "approve" THEN "APPROVED" ELSE "DECLINED"]
  /\ ruling' = [ruling EXCEPT ![r] =
                  [choice |-> op[r], hit |-> estimate[target[r]].sub,
                   lines |-> saw[r].lines]]
  /\ Goto(r, IF op[r] = "decline" THEN "release"
             ELSE IF saw[r].invoiced THEN "clearBill" ELSE "number")
  /\ UNCHANGED <<job, photos, invoice, timeline, op, target, dto, saw>>

\* 409: already decided, or resubmitted since it was read.
DecideConflicts(r) ==
  /\ pc[r] = "claim"
  /\ ~Claimable(estimate[target[r]], saw[r])
  /\ Return(r)
  /\ UNCHANGED tables

\* Variants: no fallback for a missing stamp, and one that ignores startedAt.
ResumeStamp(seen)   == seen.before
ResumeWorking(seen) == IF seen.before # NoStatus THEN seen.before ELSE "IN_PROGRESS"

ResumeStatus(seen) ==
  IF seen.before # NoStatus THEN seen.before
  ELSE IF seen.started THEN "IN_PROGRESS" ELSE "NOT_STARTED"

\* Variants: the stamp stays behind, and the job stays parked.
ReleasedKeepingStamp(row, seen) ==
  [row EXCEPT !.status = IF seen.status = "REVIEW" THEN ResumeStatus(seen) ELSE @]
ReleasedStampOnly(row, seen) == [row EXCEPT !.before = NoStatus]

\* releaseJob, built from the row read with the estimate.
Released(row, seen) ==
  [row EXCEPT !.status = IF seen.status = "REVIEW" THEN ResumeStatus(seen) ELSE @,
              !.before = NoStatus]

DeclineReleases(r) ==
  /\ pc[r] = "release"
  /\ job' = [job EXCEPT ![target[r]] = Released(@, saw[r])]
  /\ Advance(r, "decided")
  /\ UNCHANGED <<photos, estimate, invoice, timeline>>

\* An invoice was there when the decision read: refresh its lines, again a
\* deletion of what is committed now ...
RefreshClears(r) ==
  /\ pc[r] = "clearBill"
  /\ saw' = [saw EXCEPT ![r] = [@ EXCEPT !.doomed = invoice[target[r]].lines]]
  /\ Goto(r, "refresh")
  /\ UNCHANGED <<tables, op, target, dto, ruling>>

\* Variant: the new lines are added to the old ones.
ApproveAppends(r) ==
  /\ pc[r] = "refresh"
  /\ invoice' = [invoice EXCEPT ![target[r]].lines = @ \cup saw[r].lines]
  /\ job' = [job EXCEPT ![target[r]] = Released(@, saw[r])]
  /\ Advance(r, "decided")
  /\ UNCHANGED <<photos, estimate, timeline>>

\* ... and the commit of the deletion, the new lines and the release.
ApproveRefreshes(r) ==
  /\ pc[r] = "refresh"
  /\ invoice' = [invoice EXCEPT ![target[r]].lines =
                   (@ \ saw[r].doomed) \cup saw[r].lines]
  /\ job' = [job EXCEPT ![target[r]] = Released(@, saw[r])]
  /\ Advance(r, "decided")
  /\ UNCHANGED <<photos, estimate, timeline>>

(***************************************************************************)
(* No invoice was there: take a number and create one.  nextInvoiceNumber  *)
(* counts the workshop's invoices and probes upwards for a free number;    *)
(* numbers here are counted from 1 instead of 2048.                        *)
(***************************************************************************)
Issued  == {invoice[j].number : j \in Jobs} \ {0}
Billed  == {j \in Jobs : invoice[j].number # 0}

IsNextNumber(n) ==
  /\ n > Cardinality(Billed)
  /\ n \notin Issued
  /\ \A m \in (Cardinality(Billed) + 1) .. (n - 1) : m \in Issued

\* Variant: the approval is announced before the bill is there.
ApproveAnnouncesFirst(r) ==
  /\ pc[r] = "number"
  /\ \E n \in 1 .. (2 * Cardinality(Jobs) + 1) :
       /\ IsNextNumber(n)
       /\ saw' = [saw EXCEPT ![r] = [@ EXCEPT !.number = n]]
  /\ Log(r, {"approved"})
  /\ Goto(r, "bill")
  /\ UNCHANGED <<job, photos, estimate, invoice, op, target, dto, ruling>>

ApproveNumbers(r) ==
  /\ pc[r] = "number"
  /\ \E n \in 1 .. (2 * Cardinality(Jobs) + 1) :
       /\ IsNextNumber(n)
       /\ saw' = [saw EXCEPT ![r] = [@ EXCEPT !.number = n]]
  /\ Goto(r, "bill")
  /\ UNCHANGED <<tables, op, target, dto, ruling>>

CanBill(r) == saw[r].number \notin Issued /\ invoice[target[r]].number = 0

\* Variant: bills the lines stored now instead of the lines approved.
ApproveBillsLatest(r) ==
  /\ pc[r] = "bill"
  /\ CanBill(r)
  /\ invoice' = [invoice EXCEPT ![target[r]] =
                   [number |-> saw[r].number, lines |-> estimate[target[r]].lines]]
  /\ job' = [job EXCEPT ![target[r]] = Released(@, saw[r])]
  /\ Advance(r, "decided")
  /\ UNCHANGED <<photos, estimate, timeline>>

ApproveBills(r) ==
  /\ pc[r] = "bill"
  /\ CanBill(r)
  /\ invoice' = [invoice EXCEPT ![target[r]] =
                   [number |-> saw[r].number, lines |-> saw[r].lines]]
  /\ job' = [job EXCEPT ![target[r]] = Released(@, saw[r])]
  /\ Advance(r, "decided")
  /\ UNCHANGED <<photos, estimate, timeline>>

\* number and jobId are unique: the transaction fails, the request ends with
\* an error, and nothing undoes the claim.
BillCollides(r) ==
  /\ pc[r] = "bill"
  /\ ~CanBill(r)
  /\ Return(r)
  /\ UNCHANGED tables

DecisionAnnounces(r) ==
  /\ pc[r] = "decided"
  /\ Log(r, {IF op[r] = "approve" THEN "approved" ELSE "declined"})
  /\ Return(r)
  /\ UNCHANGED <<job, photos, estimate, invoice>>

--------------------------------------------------------------------------------
Arrival(r) ==
  UpdateReads(r) \/ SubmitReads(r) \/ DecideReads(r, "approve") \/ DecideReads(r, "decline")

UpdateStep(r) ==
  \/ TechnicianFound(r) \/ TechnicianMissing(r)
  \/ DeliveryAllowed(r) \/ DeliveryRefused(r)
  \/ UpdateWrites(r) \/ UpdateAnnounces(r) \/ HandoverAnnounces(r)

SubmitStep(r) ==
  \/ SubmitFinds(r) \/ SubmitClears(r) \/ SubmitReplaces(r)
  \/ SubmitCreates(r) \/ SubmitCollides(r) \/ SubmitAnnounces(r)

DecideStep(r) ==
  \/ DecideClaims(r) \/ DecideConflicts(r) \/ DeclineReleases(r)
  \/ RefreshClears(r) \/ ApproveRefreshes(r)
  \/ ApproveNumbers(r) \/ ApproveBills(r) \/ BillCollides(r)
  \/ DecisionAnnounces(r)

Progress(r) == UpdateStep(r) \/ SubmitStep(r) \/ DecideStep(r)

Next ==
  \/ \E r \in Requests : Arrival(r) \/ Progress(r) \/ Crash(r)
  \/ \E j \in Jobs, side \in Sides : SaveDeliveryPhoto(j, side)

Spec == Init /\ [][Next]_vars

\* A handler that has started runs on: Node's event loop drops no callback and
\* every statement gets an answer.  Nobody is obliged to send a request.
FairSpec == Spec /\ \A r \in Requests : WF_vars(Progress(r))

--------------------------------------------------------------------------------
(***************************************************************************)
(* Safety, whatever overlaps and whichever handlers die.                   *)
(***************************************************************************)

(***************************************************************************)
(* A job whose status says work happened has startedAt set, and so has a   *)
(* job that will return to such a status after REVIEW: the start stamp is  *)
(* written by the PATCH that enters IN_PROGRESS and only from a copy that  *)
(* may be stale, while submit() and decide() move statuses around it.      *)
(***************************************************************************)
WorkImpliesStarted == \A j \in Jobs :
  job[j].status \in Working \/ job[j].before \in Working => job[j].started

(***************************************************************************)
(* A job is only ever DELIVERED with all walk-around photos and a hand-off *)
(* note on file, although the gate reads the photos before the write and   *)
(* other writes of the row come in between.                                *)
(***************************************************************************)
HandoverDocumented == \A j \in Jobs :
  job[j].status = "DELIVERED" \/ job[j].delivered =>
    /\ photos[j] = Sides
    /\ job[j].delivered
    /\ job[j].note

(***************************************************************************)
(* The status a decision restores is one from which work can go on: never  *)
(* REVIEW, where the job would stay locked with nothing left to decide,    *)
(* and never DELIVERED, which would skip the delivery gate.  submit()      *)
(* stores the status it read, which other requests may have changed since. *)
(***************************************************************************)
ResumesToOpenStage == \A j \in Jobs : job[j].before \notin {"REVIEW", "DELIVERED"}

(***************************************************************************)
(* No submission of an estimate is decided twice, however many approvers   *)
(* and resubmissions race (the claim in decide()).                         *)
(***************************************************************************)
DecidedOnce == \A q, r \in Requests :
  q # r /\ target[q] = target[r] /\ ruling[q].hit = ruling[r].hit => ruling[r].hit = NoSub

(***************************************************************************)
(* A decision stands for what its handler read: as long as no resubmission *)
(* replaces the estimate that was ruled on, the lines stored for it are    *)
(* the lines of the handler's copy, whatever was resubmitted between that  *)
(* read and the claim.  It takes a createdAt that no other submission has: *)
(* a resubmission of the same millisecond is ruled on unread.  (What the   *)
(* approver was shown is an earlier request, which decide() cannot see.)   *)
(***************************************************************************)
StampAlone(s) == \A t \in Submissions : t # s => StampOf[t] # StampOf[s]

RuledAsRead == \A r \in Requests : LET est == estimate[target[r]] IN
  ruling[r].hit = est.sub /\ est.sub # NoSub /\ StampAlone(est.sub) =>
    est.lines = ruling[r].lines

(***************************************************************************)
(* Whatever is billed was approved: each line of a job's invoice was in    *)
(* the copy of a handler that recorded an approval, for this job; nothing  *)
(* that was only declined or never decided is billed.  (The seed's lines   *)
(* may have been billed before the behaviour starts.)                      *)
(***************************************************************************)
ApprovedFor(j) == {r \in Requests : ruling[r].choice = "approve" /\ target[r] = j}

BillsOnlyApproved == \A j \in Jobs : \A s \in invoice[j].lines :
  \/ \E r \in ApprovedFor(j) : s \in ruling[r].lines
  \/ s = Seed /\ \A r \in Requests : target[r] = j => ruling[r].hit # Seed

(***************************************************************************)
(* Nothing is announced that is not on file.  A timeline line is a         *)
(* statement of its own, after the tables: when the transaction before it  *)
(* fails or its handler dies, the line is missing, but the timeline never  *)
(* tells of a start, a delivery, an estimate or a verdict that the tables  *)
(* do not have, whatever other requests write in between; and no two of    *)
(* its verdicts are on one submission.                                     *)
(***************************************************************************)
OnFile(r, kind, j) ==
  CASE kind = "work_started"       -> job[j].started
    [] kind = "delivered"          -> job[j].delivered
    [] kind = "estimate_submitted" -> estimate[j].status # "NONE"
    [] kind = "approved" -> target[r] = j /\ ruling[r].choice = "approve" /\ invoice[j].number # 0
    [] kind = "declined" -> target[r] = j /\ ruling[r].choice = "decline"
    [] OTHER             -> TRUE

Verdicts(j) == {r \in Requests : <<r, "approved">> \in timeline[j] \/ <<r, "declined">> \in timeline[j]}

AnnouncedIsStored == \A j \in Jobs :
  /\ \A r \in Requests, kind \in TimelineKind : <<r, kind>> \in timeline[j] => OnFile(r, kind, j)
  /\ \A q, r \in Verdicts(j) : q # r => ruling[q].hit # ruling[r].hit

--------------------------------------------------------------------------------
(***************************************************************************)
(* Why they hold.  What a handler remembers may be stale, but some of it   *)
(* cannot become false: a start is never taken back, photos are never      *)
(* removed, and what the handler checked on its copy stays checked.        *)
(***************************************************************************)
MemoryHolds(r) ==
  /\ saw[r].started => job[target[r]].started
  /\ saw[r].status \in Working \/ saw[r].before \in Working => saw[r].started
  /\ saw[r].before \notin {"REVIEW", "DELIVERED"}
  /\ pc[r] \in {"technician", "photos", "write"} => MoveAllowed(dto[r], saw[r])
  /\ pc[r] \in {"find", "clear", "resubmit", "create"} => saw[r].status # "DELIVERED"
  /\ pc[r] = "write" /\ NewStatus(dto[r], saw[r]) = "DELIVERED" =>
       photos[target[r]] = Sides /\ dto[r].note

StageInv ==
  /\ WorkImpliesStarted
  /\ HandoverDocumented
  /\ ResumesToOpenStage
  /\ \A r \in Requests : Active(r) => MemoryHolds(r)

Stored    == {"submitted", "done"}
BillSteps == {"clearBill", "refresh", "number", "bill"}

\* A submission is stored by the request it is named after, once.
SubmissionsStored == \A j \in Jobs :
  /\ estimate[j].sub \in Requests => pc[estimate[j].sub] \in Stored
  /\ estimate[j].status = "PENDING" => estimate[j].sub # NoSub

\* A handler has no ruling before it claims, and bills what its claim ruled.
RulingsInOrder == \A r \in Requests :
  /\ pc[r] \in {"idle", "claim"} => ruling[r] = NoRuling
  /\ pc[r] = "claim" => saw[r].sub # NoSub /\ op[r] \in {"approve", "decline"}
  /\ pc[r] \in BillSteps => ruling[r].choice = "approve" /\ ruling[r].lines = saw[r].lines

\* What was ruled on was stored, and is not pending any more.
RulingsSettle == \A r \in Requests : ruling[r].hit # NoSub =>
  /\ ruling[r].hit \in Requests => pc[ruling[r].hit] \in Stored
  /\ ~(estimate[target[r]].sub = ruling[r].hit /\ estimate[target[r]].status = "PENDING")

\* The seed's lines, once billed, were approved or are not pending.
SeedSettles == \A j \in Jobs : Seed \in invoice[j].lines =>
  \/ ~(estimate[j].sub = Seed /\ estimate[j].status = "PENDING")
  \/ \E r \in ApprovedFor(j) : Seed \in ruling[r].lines

\* A copy of an estimate about to be ruled on is of a submission that is stored,
\* and as long as that one is current, of its lines.
CopiesPinned == \A r \in Requests : pc[r] = "claim" =>
  /\ saw[r].sub \in Requests => pc[saw[r].sub] \in Stored
  /\ estimate[target[r]].sub = saw[r].sub => estimate[target[r]].lines = saw[r].lines

\* What a handler will announce is on file before it does.
AboutToTell(r) ==
  /\ pc[r] = "announce" /\ StartingNow(dto[r], saw[r]) => job[target[r]].started
  /\ pc[r] = "announce" /\ NewStatus(dto[r], saw[r]) = "DELIVERED" => job[target[r]].delivered
  /\ pc[r] = "handover"  => job[target[r]].delivered
  /\ pc[r] = "submitted" => estimate[target[r]].status # "NONE"
  /\ pc[r] = "claim" /\ saw[r].invoiced => invoice[target[r]].number # 0
  /\ pc[r] \in {"clearBill", "refresh"} => invoice[target[r]].number # 0
  /\ pc[r] = "bill"      => saw[r].number # 0
  /\ pc[r] \in BillSteps => op[r] = "approve"
  /\ pc[r] = "release"   => op[r] = "decline" /\ ruling[r].choice = "decline"
  /\ pc[r] = "decided"   =>
       /\ op[r] \in {"approve", "decline"} /\ ruling[r].choice = op[r]
       /\ op[r] = "approve" => invoice[target[r]].number # 0

TellingInv ==
  /\ AnnouncedIsStored
  /\ \A r \in Requests : AboutToTell(r) /\ (ruling[r].choice # "none" => ruling[r].hit # NoSub)

DecisionInv ==
  /\ SubmissionsStored
  /\ RulingsInOrder
  /\ RulingsSettle
  /\ SeedSettles
  /\ DecidedOnce
  /\ BillsOnlyApproved

--------------------------------------------------------------------------------
(***************************************************************************)
(* Progress, when no handler dies.                                         *)
(***************************************************************************)

(***************************************************************************)
(* A decision that was claimed takes effect: the job leaves REVIEW, and an *)
(* approved one has an invoice.                                            *)
(***************************************************************************)
DecisionTakesEffect == \A r \in Requests : \A j \in Jobs :
  Active(r) /\ ruling[r].choice # "none" /\ target[r] = j ~>
    /\ job[j].status # "REVIEW"
    /\ ruling[r].choice = "approve" => invoice[j].number # 0

--------------------------------------------------------------------------------
(***************************************************************************)
(* What comments of the code say of the program, and overlapping requests  *)
(* break.                                                                  *)
(***************************************************************************)

(***************************************************************************)
(* jobs.service.ts: "DELIVERED is terminal".  An update or a submission    *)
(* that read the job before the delivery writes its status over it.        *)
(***************************************************************************)
DeliveredIsTerminal ==
  [][\A j \in Jobs : job[j].status = "DELIVERED" => job'[j].status = "DELIVERED"]_job

(***************************************************************************)
(* estimates.service.ts: "on approval of a resubmitted estimate refresh    *)
(* the existing invoice's lines".  Once no request is in flight, the       *)
(* invoice of an approved estimate bills that estimate's lines.            *)
(***************************************************************************)
InvoiceFollowsApproval == (\A r \in Requests : ~Active(r)) =>
  \A j \in Jobs : estimate[j].status = "APPROVED" /\ invoice[j].number # 0 =>
    invoice[j].lines = estimate[j].lines
================================================================================
