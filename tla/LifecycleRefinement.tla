-------------------------- MODULE LifecycleRefinement --------------------------
(***************************************************************************)
(* JobWorkflow implements JobLifecycle: the handlers, statement by         *)
(* statement, seen through the tables, take one lifecycle step each.       *)
(***************************************************************************)
EXTENDS JobWorkflow

\* Between the claim of a decision and its release the lifecycle still waits:
\* the decision takes effect with the transaction that releases the job.
Deciding(j) == \E r \in Requests :
  /\ target[r] = j
  /\ pc[r] \in BillSteps \cup {"release"}

VerdictFor == [NONE |-> "none", PENDING |-> "pending", APPROVED |-> "approved",
               DECLINED |-> "declined"]

VerdictOf(j) ==
  IF Deciding(j) THEN "pending" ELSE VerdictFor[estimate[j].status]

Lifecycle == INSTANCE JobLifecycle WITH
  status  <- [j \in Jobs |-> job[j].status],
  resume  <- [j \in Jobs |-> job[j].before],
  started <- [j \in Jobs |-> job[j].started],
  verdict <- [j \in Jobs |-> VerdictOf(j)],
  billed  <- [j \in Jobs |-> invoice[j].number # 0]

(***************************************************************************)
(* The handlers keep the promises of JobLifecycle as long as the requests  *)
(* on the jobs do not overlap, decisions excepted: any number of approvers *)
(* may race, because decide() claims the submission it read.               *)
(***************************************************************************)
ImplementsLifecycle == Lifecycle!Spec

--------------------------------------------------------------------------------
(***************************************************************************)
(* Requests that do not overlap, decisions and resubmissions excepted, and *)
(* no handler that dies.  Two approvals for different jobs may choose the  *)
(* same invoice number; the one that loses leaves its job parked, so they  *)
(* may overlap only on one job.                                            *)
(***************************************************************************)
Decisions  == {"approve", "decline"}
Deciders   == Decisions \X Decisions
Submitters == {"submit"} \X {"submit"}

Orderly ==
  /\ Overlap \subseteq Deciders \cup Submitters
  /\ <<"approve", "approve">> \notin Overlap \/ \A i, j \in Jobs : i = j
  /\ ~Crashes

(***************************************************************************)
(* Why the lifecycle is implemented then: whoever writes the row of a job  *)
(* has a copy of it that others have changed, if at all, as it will.       *)
(***************************************************************************)
UpdateSteps == {"technician", "photos", "write", "announce", "handover"}
ParkSteps   == {"find", "clear", "resubmit", "create"}
RulingSteps == BillSteps \cup {"release"}

\* A handler takes the steps of what it was asked for ...
StepsInOrder(r) ==
  /\ pc[r] \in UpdateSteps => op[r] = "update"
  /\ pc[r] \in ParkSteps \cup {"submitted"} => op[r] = "submit"
  /\ pc[r] \in BillSteps => op[r] = "approve"
  /\ pc[r] = "release" => op[r] = "decline"
  /\ pc[r] \in {"claim", "decided"} => op[r] \in Decisions

\* ... beside those it may.
InCompany == \A q, r \in Requests : q # r /\ Active(q) /\ Active(r) =>
  <<op[q], op[r]>> \in Overlap \/ <<op[r], op[q]>> \in Overlap

CopyCurrent(seen, row) ==
  seen.status = row.status /\ seen.before = row.before /\ seen.started = row.started

UpdateCurrent(r) ==
  pc[r] \in {"technician", "photos", "write"} =>
    CopyCurrent(saw[r], job[target[r]]) /\ MoveAllowed(dto[r], saw[r])

\* Another submission may have parked the job, with the stamp this one has.
ParkCurrent(r) ==
  pc[r] \in ParkSteps =>
    /\ saw[r].status # "DELIVERED"
    /\ \/ saw[r].status = job[target[r]].status
       \/ job[target[r]].status = "REVIEW" /\ job[target[r]].before = saw[r].status

\* A claim that can still succeed is made with what is stored.
ClaimCurrent(r) ==
  pc[r] = "claim" /\ estimate[target[r]].status = "PENDING" =>
    /\ CopyCurrent(saw[r], job[target[r]])
    /\ saw[r].lines = estimate[target[r]].lines
    /\ saw[r].invoiced = (invoice[target[r]].number # 0)

\* What a decision ruled on stays until it takes effect, and nobody else
\* takes the number it chose.
RulingCurrent(r) ==
  pc[r] \in RulingSteps =>
    /\ CopyCurrent(saw[r], job[target[r]])
    /\ saw[r].status = "REVIEW" /\ saw[r].before # NoStatus
    /\ estimate[target[r]].status = IF pc[r] = "release" THEN "DECLINED" ELSE "APPROVED"
    /\ estimate[target[r]].lines = saw[r].lines
    /\ pc[r] \in {"clearBill", "refresh"} => invoice[target[r]].number # 0
    /\ pc[r] \in {"number", "bill"} => invoice[target[r]].number = 0
    /\ pc[r] = "refresh" => saw[r].doomed = invoice[target[r]].lines
    /\ pc[r] = "bill" => CanBill(r) /\ saw[r].number # 0

Current(r) == StepsInOrder(r) /\ UpdateCurrent(r) /\ ParkCurrent(r)
              /\ ClaimCurrent(r) /\ RulingCurrent(r)

OneRuling == \A q, r \in Requests :
  q # r /\ pc[q] \in RulingSteps /\ pc[r] \in RulingSteps => target[q] # target[r]

ApprovedIsBilled == \A j \in Jobs :
  estimate[j].status = "APPROVED" /\ ~Deciding(j) /\ invoice[j].number # 0 =>
    invoice[j].lines = estimate[j].lines

OrderlyInv ==
  /\ \A r \in Requests : Current(r)
  /\ InCompany
  /\ OneRuling
  /\ Lifecycle!Agreement
  /\ ApprovedIsBilled
================================================================================
