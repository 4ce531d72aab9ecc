# GarageFlow backend: specifications

GarageFlow is a NestJS/PostgreSQL backend for car workshops: job cards move
from reception through estimates and approvals to billing and hand-over. This
directory holds TLA+ models of its services, the TLC configurations that check
them and TLAPS proofs about them. Paths below are relative to `src/src/`.

## 1. The system

Every HTTP request is served by one asynchronous handler. Handlers of one
process interleave at each `await`; several processes may run side by side
(the socket gateway uses a Redis adapter for that). All shared state is in
PostgreSQL, at the default READ COMMITTED level: a statement sees what is
committed when it starts, `$transaction([..])` commits its statements together,
and nothing links a handler's first read to its later writes. That gap is where
most of this system's difficulty lies.

| Component | State | Operations | What makes it correct | Hard because |
|---|---|---|---|---|
| Job cards (`jobs/jobs.service.ts`) | `Job`, `DeliveryPhoto` | `update`, `saveDeliveryPhoto` | transitions follow the table; a delivery has photos and a note; work has a start | the check is on a copy, the write is unconditional |
| Estimates, approvals (`estimates/estimates.service.ts`) | `Estimate`, `EstimateLine`, `Invoice`, `InvoiceLine` | `submit`, `decide`, `nextInvoiceNumber` | one decision per submission, for the lines `decide` read; nothing announced that is not stored; the invoice bills what was approved; the job is restored exactly | claim, number and invoice are separate commits; delete-and-create of lines |
| Intake (`jobs/jobs.service.ts`) | `Customer`, `Vehicle`, `Job` | `create`, `createWithUniqueCode`, `nextJobCode` | codes are unique and dense; a collision is retried | count, probe and insert are separate |
| Timeline (`jobs/job-events.service.ts`, `jobs/job-events.gateway.ts`) | `JobCardEvent`, socket rooms | `emit`, `listEvents`, `joinJob`, `leaveJob`, `broadcast` | every line reaches a reader once | a sequence number is drawn before its row commits; a room is joined while lines are emitted |
| Parts (`jobs/jobs.service.ts`) | `CatalogueItem.stock` | `addParts` | stock never negative, no lost decrement | several statements, no transaction |
| Billing (`invoices/invoices.service.ts`, `common/serializers.ts`) | `InvoiceLine`, `Payment` | `updateLines`, `addPayment`, `noteIfSettled`, derived totals | a settled invoice is noted; derived amounts agree | concurrent payments, rounding |
| Sessions (`auth/*`, `common/guards/*`) | `User.refreshTokenHash`, the claims of tokens | `login`, `refresh`, `switchWorkshop`, `logout` | a logout ends the session; a session stays in its workshop, and in one its user may act in | a refresh stores its hash long after it read the user; callers are judged by the claims of a token |
| Users, workshops (`users/*`, `workshops/*`) | `User`, `Workshop`, `WorkshopAccess` | create, update, `saveLogo` | one member per e-mail; roles the guards know | check then insert |
| Notifications (`notifications/*`) | `DeviceToken`, `Notification` | `register`, `unregister`, `pushToUsers`, `pushToRoles`, `handleTickets`, `inbox`, `markAllRead` | staff is told; tokens in use are kept; one failing chunk does not stop the rest | nobody awaits a push; tickets arrive after a token moved |
| Uploads (`common/storage/*`) | the pending map, files, rows with a URL | `createPresignedUpload`, `consumePresigned`, `save` | a URL is written once; what is shown is whole | tokens live in the process; files are written after the token is spent |
| Finance, periods (`finance/*`) | none: derived from invoices and payments | `summary`, `receivables`, `collections`, `ledgers`, `ledger`, `gst` | a summary never falls short; ledgers are in order; days, weeks and months partition time | several reads per report, two ways to round, boundaries |
| Dashboard, expenses | `Expense` | `forUser`, `create`, `list` | - | - |
| Customers, vehicles, catalogue | rows | create, update, `savePhoto` | single statements | - |
| Transport, wiring | none | - | - | - |

Requests interact through the tables only, with three exceptions: a handler that
changes a job emits timeline lines into a socket room (`Timeline`) and starts pushes
it does not wait for (`Notifications`); the upload tokens and the running pushes
live in the process and end with it.

## 2. The modules

| Module | Models | Runs | Proofs |
|---|---|---|---|
| `JobWorkflow` | `update`, `saveDeliveryPhoto`, `submit`, `decide`, statement by statement | `MCJobWorkflow` | `JobWorkflowProofs` |
| `JobLifecycle` | what those promise, one step per operation | through the refinement | `JobWorkflowProofs` |
| `LifecycleRefinement` | the mapping of the first to the second | `MCJobWorkflow` | `JobWorkflowProofs` |
| `JobIntake` | `create`, job codes and their retry | `MCJobIntake` | `JobIntakeProofs` |
| `Timeline` | `emit`, pages, rooms, broadcasts | `MCTimeline` | `TimelineProofs` |
| `Parts` | `addParts` and the stock it takes | `MCParts` | `StockAndBooksProofs` |
| `Money` | totals and statuses in exact binary64 arithmetic | `Figures` | `BillingAndFiguresProofs` |
| `Billing` | `updateLines`, `addPayment`, `noteIfSettled` | `MCBilling` | `BillingAndFiguresProofs` |
| `Accounts` | sessions, members, workshops and access to them | `MCAccounts` | `AccountsProofs` |
| `Notifications` | the registry of devices, the inbox, pushes and their tickets | `MCNotifications` | `NotificationsProofs` |
| `Uploads` | one-time upload URLs, saved files and the rows that name them | `MCUploads` | `UploadsProofs` |
| `Reports` | the reports of `finance.service.ts` while invoices and payments change | `MCReports` | `StockAndBooksProofs` |
| `Periods` | the calendar ranges of `period.util.ts` | `Figures` | `BillingAndFiguresProofs` |

`JobWorkflow` is composed with `JobLifecycle` by `LifecycleRefinement`; `Billing` and
`Reports` extend `Money`; `Figures` walks through the subtotals of `Money` and the days
of `Periods`, one per state, so that TLC and the theorems speak of the same formulas.
`Parts` and `Reports` share a module of proofs, because what is hard about both is a
sum; that is why the specification of `Reports` has names of its own (`BooksInit`,
`BooksNext`, `BooksSpec`, `BooksTypeOK`). `Billing` and `Figures` share one for the same
kind of reason: settlement is decided by `Money`.

Conventions shared by all of them:

* A handler is a program counter `pc[r]`. An action is one SQL statement or one
  `$transaction` together with the synchronous code up to the next `await`. What
  a handler read is in a local copy (`saw`, `copy`, `doomed`, `n`), and later
  writes use the copy, never the table.
* A Prisma read with `include` is one snapshot. (Prisma may send several SELECTs;
  the tear between them is not modelled.)
* `deleteMany` followed by inserts inside a transaction is two actions: the
  deletion fixes the rows it sees (`doomed`), the commit removes those and adds the new
  ones. That is READ COMMITTED: a second deletion which waited for the first does
  not see rows the first inserted.
* A request that is refused on its first read changes nothing and is no step,
  except where the refusal itself matters (`Parts`, `JobIntake`).
* A crash means: the handler never continues, what it committed stays. One action
  stands for a process restart, a lost connection and an error in the middle.
* An operator commented "Variant" is a plausible error in the definition after it.
  No specification uses it; replacing the definition by it violates a property.
* History variables (`ruling`, `base`, `level`, `taken`, `used`, `latest`,
  `edited`, `first`, `last`, `since`, `received`, `ended`, `rivals`, `forgotten`, `holder`, `kept`,
  `untried`, `steady`, `unsaved`, `billed`) record what properties compare; no guard reads
  them.

### JobWorkflow

State: `job` (status, `statusBeforeReview` as `before`, whether `startedAt` and
`deliveredAt` are set, whether there is a hand-off note, the technician),
`photos`, `estimate` (status, the submission that is current, the submissions
whose lines are stored), `invoice` (number, submissions whose lines are billed),
`timeline` (kinds of lines per request).

| Code | Actions |
|---|---|
| `update` | `UpdateReads`, `TechnicianFound/Missing`, `DeliveryAllowed/Refused`, `UpdateWrites`, `UpdateAnnounces`, `HandoverAnnounces` |
| `saveDeliveryPhoto` | `SaveDeliveryPhoto` |
| `submit` | `SubmitReads`, `SubmitFinds`, then `SubmitClears`, `SubmitReplaces` or `SubmitCreates/Collides`, `SubmitAnnounces` |
| `decide` | `DecideReads`, `DecideClaims/Conflicts`, then `DeclineReleases`, or `RefreshClears`, `ApproveRefreshes`, or `ApproveNumbers`, `ApproveBills/BillCollides`; `DecisionAnnounces` |

The claim of `decide` is the only conditional write of the component
(`updateMany where status PENDING and createdAt = ...`); `Claimable` has exactly
those conditions, with `StampOf` as the creation millisecond. In `concurrent` two
submissions share a millisecond. What a decision recorded is the history variable
`ruling`: its choice, the submission its claim hit, and the lines of its handler's copy,
which are different things whenever something was resubmitted in between.

Abstracted: wording, photo URLs, progress, bay and priority, GST and amounts
(`Billing`), push recipients (launched in the step of the timeline line), whether a
technician is active (either answer). Invoice numbers count from 1, not 2048, and
the count and the probes of `nextInvoiceNumber` are one step: a workshop's invoices
are never deleted, so a number that was free when probed last was free before. At
most one job is billed at the start, and each request is served once.

### JobLifecycle and LifecycleRefinement

`JobLifecycle` is what an office user has in mind: `Move`, `Submit`, `Approve`,
`Decline` on `status`, `resume`, `started`, `verdict`, `billed`, each in one step.
It starts at any point the operations can lead to (`Consistent`), and its
invariant `Agreement` is proved; no run of its own checks it, the refinement does
the rest: under `Orderly` whatever `Agreement` says holds of the tables. The mapping
reads the tables and, between a decision's claim and its release, still shows the
verdict as pending: a decision takes effect with the transaction that releases the
job. It holds for requests that do not overlap, plus racing decisions and racing
submissions, of any number of requests and jobs, except that approvals of two jobs do
not overlap either, since they could take the same invoice number; an update that
overlaps a decision breaks it, which `delivered_terminal` shows directly.

### JobIntake

`create` up to the job's insert: the vehicle known or new, its customer known or
created, then `Count`, `Probe`, `Insert`/`Collide`. `code[i] = N` stands for the
code `jN`. `InsertRefused` is the foreign key error of a known vehicle with an
unknown customer id. The estimate that may come with a new job is
`SubmitReads` on a fresh job.

### Timeline

One job, its `emit`s, its socket room and clients that page upwards. A sequence
number is drawn when the INSERT runs (`Draw`) and its row is visible after
`Store`; Redis carries a copy per socket that arrives or is lost; membership is
evaluated where the copy arrives. `ListEvents` is `where`, `orderBy`, `take
limit + 1`, the slice and `nextCursor`, with the falsy cursor as none. How clients
use the API (join, load, scroll) is the client's; the model lets them do it in any
order, and `since` says which of them joined first.

### Parts

One action per statement of the loop: `Take` is the single `UPDATE ...
GREATEST(stock - qty, 0)`, which evaluates to 0 on NULL, `Emit` the timeline line.
Whether to take is decided on the copy. `Start` reads the job, `InCatalogue` or
`ItemMissing` the catalogue. `SetStock` is the catalogue's PATCH,
`Deliver` the delivery of JobWorkflow. Prices and price overrides are left out.
`used` is what each request took of each item; what its timeline says is the prefix of
its list that has been emitted (`Recorded`, by the running sum `QuantityIn`).

### Money and Billing

Amounts are integers of paise in the database and binary64 rupees in the code.
`Money` compares as the code does: integers decide every comparison except a
payment of exactly the total, where `toRupees(subtotal) + gst` and the payment are
rounded differently; `SumExceeds` computes both roundings exactly with modular
arithmetic (`pow2mod`, `RoundEven`), for amounts up to about a million rupees.
`Gst` is `Math.round` of whole rupees. `Billing` has one issued invoice, edits
and payments in any overlap. A batch of lines is one value named after its
request.

### Accounts

A token pair is named after the request that signed it; its claims are what that
request read of the user (`who`, `seen`) and the workshop it is for (`shop`). A request
with a token is judged by these claims (`Caller`), as `JwtStrategy` and `RolesGuard` do,
so a demoted or deactivated user goes on until the next refresh.

| Code | Actions |
|---|---|
| `login` | `Login`, `StoreRefreshHash` |
| `refresh` | `Refresh` (up to the comparison), `RefreshChooses` (access, tokens), `StoreRefreshHash` |
| `switchWorkshop` | `Switch`, `SwitchChecks`, `StoreRefreshHash` |
| `logout` | `Logout` |
| `users.create` | `CreateChecks`, then `CreateInserts` or `CreateCollides` on the unique e-mail |
| `users.update`, `workshops.create` | `Update`, `CreateWorkshop` (one transaction) |

bcrypt looks at the first 72 bytes of a token only. Which tokens of a user match a
stored hash is therefore left open: `Refresh` needs a hash, not a certain one.

### Notifications

A push is a handler of its own, started by `jobs.service.ts` or `estimates.service.ts`
(`NotifyAssignment`, `NotifyDecision`, `NotifyNewMessage`, `NotifyStaff`) or the test
route (`PushToAll`): `FindStaff`, `CreateRows` or its failure, `ReadDevices`, then
chunk by chunk `Send` or `SendFails`, and `Prune` or `PruneFails` for the tokens whose
tickets say their app is gone. Expo knows the `installed` tokens; tokens are registered,
moved, dropped and uninstalled at any step. The inbox request is two reads in either
order. `Restart` ends every push, also for a rejected promise nobody awaits.

### Uploads

Local disk. A PUT reads its body before it takes the token (`Put`, `Consume`), takes it
without an await, then writes (`Open`, `Write`); a multipart save writes a file of its
own and stores its URL in a row (`SaveLogo`, `SaveVehiclePhoto`, `SaveSidePhoto`). A
file is partial until it is whole; a failed write leaves it partial.

### Reports and Periods

`Reports` has the rows of one workshop and a summary between its two reads; the other
reports are one read each, hence operators of the state (`Owed`, `Rows`, `DayBook`,
`GstReport`). Time is in ticks, with days and months of equal length.
Amounts are added in paise; whether an invoice is covered is decided by `Money`. The
code adds rupees in binary64, in one order for `/ledgers` and in another for `/ledger`,
so its sums may differ in their last digits, and a residue of them is not found here.
`/ledgers` also goes by the workshop of the customer, `/ledger` and `summary` by the
workshop of the invoice; `jobs.service.ts:175` lets the two differ, and with one workshop
the model has nothing to say about that.
`Periods` computes in days since 1970 with `Date.UTC` as ECMAScript defines it, for
years after 99.

## 3. The runs

| Run | Instance | States | Shows |
|---|---|---|---|
| `concurrent` | 1 job in 6 stages, 3 requests of any kind, 1 technician, 1 manager, 2 photo sides, crashes, two requests of one millisecond, which are symmetric | 1,150,177 | `WorkImpliesStarted`, `HandoverDocumented`, `ResumesToOpenStage`, `DecidedOnce`, `RuledAsRead`, `BillsOnlyApproved`, `AnnouncedIsStored` |
| `orderly` | 1 job, 3 requests; only decisions overlap decisions and submissions submissions; fairness | 29,760 | `ImplementsLifecycle`, `InvoiceFollowsApproval`, `DecisionTakesEffect` |
| `intake_codes` | 3 intakes, 2 attempts, crashes, fairness | 65,528 | `CodesDense`, `FailsOnlyInCrowd`, `IntakeCompletes` |
| `timeline_pages` | 4 lines, 1 client, pages of 1, deaths and losses, symmetric lines | 413,889 | `NoRowTwice`, `HistoryComplete`, `NothingBetween` |
| `parts_stock` | 2 lists out of 4, 2 items, crashes, stock set meanwhile | 175,520 | `StockExact`, `TimelineMatchesStock` |
| `billing_notes` | 2 edits, 2 payments, 18 % GST, crashes | 380,676 | `PaidIsNoted` |
| `sessions` | 3 requests, 4 users of whom 2 are there from the start, 2 workshops, 3 e-mails, symmetric requests and newcomers | 360,052 | `EndedStaysEnded`, `StaysWhereSwitched`, `TokensWithinAccess`, `EmailsUnique` |
| `pushes` | 1 push, 2 users, 2 devices, chunks of 1, an inbox of 1 row, 2 changes around it; fairness | 302,758 | `StaffTold`, `KeptTokens`, `EveryChunkTried`, `BadgeFits`, `ReadsCurrentUser`, `PushEnds` |
| `files` | 3 requests, 2 tokens, a logo, a vehicle, a side of a job, symmetric requests and tokens | 100,080 | `ShownIsWhole`, `OneWriter`, `GoneMeansSpent` |
| `books` | 2 customers, 2 invoices, 2 payments, 3 ticks in 2 days, symmetric customers | 567,749 | `SummaryNeverShort`, `DebitsFirst`, `PeriodsComplete` |
| `figures` | every subtotal up to 300 rupees at 0, 5, 12, 18, 28 %; every day from November 1999 to 2029 | 161,020 | `QuartersSettle`, `PeriodsTile` |
| `delivered_terminal` | 2 requests | - | violated: see section 6 |

`concurrent`, `pushes` and `books` also check the module's `TypeOK`. Of the other modules with state,
`TypeOK` is a theorem for every value of the constants (section 5), and no run repeats it.

Why the bounds are enough:

* Every hazard of the job workflow is about one handler's stale copy and what
  others do in its gap. Three requests on one job give one stale handler and two
  others, in every operation and order, with crashes; all pairs of the table of
  operations occur, and every stage a card can be in is an initial state. Two jobs
  matter only for invoice numbers (section 6).
* With 2 attempts, 3 intakes are the fewest that reach the failing branch
  (`Collide` to `conflict`); the code has 3 attempts. The theorems cover any number of both.
* Pages of one row with 4 lines give loadings of up to four pages with lines
  drawn, committed and dying between any two.
* Two lists over two items include the same item twice in a list, an item in both,
  and an item that does not exist; levels make the floor bite.
* The payments are of 4.06 or 12, which are totals exactly, or of 7.74, which is
  more than the one and with 4.06 just short of the other; edits move the total
  between 4.06, 7.12, 12 and 15.06, so alone, together, too little and too much all occur.
* Three session requests are a login, a switch and a refresh of its pair, or a refresh
  that a logout and a second login overlap; one user joins in the course of a behaviour, by two
  overlapping invitations. Deeper chains are what the theorems are for.
* One push over two devices in chunks of one has a first and a last chunk, and a token
  that fails before one that does not. Pushes share nothing but the tables, so what
  others do to them is among the two changes; `Morning` starts from the registries
  earlier days may have left. An inbox of one row is cut by the second.
* Three PUTs or saves on two tokens give two that overlap on one token, and a third on
  the other, or in the same row; restarts are not counted.
* Two invoices of 4.06 (3.06 and GST) or 6 rupees and payments of 4.06 are paid short,
  just, and over, on the day of issue and later; 3.06 is the subtotal whose sum exceeds
  its rounding. Three ticks make a day with two ticks and a next one.
* 1999 to 2029 has eight leap years, 2000 among them, and every date on every weekday.
* `CHECK_DEADLOCK FALSE` everywhere: a behaviour ends when all its requests are
  served. Symmetry is used only in runs without liveness.

## 4. Fairness

`JobWorkflow!FairSpec` and `JobIntake!FairSpec` assume weak fairness of each
started handler's next statement (`Progress`): Node's event loop drops no callback
and PostgreSQL answers every statement. Nobody has to send a request, and `Crash`
is never forced; `IntakeCompletes` excepts an intake whose handler died, and
`orderly` has no crashes, since a decision that died after its claim never takes
effect (section 6). `Notifications` assumes weak fairness of each push's next statement:
the database and Expo answer or fail, `fetch` times out by itself, and `Restart` ends a push as
`lost`. The other specifications state no fairness and only safety is claimed of them.

## 5. The proofs

TLAPS proves the following for every value of the constants that satisfies the named assumptions: any number
of jobs, requests, intakes, lines, clients, payments, users, workshops, tokens, any page size, any amounts.

| Theorem | States | Along |
|---|---|---|
| `JobWorkflowProofs!TypeCorrect` | `[]TypeOK` | one lemma per handler (`TypeUpdate`, `TypeSubmit`, `TypeDecide`) |
| `StartedWork`, `DocumentedHandover`, `OpenResume` | `WorkImpliesStarted`, `HandoverDocumented`, `ResumesToOpenStage` | `StageInv` |
| `OneDecision`, `ApprovedBills` | `DecidedOnce`, `BillsOnlyApproved` | `DecisionInv` |
| `RulingsAreAsRead` | `RuledAsRead` | `CopiesPinned` and `DecisionInv` |
| `AnnouncementsHold` | `AnnouncedIsStored` | `TellingInv` and `DecisionInv` |
| `LifecycleImplemented` | `ImplementsLifecycle`, if `Orderly`: initial states map to initial ones, and every statement to an operation of `JobLifecycle` or a stutter | `OrderlyInv` |
| `BillsFollowApprovals`, `DeliveredStays` | `InvoiceFollowsApproval`, `DeliveredIsTerminal`, if `Orderly` | `OrderlyInv` |
| `LifecyclesAgree`, `HandoverFinal` | job, estimate and invoice of the abstract lifecycle agree; a delivery is final | inductive as stated |
| `JobIntakeProofs!DenseCodes`, `CrowdedFailure` | `CodesDense`, `FailsOnlyInCrowd` | `IInv` |
| `TimelineProofs!PagesDisjoint`, `PagesComplete`, `PagesMeetRoom` | `NoRowTwice`, `HistoryComplete`, `NothingBetween` | `IInv`, lemma `OnePage` |
| `StockAndBooksProofs!NoLostDecrement` | `StockExact` | lemmas `FloorsCompose`, `TakeStep` |
| `StockAndBooksProofs!TimelineIsCovered` | `TimelineMatchesStock` | `Accounted`, lemma `QuantityAddsUp` |
| `StockAndBooksProofs!BooksTypeCorrect`, `NeverShort` | `BooksTypeOK`, `SummaryNeverShort` | `BooksIInv`, lemma `BilledIsCovered` |
| `StockAndBooksProofs!BillsComeFirst` | `DebitsFirst` | `Tables`, lemmas `LedgerSplits`, `BillsFirst` |
| `StockAndBooksProofs!PeriodsHoldAll` | `PeriodsComplete` | `Tables`, lemmas `TicksOfDay`, `PartsAddUp`, `ReturnIs` |
| `BillingAndFiguresProofs!SettlementNoted` | `PaidIsNoted` | `LatestInv` |
| `BillingAndFiguresProofs!QuartersAlwaysSettle` | `QuartersSettle`, up to ten lakh rupees and 100 % | lemmas `PowDivides`, `LiftIs`, `QuartersExact` |
| `BillingAndFiguresProofs!PeriodsAlwaysTile` | `PeriodsTile`, for every day after 1 January 1970 | lemmas `YearExists`, `MonthIs`, `DateCounts` |
| `AccountsProofs!LogoutEnds` | `EndedStaysEnded` | `SessionsOfMembers`, `EndedIsOver` |
| `AccountsProofs!RefreshStays`, `TokensStayWithinAccess` | `StaysWhereSwitched`, `TokensWithinAccess` | `RefreshesFollow`, `SignedWithinAccess`, lemma `AccessKept` |
| `AccountsProofs!OneMemberPerEmail` | `EmailsUnique` | inductive as stated |
| `NotificationsProofs!StaffIsTold` | `StaffTold` | `StaffFound`, `ActorSpared` |
| `NotificationsProofs!ChunksAreTried` | `EveryChunkTried` | `UntriedAhead` |
| `NotificationsProofs!TokensAreKept` | `KeptTokens` | `DeadNotKept`, `HeldByUser` |
| `NotificationsProofs!ReadsHolders`, `BadgeIsRight` | `ReadsCurrentUser`, `BadgeFits` | `HeldByUser`, `BadgeSoFar` |
| `UploadsProofs!OnePutWrites` | `OneWriter` | `TokenTaken` |
| `UploadsProofs!ShownFilesWhole` | `ShownIsWhole` | `FinishedWhole`, `ShownFinished` |
| `UploadsProofs!GoneUrlsSpent` | `GoneMeansSpent` | `TokenAccounted` |
| `TypeCorrect` of every other module with state and proofs | `[]TypeOK` | - |

The inductive invariants and why they are needed:

* `StageInv`. A handler's copy may be stale, so no statement about the tables alone
  is preserved by `UpdateWrites`. `MemoryHolds` says what stays true of a copy:
  starts are never taken back and photos never removed, so a copy that saw them
  saw something that still holds; and what was validated on the copy stays
  validated on the copy.
* `DecisionInv`. A submission is named after its request and stored at most once,
  so it cannot become pending again after a ruling (`RulingsSettle`); a billing
  handler bills the lines of its own ruling (`RulingsInOrder`).
* `CopiesPinned`. As long as the stored submission is the one that a decision about to
  claim read, so are its lines: a submission is stored once, so nobody brings back the one
  that was read with other lines.
* `TellingInv`. A timeline line is written after its facts, by a handler that did not die
  in between: at each step before the line the invariant says what is on file already
  (`AboutToTell`), and no later write takes it back.
* `OrderlyInv`. Whoever is about to write a row has a copy of it that is still right.
  Handlers that may overlap are decisions, of which one wins the claim, and submissions,
  of which each replaces the lines of the one before; the invariant says for every
  handler and every row it will write which of the others may still touch it. A step of
  the claim or of a deletion maps to a stutter, the commit after it to the operation.
* `JobIntake!IInv`. A candidate is at most one above the codes in use and above all
  codes present when the intake counted; each collision is one more job by somebody
  else (`CandidateInv`).
* `Timeline!IInv`. Everything found at the beginning lies on a page or below the cursor, and
  everything loaded lies at or above it (`ScrollInv`); a broadcast line is
  stored (`CopyInv`); drawn numbers differ (`DrawnInv`).
* `Billing!LatestInv`. The payment stored last checks after all others are stored.
* `Accounts`. That a refresh stays where it was is not inductive: the pair it presents
  must have been signed for a workshop its user could act in (`SignedWithinAccess`), which
  in turn rests on who the request acts for (`RefreshesFollow`), on users that are members when a
  session of theirs begins (`SessionsOfMembers`, since a member's home never changes
  again) and on grants that are never revoked (`AccessKept`). Who is `ended` has no hash
  that a request could refresh, and no request of theirs is under way but the `rivals` of
  that logout (`EndedIsOver`).
* `Uploads`. Whoever writes a presigned file took its token, so no other can
  (`TokenTaken`); with one writer per file, and saves that write files of their own,
  nobody opens a file that is finished, and only finished files are shown
  (`FinishedWhole`, `ShownFinished`). A token that is no longer pending was taken by a
  PUT that still writes, wrote or died, or was forgotten (`TokenAccounted`).

* `Notifications`. What a push has read of the registry is stale at once, so the
  invariants are about the push itself: the devices it has not tried are those of the
  chunks ahead (`UntriedAhead`), who must be told is among its recipients until they have
  their rows and the actor never is (`StaffFound`, `ActorSpared`), and a token it will
  prune was reported dead by Expo, hence is not in use (`DeadNotKept`). `HeldByUser` ties the holder of a
  device to its row, `BadgeSoFar` the first read of an inbox to what the second may find.
* `Parts!Accounted`. Between a decrement and its line the stock is one line ahead of the
  timeline, at any other step of a request they are even, and after a death at most one
  line apart; that the quantities of a prefix only grow is `ThroughGrows`.
* `Reports!BooksIInv`. The answer is wrong only if a payment is missed by both reads. After
  the first read what was billed is outstanding or among all payments there are now;
  the second splits those in the day's and the others, and a payment that comes later
  adds to one side only. `Tables` is what makes the sums add up: ids are unique, every
  payment is of an invoice there is and not older than it, so that invoices partition
  the payments, customers and months the invoices, days and methods the payments.

Sums are recursive definitions, and the library's induction theorems take an operator
as parameter, which the provers cannot instantiate. `NatInduct` (over a set of naturals,
from `WFMin`) and `FiniteInduct` (over a set of sets) take their place: with them
`StockAndBooksProofs` shows that the community modules' `SumFunctionOnSet`, a fold, is
well defined (`IterExists`, `IterUnique`), independent of the order in which it picks
(`IterAdd`), and additive, linear, monotonic and invariant under one-to-one renaming
(`SigmaUnions`, `SigmaLinear`, `SigmaLeq`, `SigmaImage`); likewise `QuantityIn`.

The two theorems about figures need no invariant but the bounds of the walk; what they need
is arithmetic. Of the calendar: `Date.UTC` is linear in the date (`DateCounts`), so the code's
overflowing days are plain additions; a day lies between two New Years and two firsts of a
month, and only two (`YearIs`, `MonthIs`), so that reading a date and rebuilding it returns
the day. Of binary64: a subtotal is 25 paise times something, its exponent leaves more than
five doublings (`InSomeBinade`), and GST of at most 100 % lifts it by two binades at
most (`LiftIs`), so nothing is left for either rounding to round.

Assumptions: those named `...Assumption` in each module; TLC evaluates them in
every run. No theorem assumes distinct creation stamps, which `new Date()` in
milliseconds does not guarantee. The three theorems that assume `Orderly` are
about requests that overlap no more than it allows and handlers that do not die; the
code does not keep others apart, and section 6 says what happens when they overlap.

Only model-checked: liveness (`DecisionTakesEffect`, `IntakeCompletes`, `PushEnds`), which
needs ENABLED. Every safety property a passing run checks is a theorem.

## 6. Where code and text disagree

One sentence of the source is refuted by a run of its own:

* `delivered_terminal`: "DELIVERED is terminal" (`jobs.service.ts:39`). `update`
  checks a copy and writes unconditionally; an update that read COMPLETED moves the
  job on after another request delivered it. The same stale write moves a job while
  an estimate is pending (`jobs.service.ts:233`), and leaves `statusBeforeReview`
  set outside REVIEW (`schema.prisma:199`); `addParts` has the same gap
  (`jobs.service.ts:481`).

Others are known from modelling; the properties are stated so that they say what does hold:

* "materialise the estimate into the job's invoice + release the job"
  (`estimates.service.ts:144`). Two approvals that take the same invoice number: one
  fails after its claim (`:215`), and the estimate stays APPROVED without an invoice,
  its job in REVIEW. `DecisionTakesEffect` is about a single job, where numbers never collide.
* "refresh the existing invoice's lines" (`estimates.service.ts:195`). An earlier
  approval's refresh that commits after a later one bills the wrong submission, or lines
  of both. `orderly` lets neither these nor resubmissions overlap approvals;
  `BillsOnlyApproved` holds in any case.
* "pins the exact submission we read above" (`estimates.service.ts:156`). It pins a
  millisecond: `createdAt` is `new Date()` (`:86`), and a resubmission of the same
  millisecond is decided unread. `RuledAsRead` is about stamps no other submission has.
  Nor does anything tie a decision to what the approver was shown, by an earlier GET.
* "replace lines on resubmit" (`estimates.service.ts:71`). Two resubmissions that overlap may
  leave the lines of both (`:78`), and these are what is then read, approved and billed.
* A refresh that read its user before a logout commits stores its hash after it
  (`auth.service.ts:82`), and the session goes on. `EndedStaysEnded` says that nothing else
  reopens one.
* "it can't produce ties or skip/repeat rows" (`job-events.service.ts:45`). A row that
  commits after a page with higher numbers was read is behind the cursor (`:58`).
  `NoRowTwice` and `HistoryComplete` say what holds.
* "Once payments cover the invoice total, note it" (`invoices.service.ts:99`). 3.06 + 1 is
  4.0600000000000005 in binary64, and a payment of 4.06 is not enough (`:109`).
  `QuartersSettle` shows that whole quarters of a rupee are safe.
* A delivery writes the job before its timeline line (`jobs.service.ts:332`): a handler
  that dies between them leaves a delivery without a line.
* A malformed day makes `collectedToday` that of today and `revenueThisWeek` that of no
  week (`finance.service.ts:41`); expenses belong to no workshop, so each workshop's profit
  subtracts all of them (`finance.service.ts:106`).

## 7. Not modelled

* Dashboard and expenses, `profit` and `revenueThisWeek`: several reads at once with no
  promise how they relate, and rows that are created and listed.
* Single-statement reads and updates of independent rows (customers, vehicles,
  catalogue apart from stock, workshop settings, `markRead`): nothing interleaves.
* Tokens that expire, passwords, and which tokens of one user bcrypt accepts.
* S3: with a bucket the process keeps no upload state. Removing old files: the code does not.
* Framework wiring, validation decorators, logging, error formatting.
* Within the modelled parts: prices, wording, what Expo does with a push it accepted, the handshake of a
  socket, and a read torn between the SELECTs of one `include`.

## 8. Plan

1. `JobWorkflow` with `JobLifecycle`: the core. Done.
2. `JobIntake`, `Timeline`, `Parts`, `Money`, `Billing`. Done.
3. `Accounts`, `Notifications`, `Uploads`, `Reports`, `Periods`, and proofs of the first
   and the third. Done.
4. Proofs of `Notifications`, of `Parts`' timeline and of `Reports`, and of the refinement under
   orderly overlaps. Done.
5. Proofs of `QuartersSettle` and `PeriodsTile`, for all amounts and days. Done.
6. Left: what orderly overlaps still exclude, one by one (an update that overlaps nothing but a
   delivery photo, say), as weaker forms of `Orderly` under which the refinement holds.
