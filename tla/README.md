# A verification project for the seiwajyuku platform

The platform keeps the learning records of a society of study classes: members,
meetings, attendance, reading, plans, renewals, and the **learning credits** that
are earned with them.  Its core is the FastAPI service in `apps/platform-api`
(some 56 000 lines of services over MySQL); a Vue admin site, a WeChat mini
program, a reading-sync worker and a few cloud functions use it.

The modules here model the parts where a wrong interleaving, a crash or a
repeated call would leave a wrong balance behind and where a test would hardly
find it.  They are checked by TLC on small instances, and the most important
invariants are proved by TLAPS for every value of the constants.

## 1. Inventory

| component | state | operations | hard because | correct when |
|---|---|---|---|---|
| Credit settlement (`services/credit_settlement_batches.py`, `learning_activity_credits.py`, `learning_credits.py`) | facts, batches, batch items, ledger entries, reversals | record a fact, cut a preview, submit, approve, post in steps, resume, reconcile, close, reverse | steps of several calls and batches interleave, each step several transactions; a call dies or stalls between them; checks read before a lock | a fact is paid once, never above the month's cap, only what was approved or confirmed; stored totals are those of the ledger; posting ends |
| Source imports and posting jobs (`credit_source_imports.py`, `credit_posting_jobs.py`, event function) | the import, its linked batches, one job row with a lease, events on their way | preview, confirm, pause, claim, run a step, finish, continue by event; the page's own posting call | leases expire under slow runs; events are lost or repeated; an uncertain trigger reply; a preview regenerated beside a step | success means posted; stopped work starts again only when a user confirms it; nothing posted loses its import; a confirmed job ends |
| Opening balances, year allocations (`credit_opening_balances.py`, `credit_year_allocations.py`, `credit_year_reconciliation.py`) | headers with a status, balances, adjustments, allocations, class progress | register, approve, post, cancel; regular entries beside them | a named lock released before the commit, unchecked updates, snapshots older than the lock | no period is counted twice; a posted import is whole and stays; a year is allocated once |
| Credit rules, historical credits (`historical_credit_*`, `course_credit_*`) | rows and cells of a workbook, decisions, class mapping, rule versions | match, review, freeze, approve, post | the review goes on beside the posting; one cell lies in several batches | a cell is entered once, and as the review stood |
| Learning cycles and plans (`learning_cycles.py`, `plans.py`) | cycles of a class, their months | open, confirm, advance, correct | credit postings advance the cycle | one current cycle per class, never backwards |
| Attendance and check-in (`attendance_*`, `signin_engine.py`, `checkin_rosters.py`) | events, registrations, confirmed flags | sign in, confirm, correct, synchronise, delete | several channels write the same record | one registration per member and event; confirmed data are not overwritten |
| Members and rosters | members, relations, imports | import, relink, reassign | fingerprints between preview and apply | what is applied is what was shown |
| Enrollment, renewals | applications, cases | submit, review, complete, expire | repeated calls, background expiry | one outcome per application or period |
| Follow-ups, member care | invitations, actions | invite, accept, expire, complete | expiry races an answer | an invitation is used once |
| Study meetings (`services/study_meetings.py`, `study_meeting_review.py`, `study_meeting_attendees.py`, `study_meeting_resubmissions.py`) | versions of a meeting, attendances, reviews, batches of their credits | register, submit, correct, review and settle, resubmit | a version replaces another beside its settlement; differences are computed before others are entered; a settlement fails or dies and is resumed | one credit per learner and cycle; what is entered was reviewed; a settled batch is entered in full |
| Evidence of meetings | photographs | upload, bind, read, clean up | two-phase storage, cleaning beside upload | a submitted record keeps its evidence |
| Reading sync, monthly reports | leased jobs, snapshots | claim, run, finish, retry | leases, lost replies | one run writes a period |
| Reading workbooks of headquarters | batches, observations, identities, facts | import, confirm | overlapping files, views that miss each other's rows | a fact is of the learner whom a person confirmed, and ends with its observation |
| Identity and authorisation | users, bindings, sessions | bind, unbind, merge, grant | two bindings at once | one person per identity |
| Organisation, staff, volunteers, operations, integrations, UI, scripts | — | — | single transactions, read models or tools | — |

`PROJECT.json` lists every source file of the services under its component, and
the hazards with the line at which each bites.

## 2. How the project is organised

| group | modules | configurations |
|---|---|---|
| the ledger and what writes it | `CreditLedger` (what the ledger promises), `CreditSettlement` (implements it), `CreditPostingJobs`, `OpeningBalances`, `StudyMeetings` | `overlap`, `crash`, `live`, `jobs`, `joblive`, `imports`, `resubmit`; findings `yeartwice`, `twoversions` |
| the workbook of historical credits | `HistoricalCredits` | `imports` (scenes of `MCImports`) |
| learners and where they belong | `MemberRelations`, `MonthlyRoster`, over the classes and groups of `StudyUnits` | `imports` (scenes of `MCImports`) |
| registries the staff keep | `WechatBindings`, `StaffAccounts`, `MemberRenewals`, `Enrollment`, `LearningCycles`, `Attendance`, `MeetingEvidence`, `ServiceInvitations`, `OperationRhythm` | `registry` |
| what runs unattended, and the readings imported by hand | `ReleaseOperations` (of `CloudRunRelease` and `RehearsalEnvelope`), `MonthlyReports`, `ReadingSync`, `HqReadings` | `operations`; finding `partialposting` |
| proofs | `CreditSettlementProofs`, `SettlementTotalsProofs`, `SettlementKeepsLedger`, `PostingJobsProofs`, `ImportsProofs`, `StudyMeetingsProofs`, `RegistryProofs`, `OperationsProofs` | |

Each module has its parameters as CONSTANTS with named assumptions and one action
per operation or transaction. `SqlNull` declares `None`, the NULL of a column or the row that is not
there. A module `MC…` gives a small instance; where components share no state, one `MC` module
composes them and a behaviour plays one **scene**, chosen at the start, while the others stand still.

Modules of sections 7 and 8 state several facts as one property (`EvidenceSafe` and so on): the
module names and comments each conjunct, and for each a faulty variant of the code has been seen
to break it.

## 3. CreditSettlement

**State.** `ledger` is the set of rows of `learning_credit_entries` and
`reversed` the entries with a reversal; `fact` what the activity facts say now (and
whether their context holds them back); `batch` the rows of
`learning_credit_settlement_batches`; `item` the frozen items; `poster` the local
state of each call of `_post_batch` (its process counter, the step it has
grouped, the locks it waits for, whether a step failed, the count it has read).

**Actions** are the transactions of the code. `DryRun`, `Submit`, `Approve`,
`Reconcile`, `Close` and `Reverse` are one each. `_post_batch` is cut where the
code commits or releases a connection: `BeginPost` (the claiming transaction),
`NextStep` (the choice of the next items, outside of any transaction), `LockStep`
(locks and re-checks), `CommitStep` or `RollBackStep`, `MarkFailed` (the
transaction of the handler), `ReadFinal` (a snapshot read) and `CommitFinal`.
`Crash` ends a call anywhere; `HeartbeatAges` lets the thirty minutes pass after
which a stale batch may be reconciled.

**Data.** There is one month and an entry is worth one point. A rule snapshot is
the set of facts that no context holds back. A reading day, a share and a single
session stand for the kinds of facts; the cap is on shares. A study fact is only
added, never edited. Class-meeting previews, the advance of
a cycle and the batch status CANCELLED are left out here (cancelling is part of
`CreditPostingJobs`). A deadlock victim is an `ERROR` of its step.

**Runs.**

| run | instance | shows |
|---|---|---|
| `overlap` | 3 shares of one learner and month, cap 2, two windows that share one, 2 batches, 2 callers | `TypeOK`, `ClaimedOnce`, `MonthlyCap` (without reversals), `OnlySanctionedCredits`, `StaleIsRecoverable` |
| `crash` | two scenes (`MCSettlementScenes`, told by the windows of the batches): a reading batch of 2 facts with 2 callers that die and fail; a session's 2 facts in 2 batches with contexts that change, a fact that comes late, and reversals | `TotalsAgree` (`FinalTotalsExact`, `TotalsNeverOverstated`, `PausedStepIsVisible`), `CreditedOnce`, `AppendsOnlyWhilePosting`, `PostedIsForGood`, `KeepsTheLedgersPromise` |
| `live` | 2 facts, 1 batch, 2 callers that fail, fairness | `PostingEnds` |

Two callers are the smallest number that races, and a caller whose call has died
may resume. Two windows with one shared fact are the
smallest overlap of two batches. A step of one item gives every batch a step
boundary between its items. Every status of a batch and of an item is reached.

**Fairness** (`live` only). Strong fairness of each call's steps: calls are
threads of the server, and InnoDB grants row locks in the order of the requests, so
that a call whose lock is free again and again gets it in the end. Neither users
nor crashes nor the clock are fair.

**The abstract ledger.** `CreditLedger` knows facts and payments only: a fact is
recorded, sanctioned, and paid in one stroke with the others of its group, at most
once; a payment is taken back once, by an entry beside it. `KeepsTheLedgersPromise`
says that `CreditSettlement`, with its batches, items, runs and locks hidden by
the mapping in `Promised`, is such a ledger: every commit of a step is one payment of a
group, and nothing else that previews, failures, crashes or resumptions do is
visible in it.

**A known disagreement, not kept as a run.** The check before posting compares the
number of ready entries with the preview, not which they are
(`credit_settlement_batches.py:605`). With reversals, two learners and four shares, a
reversal that frees one learner's cap hides that another's is used up, and a
share is posted above the cap. `MonthlyCap` is therefore checked without reversals.

## 4. CreditPostingJobs

**State.** `job` is the import's row of `learning_credit_posting_jobs` (`live` says
that the lease lies ahead); `linked` the batches of the import; `batch` their rows
with the number of posted items (`n`) and the stored total (`posted`); `events` the
accepted events; `client` a user between the receipt and the reply of the
trigger; `run` a call of `run_job`, or of `process` from the page.

**Actions.** `ReadReceipt`/`Submit` split a confirmation where the code does: the
receipt is read on a connection of its own before the transaction of `submit`.
`Trigger`, `TriggerUncertain` and `DispatchUncertain` are the event and its reply.
A run is `Deliver`, `Claim`, `Check`, `Process`, `BeginBatch`, `Step`, `ReadTotal`,
`CloseStep`, `Result`, `ReadPause`, `Release`, and `Report` after two rounds or when
there is nothing to claim. `Pause`, `CreateBatches`, `Reconcile` are users'.
`LeaseExpires` is only possible under SLOW or CRASH: a run has a budget of 20 s
and a lease of ten minutes.

**Data.** A settlement fingerprint stands for the set of batches it was computed
from. Items are posted in order, one per step; how a step posts is the subject of
`CreditSettlement`. Events are a set; under LOSS an event may stay after delivery
(a duplicate), and the request for the next one may vanish.

**Runs.** `jobs` plays two scenes (`MCPostingScenes`): a race of two runs under SLOW and
LOSS, and runs that follow one another under every fault. It checks
`StartsByConfirmation` and `JobsSafe`: types, `SuccessIsPosted` (success means that all is posted) and
`PostedStaysLinked` (no import loses a batch with entries). `joblive` (scene "served": ERROR,
DIRECT, two runs, fairness) checks `ConfirmedWorkIsDone`: a confirmed job ends, and if it says success,
its batches are posted.
Two runs are the fewest that contend for a lease; a day of two items needs a
continuation between them. A preview is regenerated by a user beside a step, so that
one run suffices for that race, and it may die: its lease expires, its event is
delivered again.

**Fairness** (`joblive` only). Weak fairness of a started call, of the delivery of
an accepted event and of the reply to a user's request: server threads run, and
the cloud function's event queue delivers what it has accepted. Users confirm
when they like. There is no fairness for `Reconcile`.

**A known disagreement, not kept as a run.** `_finish` reads the pause without a lock
and then writes PENDING; a pause in between leaves a job that waits, shows as
waiting, cannot be triggered again and cannot be claimed
(`credit_posting_jobs.py:171`).

## 5. OpeningBalances

**State.** `status` is the header row of each source (an opening import or a year
import), `deficit` the status of the second header, `':deficit'`, that a deficit
import has among the opening imports; `prior` what a year import's rows have kept
of each balance; `balance`, `added`, `allocated`, `progress` and `entries` are the
tables of balances, adjustments, allocations, class progress and regular credits.

**Actions.** A request of the import pages is `Begin` (the named lock is free; the
header is read), `Check` (learners' rows are locked where the code locks them, the
source is validated again), `Write` (all statements are done: row locks are held,
the named lock is **released**) and `Commit`; `Abort` is every error. That cut is
the one the code makes: `_operation` is the inner context manager, so its lock ends
before `transaction()` commits. A regular entry is posted by `BatchGuard` and
`PostRegular`; a confirmation of attendance has read first (`ConfirmRead`,
`ConfirmGuard`) and decides on that snapshot.

**Data.** One class. A source is a file with cutoff, year and note and stands for its
fingerprint; a deficit source registered again after its learners' balances
changed is another source. Check's reads are one step, although the code reads
learner by learner. The shared lock that a foreign key puts on a parent row is left
out: it only makes a request wait longer. Reversals of entries are not modelled.

**Runs.** In `imports` two requests register, approve, post and cancel four sources of
the three kinds (an opening import, a deficit and two classifying ones that share a
learner) beside a batch and a confirmation of attendance, in every interleaving of
the named lock, the row locks and the commits: `ImportsSafe` (the conjunction of `TypeOK`,
`TotalsReconciled`, `WholeImports` and `ClassifiedWithinBalance`), `TotalsStated` (what a
learner is shown as confirmed is the figure of one approved file and never the sum of two,
in every status its imports can get into), `BatchEntriesAreLater`, `CancelledOpeningStays`. Two requests are the number at
which one is uncommitted while the other reads and writes.

**Finding.** `yeartwice`: **without any concurrency** a classifying import allocates
a year again that a deficit import has allocated, because both checks look only at
allocations under the id of the base balance; the learner's year is shown with
twice the points (`credit_year_allocations.py:242`).

**Known disagreements, not kept as runs.** The model has each of them. A cancellation
that reads before a posting commits turns POSTED into CANCELLED and the balances
stay (`credit_opening_balances.py:438`). For year imports it is the other way
round: a posting brings a cancelled import back (`credit_year_allocations.py:395`).
A confirmation of attendance decides on a snapshot older than the learner's lock and
posts before a cutoff (`credit_opening_balances.py:92`), which is why
`BatchEntriesAreLater` speaks of batches. Two years of one class are posted when
both requests have looked at its progress before either has committed
(`credit_year_allocations.py:392`).

**The workbook of historical credits.** `HistoricalCredits` has the rows and cells of
one workbook whose rows carry one class label (`sourceRow`, `sourceCell`, `mapped`), the
keys of recorded decisions (`decided`), the batches by their source fingerprint
(`frozen`: a fingerprint is the record of everything it is computed from), the entries
(`credited`, with the state of the review when they were made) and the local state of
each posting call. Review pages and scripts are one action each
(`upsert_class_mapping_candidates`, `confirm_class_mapping` with its re-match,
`apply_matches_to_staging`, `confirm_member_match`, the verdicts on missing totals,
years and months); a bulk confirmation is two, since it counts in its snapshot and
updates what is matched by then. A step of a posting call is `CheckCell` (learner
locked, preview compared) and `EnterCell` (what `_validate_historical_source_item` reads
again under locks), with the review in between; calls crash and batches are reconciled.
`HistorySafe` in `imports`, in three scenes: a cell is entered at most once although it
lies in batches of several fingerprints, and its staging row says whether it was; at the
moment of the entry the row is matched to that learner, its total agreed and the label
mapped to that class, and two people have looked at the batch; September is never
entered. The scenes keep to two rows with a cell each, two learners, two or
four fingerprints, and three or four decisions: one before a batch is frozen and two beside
its posting.

Disagreements that the model has and no run keeps: the key of a decision is never
freed, so that after approved, rejected, approved again, the last verdict is answered
as recorded and not applied (`historical_credit_review.py:70`), and so is a class that
is confirmed, changed and confirmed again; a confirmed class matches rows anew that
were confirmed by hand, and the same confirmation cannot be repeated (`:202`); a row
may be matched to another learner when some of its cells are entered, which splits it;
`confirm_month_period` accepts September, which only the dry run holds back
(`historical_credit_import.py:647`); and a workbook of another content is another
import, whose cells have keys of their own (`historical_credit_import.py:106`).

## 6. StudyMeetings

**State.** `meeting` has the rows of `study_meeting_sessions` with the attendees
(`who`) and the number of corrections, which stands for `updated_at`; `form` is a
group's `create_study_meeting` between the read of the last version and the wait for
its lock; `reviewed` the fingerprint in the last `review_confirm` audit; `ledger` the
entries of the one attendance credit of the cycle, first credits and differences;
`batch` the STUDY_MEETING batches by source fingerprint; `clerk` the local state of
each call of `confirm_and_settle_meeting_review`.

**Actions.** `Create` and `Register` are one registration; `Submit`,
`CorrectAttendees` one transaction each. A settlement is `ConfirmReview` (which
submits a draft on its way), `ReadDetail` (what the call believes it has confirmed is
read after the commit), `DryRun`, `Reconcile` of a batch whose call has died,
`BeginPost`, then `Enter`/`CommitItem` per learner (the transaction of an item from
the snapshot behind its locks to its commit), `ItemFails`, and `Finish`. `GiveUp`
and `Crash` end it in between.

**Data.** A list of attendees is the subset of the followed learners that it names.
`Proposals` is computed as the code does: whoever attends gets the first credit or,
when the ledger has one already and the net differs from what is due, the
difference under a key of this version; a difference that has been entered is
repeated as it was. A batch is its source fingerprint, the meeting and its
proposals, of which duplicates count as ready. One class, one cycle, one rule;
courses, the independent approval, reversals and photographs are left out.

**Snapshots.** Under REPEATABLE READ a plain read sees the state at the first one of
its transaction, and a lock that is taken later does not refresh it. That is why
`Register` acts on the draft `Create` has read, and why `Enter` tests the review and
`CommitItem` does not test it again.

**Runs.**

| run | instance | shows |
|---|---|---|
| `resubmit` | two groups, two settlements, and two scenes: one learner, three versions, at most 3 registrations and corrections; two learners, two versions, 2 registrations and corrections, settlements that fail and die | `MeetingsSafe` (`TypeOK`, `NetWithinOne`), `CreditsAreReviewed`, `SettledInFull` |
| `twoversions` | one group, two versions, one operator | a violation of `OneCurrentVersion` |

`Changes` bounds registrations, also those in progress, and corrections together; it is
the only bound besides the ids. Three versions of two groups are the fewest in which
a credit is given, taken back by another version and supported by the other group;
the credits of two learners meet only in the items of one batch, for which two
versions suffice (`CreditsAreReviewed` and `SettledInFull` are proved without bounds).

**Finding.** `twoversions`: the operator's confirmation submits a draft without
replacing the group's submitted version (`study_meeting_review.py:102`), so that
there are two current ones.

**Known disagreements, not kept as runs.** The model has each of them.
A registration cancels a draft that an operator has just confirmed, because its
re-read under the lock sees the older snapshot (`study_meetings.py:781`); the next
submission repairs it. A version that is replaced between an item's snapshot and
the meeting's lock still enters a credit (`credit_settlement_batches.py:2070`), which
the next version takes back. A correction removes an attendance that the
settlement of another group counted as the reason to leave the credit
(`study_meeting_attendees.py:103`); nobody takes it back until that group is confirmed
again. And a learner of a frozen batch who is credited by another group's meeting
leaves the fingerprint as it is but fails the preview
(`credit_settlement_batches.py:616`), so that the batch's other items are stuck.

## 7. Registries the staff keep

The services of these registries share a habit: a call reads what it decides by in one or
several queries, then writes in a transaction. Where the transaction locks and reads again, an
overlapping call is noticed; where it does not, it acts on what it has read. Each module cuts its calls at
exactly these points: a call is a row of `…Call`, which keeps the operation and what was read. A
transaction under the locks it needs is one action. The `registry` run composes the modules in `MCRegistry`.

| module | state and calls | checked |
|---|---|---|
| `WechatBindings` (`wechat_identity.py`) | the row of a login with its version, tokens, learners linked to persons; verify, bind staff, revoke by token or by a fresh login, resolve | `BindingsSafe`: tokens name their person, what is void stays void, one login per learner |
| `StaffAccounts` (`iam.py`, `identity_admin.py`, `staff_management.py`) | accounts, a login between password check and token, sessions, role grants; suspend, reset, create and update staff | `StaffSafe`: sessions end with a suspension or a new password, a grant is given once |
| `MemberRenewals` (`renewals.py`, `renewal_expiry.py`, `members.py`) | members with status and due month, cycles, an import of a year's list; apply, roll back, decide, maintain, sweep, merge | `RenewalsSafe`: one cycle per member and year, a sweep lapses only who has not paid by then |
| `Enrollment` (`enrollment.py`, `wechat_operations_v2.py`) | public links, applications with the guard of their phone, registered phones; create, rotate, disable, submit, review (fields are set, cleared or left), pay, reject, convert | `EnrollmentSafe`: one link per target, guards end with their applications, who is converted has paid and stays as converted |
| `LearningCycles` (`learning_cycles.py`) | plans, rounds, cycles of a class, credits posted meanwhile; bind, restart, correct, settle a class meeting, reopen a repaired cycle, advance by credits | `LearningSafe`: one active round, one open cycle, what was held stays |
| `Attendance` (`attendance_*.py`, `api/attendance.py`) | one activity, the source's check-in and revision, record, score, confirmation, rulings; pull, score, adjudicate, make up, confirm, delete an unused or a test activity | `AttendanceSafe`: makeups survive pulls, rulings end with confirmation, only unused activities are deleted, until a call has written from an outdated picture (`outdated`) |
| `MeetingEvidence` (`study_meeting_evidence.py`, `study_evidence_storage.py`) | rows of photographs, the object store, late objects; upload in three steps, submit, cleanup | `EvidenceSafe`: a photo that is shown can be opened, a meeting keeps the photo it was submitted with, no object is without a row |
| `ServiceInvitations` (`followups.py`, `followup_invitations.py`) | one service item, invitations, collaborators; invite, accept, refuse, adjust, record, close | `CareSafe`: who is in charge has agreed, an accepted invitation makes a partner, a closed item has a record |
| `OperationRhythm` (`operation_rhythm.py`, `update_class_operations`) | calendar, template offset, items of a month, birthday care; generate, synchronise, edit by hand, complete on the item or beside it | `MonthSafe`: what was maintained by hand stands, a birthday has one row and one call that is told it has recorded it, the same on the item unless two cares raced (`raced`), the meeting follows the calendar unless calls have overlapped (`met`) |

**Scenes and bounds.** Two calls of a kind, two logins, members, links, applications or
photographs are the fewest that can meet. Of the two logins of "bindings" one at most has its row written over by an
outdated verification. Renewals are played in "renewals" (one member in a year of two
months, all operations but the merge) and "merger" (two records); enrollment in
"links" and "applications" (two applications by one link, of which one at a time is worked on); learning in "rounds"
(posting, no corrections) and "periods" (one round); attendance in "rulings" (two kinds of rulings beside pulls, scores and
confirmations of an activity that nobody deletes, up to the first step from an outdated picture) and "deletions" (makeups only);
the month in "rhythm" (overlapping calls, a birthday completed on its item and beside it) and "calendar" (calls one by one). The scene
"invitations" keeps apart calls about invitations and calls about records. `Versions`,
`Generations`, `CycleIds`, `Rounds`, `Periods`, `Revisions` bound counters; every one is high
enough for a value to be reused or superseded once.

**Where the code does not notice an overlap.** Calls overlap freely in all of these modules. In some places the code writes
from a view that others have changed since, and what it promises is lost. There a history variable records that it has happened, and
the property is about all other behaviours: `overwritten` has the logins whose row a verification has written over after
it had changed, `overtaken` the applications to which a review or a rejection was written that had read them before their
conversion, `outdated` what pulls, rulings and deletions of attendance have written or decided from an old picture, `raced`
that a care has completed an item whose status had changed, `met` that calls of the month were under way together. No code reads these
variables, and no action waits for them.

**Known disagreements, not kept as runs.** The models have each of them.

- Bindings: a verification decides by the row it has read and may write a version that was void, so that revoked tokens
  resolve again (`wechat_identity.py:408`), or put another person behind a version whose tokens are out;
  docs/verification/2026-10-03 (绑定和解绑在应用内互斥) is about the mini program. Two staff logins may bind one person who is no member.
- Staff: who has ceased to be an administrator between the check and the write still
  gives a restricted grant (`RestrictedByAdmins`); an update writes a stale `is_active` over a suspension.
- Renewals: `rollback_import` tests its cycles before its transaction (`renewals.py:985`) and
  deletes one that was decided since (`DecidedIsNotRolledBack`); a history cycle overwrites a decision made
  beside it; an update that read a record before its merge reactivates it.
- Enrollment: a review reads the application before its transaction (`enrollment.py:1768`) and writes the fields that were sent by
  id (1932): one that comes after the conversion can take target and centre from an enrolled application or set it back
  to APPROVED. A rejection does the same with the status (2053), against 已正式入塾的申请不能驳回 (2058). A review may also clear the target of an application
  that is approved. An approval after a rejection leaves two open applications of a phone; the rate limit reads, then writes (1099).
- Learning: posting a credit locks no class, so that a plan is corrected under a credit
  (`CreditsFollowThePlan`, `learning_cycles.py:1233`); retiring a plan locks no class; a correction to an
  index below a closed one blocks the next confirmation.
- Attendance: a pull that opened its view before a makeup writes over it (`attendance_sync.py:254`), and a ruling that had looked
  for the confirmation before it is made after it (`api/attendance.py:1175`). A deletion asks for check-ins, rulings and credits before it
  asks the source (`attendance_deletion.py:35`) and does not look again; a pull that was let in before writes to the deleted activity, or
  makes it ACTIVE again (`attendance_sync.py:137`). The next pull overwrites a ruling of leave, and an older revision may win when two pulls overlap.
- Evidence: when the commit of an activation succeeds and its answer is lost, the handler
  removes the object of a photo that is shown (`study_meeting_evidence.py:137`); that fault is not in the run.
- Invitations: answers are read and then written by id. A record that began before reopens a closed item; an
  outdated refusal overwrites an acceptance; two invitations of one person can be active; an expired invitation
  that nobody answers blocks another one.
- The month: an edit writes back the meeting's date it has read (`operation_rhythm.py:378`), so that
  `MonthSafe` asks for the calendar's date only until calls have overlapped, and the scene "calendar" plays them one by one; two clerks who complete
  the same item at the same time are both told that they have created the record (`member_care_actions.py:403`, by id); a birthday may have a
  completed item and a row of its own, which nothing compares (441); the retry after a duplicate birthday reads again in the same snapshot and fails.

**Where learners belong.** `MemberRelations` (`members.py`, `study_membership.py`,
`organization_management.py`, `member_group_reassignment.py`, `volunteer_positions.py`) has the tree of centres, classes and
groups, the record of each learner with its relations in force, and the appointments; its actions are creating and
editing a learner, merging two, transfer between groups, the reassignment of a class, moving a class to another centre, opening and
closing units, appointing, and ending or suspending a post. `RelationsSafe` says that record, relations and tree agree about who
was never merged (`Aligned`), and that the post set with the record follows the learner (`PostFollows`). Calls are atomic there:
what is hard is that six pages write four tables. Special cohorts and classes directly under the school are left out.

`MonthlyRoster` (`study_meeting_monthly_roster.py`) has one month, its rows and its clock; edits and transfers take their view first and wait
for the month's row then. `RosterSafe` says that a report attributes a learner to the class in which the month began
(`ReportKeepsClass`), `RosterKept` that a frozen month does not change. Merges, class moves and new learners do not capture and are left out.

Both are played in scenes of `MCImports`: "tree" (one learner, one post, all moves), "posts" (one learner, every page that
appoints), "merges" (two learners), "overlaps" (an edit and a transfer of one learner) and "refreshes" (edits of two learners). Two
centres with a class each, two groups of one class and a class that is closed and one that is not opened yet are the fewest with
which every move and refusal occurs.

Known disagreements of these two, which the models have or name as left out:

- A merge leaves two `PRIMARY_REGION` rows, or a class of another centre; `update_member` may then be refused by the unique
  index until the class or the centre changes. The duplicate keeps its posts.
- Reactivating a learner whose class was closed meanwhile leaves an effective relation to a closed unit. A learner or a post that was out of
  force while the learner moved comes back with the old organisation; ENDED, SUSPENDED, ACTIVE revives an appointment, against
  已结束或已撤销的历史任职不能自动恢复 (`volunteer_management.py:792`). Two posts in force that are not service posts block every edit and class move.
- `update_member` reads its conditions before its transaction, so that a class move in between leaves a class of another centre.
- A month is only frozen by a call between its 30th day and its end; a month that nobody froze follows later edits for learners
  without a row. A capture ignores the attendance that the refresh's projection looks at. A stale transfer beside an edit leaves two
  groups. Two captures of one new row make one of the edits fail.

## 8. What runs unattended, and the readings imported by hand

| module | state and steps | checked |
|---|---|---|
| `CloudRunRelease` (`scripts/deploy_cloudrun_api.py`) | revisions and their soundness, the release order, the gateway's traffic, a management task, the controller's run; create, wait, route, prove, promote, restore, resume, close | `ReleasesSafe` (with the next): ordinary traffic reaches sound revisions only; a run that ends without the mark of a changed route has left none |
| `RehearsalEnvelope` (`scripts/r3_execution_envelope.py`, `r3_envelope_journal.py`, `r3_cloud_write.py`) | journal rows, permits in memory, the platform; reserve, dispatch, observe, restore, close; and the write transport that spends an approval before its call | `ReleasesSafe`: nothing is replayed, a route is journalled while it may be active, what is closed is clean, a budget is spent once |
| `MonthlyReports` (`monthly_core_reports.py`, `report-dispatch.js`, `report-storage.js`) | a state object per centre with its etag, workbooks by attempt, events, leases; sweep, dispatch, claim, export, publish, fail | `ReportsSafe`: READY can be downloaded and is withdrawn by a new attempt only; `ReportsSettle` |
| `ReadingSync` (`reading-sync-dispatch/index.js`, `reading-sync-worker/server.mjs`, `reading_sync_automation.py`) | chains of events, the one browser, sources, receipts; collect, save, batch, submit, look at the posting, retry, go on | `SyncSafe`: one collection at a time, only what is complete is skipped, the chain visits all |
| `HqReadings` (`hq_reading_import.py`) | files and their batches, observations by identity and day, identities, facts, relations; import and confirm, each a view and a step that writes | `FactsAreBound`: facts and confirmed observations are of the learner to whom their identity is bound; `ReadingsSafe`: facts in force are those of eligible, complete observations wherever no call wrote from an outdated view, and a CONFIRMED batch has nothing left to confirm |

The `operations` run plays them in nine scenes of `MCOperations`. The platform's control plane, the object store and
the event queue are outside of the repository and are modelled by what the code relies on: a request may be refused, or
carried out without an answer; a conditional write succeeds for one of its rivals. Runs die anywhere.
Three revisions let one release follow another; two workers contend for a lease; two tasks make a chain, "doubled" by
an answer that is lost; two envelopes, candidates and handles let a second process go on with a first one's journal;
three approvals share a budget and a reference (`SharedGrants`).
Three files of two learners of one name: one with an account in two groups, on days that overlap and contradict each
other, one without; two calls overlap (`ThreeBooks`; a scene has two of the files), while the learners stay, move or are not in the class (`ThreeHomes`). `Tries`, `Attempts` and `Polls` are 3, 2 and 30 in
the code and 2, 1 and 1 in the run: the next value repeats the same step.

**Fairness** (`ReportsSettle` only). The timer sweeps again and again (weak fairness of
`StartSweep`), a function that was invoked goes on until it ends or dies (`Work`), and leases expire. Crashes and
failing requests are bounded, as in every statement that something is done at last.

**Finding.** `partialposting`: an import fails between the creation of the batches and the submission of their posting job. The
retry finds batches, looks as often as it may at a posting that nobody has submitted, and goes on without a receipt of
failure, against 有效来源自动保存和自动确认入账 and 有界重试并记录失败.

**Known disagreements, not kept as runs.** The models have each of them.

- Release: a best-effort restoration that is refused leaves the candidate's traffic in FAILED
  (`deploy_cloudrun_api.py:2849`); restoration reads the traffic without waiting for it (2168) and overwrites what an operator has
  promoted meanwhile.
- Rehearsal: an application observed as not having occurred can still be dispatched; a rolled back candidate's
  identity is lost although the comment says it is remembered (`r3_execution_envelope.py:127`), so that its envelope is
  never closed and keeps the service.
- Reports: a sweep reads a status and then the state again (163, 166) and may replace a report that was published in
  between; a worker that dies between workbook and READY makes the next one of that attempt fail.
- Reading: when all rows of a source are blocked, its receipt says NEEDS_REVIEW but the live status
  SUCCESS, and the task is skipped (such reports are not in the run).
- Workbooks: an import whose view is older than a confirmation takes the member off the observation again
  (`hq_reading_import.py:1069`), while identity and fact stay, against "never allowed to clear or switch the permanently bound
  platform member id" (1033) and 已绑定 `member_id` 不被清空或切换 (`docs/verification/2026-09-07-C7.1.2…`:106). A confirmation in the older view
  leaves a row eligible that a newer file has as not complete (1669), with its fact in force. `crossed` marks such days. Two
  confirmations of one batch each count the other's rows as open: it stays MATCHING with all its rows confirmed (1727), and so does a
  batch whose rows a later file took over. Files are believed in the order of their import, not of their export.

## 9. Proofs

`CreditSettlementProofs` proves, for every number of facts, members, windows,
batches, callers and every set of faults:

- `TypeCorrect`: `Spec => [](TypeOK /\ Claimed)`. `Claimed` is the strengthening:
  a call past its claim works on a batch.
- `LedgerInvariant`: the inductive relation of batches, items, links, ledger and
  row locks (`LedgerInv`, the conjunction of seven named parts).
- `CreditsClaimedOnce`, `CreditsUnique`: `[]ClaimedOnce` and `[]CreditedOnce` follow.
- `LedgerAppends`: the action property `AppendsOnlyWhilePosting`.

The assumptions are those of `CreditSettlement` (finite sets, `None` outside of
them, the windows of facts). `ClaimedOnce` is not inductive: that two
batches do not claim one entry follows from the order of a step, which first
takes the learners' rows and the batch's row, then looks whether its facts are
still without an entry, and commits.  `LedgerInv` therefore also says that a run
between its two steps holds the rows of its learners and of its batch, that its
facts stay without an entry meanwhile (`Safe`), that an entry belongs to an item of
the batch it names (`Owned`, `OneBatch`) and that an item is linked exactly when it
is POSTED (`Linked`).

`SettlementKeepsLedger` proves the refinement, for the same constants:

- `SettlementKeepsPromise` states `KeepsTheLedgersPromise`: initial states map to initial states
  of the ledger and each step to one of its steps or to none.
- `CreditsAreSanctioned`: `[]OnlySanctionedCredits`. A run carries its batch's
  sanction from the claim to the last commit: no column it depends on is ever cleared
  (`Working`), a batch without a row has none to give (`Unclaimed`), and the approver is not the
  maker (`FourEyes`).

`SettlementTotalsProofs` goes on from `LedgerInv`:

- `BatchTotalsAgree`: `[]TotalsAgree`, and `StalePostingEnds`: `[]StaleIsRecoverable`. The inductive
  `TotalsInv` says that the items of a batch are cut once, that an item is linked for good, and so
  that the number a run has read is at most the number POSTED now; sums
  are compared by the inclusion of the sets they are taken over.
- `PostedStays`: the action property `PostedIsForGood`.
- `CapHolds`: `[]MonthlyCap`, under the hypothesis that no entry is reversed (`"REVERSAL" \notin Faults`).
  `CapInv` says that what a preview left out stays above the cap with the earlier shares of its batch that
  have no credit yet (`LeftOut`), and that a run between its two steps has room for the one share it has taken (`Room`):
  the comparison with the frozen preview then rules out another batch's shares. The windows of shares are disjoint from the others
  (`WindowAssumption`). With reversals the cap does not hold, see section 3.

`PostingJobsProofs` proves for any jobs, events and confirmations, and every set of faults:

- `JobsAreSafe`: `[]JobsSafe`, from the inductive `JobsInv`. A run past its claim that still
  holds the lease works for the job's own confirmation (`LeaseOK`); what a
  confirmation, an event or a run names was linked before it was named, or cancelled (`Known`); and
  batches only move forward (`Forward`, `Done`), so that what a run found done stays done although it read it before
  the job's row was locked.
- `StoppedStaysStopped`: the action property `StartsByConfirmation`.

`ImportsProofs` proves for any learners, sources, rows, units, posts and numbers of concurrent
transactions, of `OpeningBalances`:

- `NoCreditTwice`: `[]BatchEntriesAreLater`. The strengthening says that a learner's
  row has one owner (`Apart`) and that what an owner has decided under it still holds
  (`Decided`): no entry up to the cutoff for a posting, no balance over the date for
  a batch.
- `CancellationHolds`: the action property `CancelledOpeningStays`, from `Exclusive`: an uncommitted update has
  its header for itself.
- `TotalsAreStated`: `[]TotalsStated`. A balance is a row of its import, and who was added to was so once, up to the
  total of the import that did (`Stated`): the adjustment counts or not, so one of the two imports states the total.
- `ImportsAreSafe`: `[]ImportsSafe`. What a posting has checked of a learner stays so until its commit
  (`PostsReady`, by `Apart`), and who posts a source found it approved (`Begun`). An adjustment has an allocation
  of the same learner, an allocation a balance (`Rooted`); a deficit import requires that nothing is allocated, so that only one
  can ever add to a learner's balance, and `Settled` adds up what it left.
  `PointsOf` counts pairs, so that one more row counts its points (`PointsOfGrows`).

of `MonthlyRoster`:

- `RosterReportsAreSafe` and `RosterIsKept`: `[]RosterSafe` and the action property `RosterKept`. A view has no
  more rows than there are, of the same classes; and whoever has no row in it is, as long as rows can be
  captured, in the class of the beginning (`ViewOK`): an old view captures no other class.

and of `HistoricalCredits`:

- `HistoryIsSafe`: `[]HistorySafe`. What a batch has ready is of a learner and not of September (`BatchOK`), whoever posts
  it found it approved, and a cell has one entry and one batch that entered it exactly when it is POSTED (`CreditedInv`).

and of `MemberRelations`:

- `RelationsAreSafe`: `[]RelationsSafe`. Neither half is inductive by itself. `LearnersInv` adds that who is in service has the
  centre of the record among its `PRIMARY_REGION` rows, even after a merge, so that an edit which keeps the centre moves no
  post; that who is not in service has left; and that no relation is to a unit that was never created, so that a new class
  cannot split one that a learner is in. `PostsInv` adds that a post out of force is loose, and that a post which is
  not loose is of a learner in service: a unit is closed only when no such learner refers to it. The lemmas follow one record through an
  edit (`HomeAfter`, `EditedWell`) and its posts (`SentWell`, `PositionWell`, `AppointedWell`).

They assume what the modules assume of their constants: `None` is no balance, seat, row, record or reason, and nothing about
what the rows say.

`StudyMeetingsProofs` proves for any learners, groups, versions, corrections and
numbers of concurrent settlements:

- `CreditsReviewed` and `SettlementsAreWhole`: `[]CreditsAreReviewed` and
  `[]SettledInFull`, from the inductive `MeetingInv`. It says besides that an item in
  its transaction is of a meeting whose present attendees were reviewed (`Decided`; a
  correction cannot come between, because it waits for the batch's row), that two
  such items are of different learners (`Apart`) and that every POSTED item has its
  entry (`Whole`). That a first credit is proposed for attendees only is a lemma about
  `Proposals`. `None` is assumed to be no row of the table.

- `OneCreditOrNone`: `[]MeetingsSafe`. Every item in its transaction holds its learner's row, so that what
  it will enter (`Promised`) added to the learner's entries is one credit or none (`NetInv`). The types in `MeetingsSafe` need that
  a meeting's corrections are among those counted (`RevisionsAreSpent`). A sum of points is the difference of
  two cardinalities, which `PointsGrow` computes for one more entry. Groups are assumed to be finite.

`RegistryProofs` proves the safety of six of the registries of section 7, for any logins, people and calls:

- `BindingsAreSafe`: `[]BindingsSafe`, whatever calls overlap. `BindingsSafe` excepts the tokens of
  logins in `overwritten`. `TokenInv` adds to the types that a call which has read a verified row has read
  the row of the person it verifies (`SeenIsOwn`); and, until the row is written over, that no token's version is ahead of its row,
  the row's own version being that of its person (`TokensAreDated`), and that void versions are behind it (`VoidIsPast`).
- `StaffIsSafe`: `[]StaffSafe`. A session's era is that of its login's password check; eras move only
  with the version, and whoever holds the account's row knows its grants.
- `EnrollmentIsSafe`: `[]EnrollmentSafe`. Whoever creates a link holds its root and has seen that there is none;
  a guard names an application at work; no handler clears a payment or a conversion, and what is handled after the
  conversion either had read it before, which `overtaken` records, or is refused.
- `EvidenceIsSafe`: `[]EvidenceSafe`, if no commit answers with an error after it was made
  (`"UNSURE" \notin Mishaps`, see section 7). An upload has its row for itself until it is over, and cleanup only takes
  rows that can be removed and have no upload.
- `CareIsSafe`: `[]CareSafe`. Invitations are numbered and never written over, and while one waits for
  an answer nobody can be asked along.
- `MonthsAreSafe`: `[]MonthSafe`. What a call has seen of an item maintained by hand still stands (`SeenStands`), an item in
  a status only people give is as they left it (`RowOK`), and a call that has met no other works on what is there
  (`AloneIsFresh`). A care has read an item that was not completed, so that a second answer means that the status has changed (`raced`).

`OperationsProofs` proves for the modules of section 8, whatever the files, learners, workers, runs and tasks:

- `ReadingInvariant`, `FactsBound` and `ReadingsAreSafe`: `[]FactsAreBound` and `[]ReadingsSafe`. A call's view is of an
  earlier state, and bindings only grow (`Earlier`). What a batch counts as confirmed is
  confirmed (`Counted`), and a fact follows its observation on all days that no outdated view has touched (`FactsFollow`).
- `SyncIsSafe`: `[]SyncSafe`, if no report has all its rows blocked (`"blocked" \notin Reports`: with
  one the property does not hold, section 8). `SyncInv` says that the learner a collector works for is the one
  its event is about, and that the steps before the one it is at have been made.
- `ReleasesAreSafe`: `[]ReleasesSafe`. A run holds a stable revision that is sound, and a candidate
  as far proven as its step says (`ReleaseInv`). At most one envelope is open, one that was called was
  dispatched first and once, and a route belongs to an envelope that may have one (`JournalInv`). A budget is spent
  by whoever reserved it (`BudgetInv`).
- `ReportsAreSafe`: the action property `ReportsSafe`. A worker that goes on after its claim has seen its own
  RUNNING, and one that publishes has put its workbook in the store, where nothing is replaced (`ReportsInv`).

The assumptions on the constants that these proofs needed were added to the
modules: `None` is no status, role, row or event, generations begin with 1, invitations are numbered from 1, and an
approval grants what its three fields say.

**Only model-checked.** Liveness in every module (the prover has no ENABLED); the invariants of
renewals, learning and attendance: calls there act on what they read before, and an inductive invariant
has to relate every such view to the rows.
No definition is RECURSIVE.

## 10. Not modelled

Parsing and layout of workbooks, notification texts, read models, user interfaces
and deployment have no state that a property could be about. Of the components of
section 1, these have no module: plans, check-in rosters, course rules beyond their
use in settlement, member roster files and care visits, WeChat messaging, and the scripts of a single migration. They are
single transactions over rows that nothing else writes, or read models, or are run once under supervision; their interplay with the
modules above is through facts and statuses that the modules take as inputs. Vue pages and the mini program call the services one
request at a time and hold no state that outlives a page. Redirections of a feature gate while calls are on their way are not modelled.
`CHECK_DEADLOCK FALSE` stands in the configurations because the system may come
to rest: all batches are closed and nobody asks for anything.
