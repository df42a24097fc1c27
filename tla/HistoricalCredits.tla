--------------------------- MODULE HistoricalCredits ---------------------------
(***************************************************************************)
(* Credits of the time before the platform: cells of a workbook are        *)
(* staged, matched to learners, reviewed, frozen into batches by class and *)
(* period, approved by another person, and entered in the ledger one by    *)
(* one, while the review goes on.                                          *)
(*                                                                         *)
(* Source: app/services/historical_credit_import.py,                       *)
(* historical_credit_matching.py, historical_credit_review.py, and the     *)
(* HISTORICAL branches of credit_settlement_batches.py.                    *)
(*                                                                         *)
(* One workbook, whose rows carry one class label; a row has its total or  *)
(* misses it.  Rows without credit and rows whose total differs from their *)
(* cells are never ready and are left out.  How one batch is posted by     *)
(* several calls, or resumed while its call lives, is CreditSettlement's.  *)
(***************************************************************************)
EXTENDS Integers, FiniteSets, StudyUnits

CONSTANTS
    SourceRows,  \* rows of the workbook
    Cells,       \* its cells with points
    RowOf,       \* the row of each cell
    TotalMissing,\* rows whose total has to be approved
    Persons,     \* learners
    NamedIn,     \* of each class: the learners of a row's name, whom it had in the periods of the row
    Snapshots,   \* fingerprints of rosters that reviewers refer to
    Staff,       \* who creates and approves batches
    Posters      \* concurrent calls of post_historical_credit_batch

Matches == {"NOT_RUN", "AUTO_MATCHED", "CONFIRMED", "AMBIGUOUS", "NOT_FOUND"}
Verdicts == {"APPROVED", "REJECTED", "NEEDS_SOURCE_CORRECTION"}
TotalStates == {"NOT_REQUIRED", "PENDING"} \cup Verdicts
Reasons == {"MEMBER_NOT_ACTIVE", "DUAL_TRACK_PENDING", "PERIOD_YEAR_ACCEPTANCE_REQUIRED"} \cup Matches \cup TotalStates

ASSUME HistoryAssumption ==
    /\ RowOf \in [Cells -> SourceRows] /\ TotalMissing \subseteq SourceRows
    /\ NamedIn \in [Classes -> [SourceRows -> SUBSET Persons]]
    /\ None \notin Persons \cup Classes \cup Staff \cup Cells \cup Reasons

VARIABLES
    serving,     \* learners whose members.status is ACTIVE
    mapped,      \* the learning_credit_import_class_mappings row of the label
    sourceRow,   \* learning_credit_import_rows
    sourceCell,  \* learning_credit_import_items
    decided,     \* keys of learning_credit_import_decisions
    bulk,        \* a bulk confirmation that has counted
    frozen,      \* batches by their source fingerprint, with their items
    credited,    \* HISTORICAL rows of learning_credit_entries
    posting      \* local state of each poster

historyVars == <<serving, mapped, sourceRow, sourceCell, decided, bulk, frozen, credited, posting>>
reviewVars == <<mapped, sourceRow, sourceCell, decided, bulk>>

NoPosting == [pc |-> "idle", batch |-> None, cell |-> None, todo |-> {}]

\* A cell is of a month, of September, which two rules may count, or of the year only.
ReviewOf(of) == CASE of = "MONTH" -> "READY"
                  [] of = "SEPTEMBER" -> "DUAL_TRACK_PENDING"
                  [] of = "YEAR" -> "PERIOD_REVIEW_REQUIRED"

\* register_suzhou_credit_workbook
HistoryInit ==
    /\ serving = Persons
    /\ mapped = [status |-> "NONE", class |-> None]
    /\ sourceRow = [r \in SourceRows |->
          [match |-> "NOT_RUN", who |-> None, snapshot |-> None,
           credit |-> IF r \in TotalMissing THEN "PENDING" ELSE "NOT_REQUIRED"]]
    /\ \E of \in [Cells -> {"MONTH", "SEPTEMBER", "YEAR"}] :
         sourceCell = [c \in Cells |-> [staged |-> "PENDING_REVIEW", of |-> of[c], period |-> ReviewOf(of[c])]]
    /\ decided = {} /\ bulk = None
    /\ frozen = [b \in {} |-> None]
    /\ credited = {}
    /\ posting = [p \in Posters |-> NoPosting]

(***************************************************************************)
(* The review.                                                             *)
(***************************************************************************)
MapConfirmed(map) == map.status \in {"EXACT", "CONFIRMED_ALIAS"} /\ map.class # None

\* upsert_class_mapping_candidates; apply_matches_to_staging does the same before it matches
Propose(status, k) ==
    /\ mapped' = [status |-> status, class |-> k]
    /\ UNCHANGED <<serving, sourceRow, sourceCell, decided, bulk, frozen, credited, posting>>

\* The one learner of the name whom the class had, if eligible; a label without a class matches nobody.
Matched(row, k, r, snap, eligible) ==
    LET hits == IF k = None THEN {} ELSE NamedIn[k][r]
        one == Only(hits \cap eligible)
    IN [row EXCEPT !.snapshot = snap,
          !.who = IF Cardinality(hits) = 1 THEN one ELSE None,
          !.match = IF Cardinality(hits) > 1 THEN "AMBIGUOUS" ELSE IF one # None THEN "AUTO_MATCHED" ELSE "NOT_FOUND"]

\* confirm_class_mapping with _rerun_confirmed_class_mapping: rows that were confirmed by hand are matched anew.
ConfirmClass(k, snap) ==
    LET key == <<"CLASS_MAPPING_CONFIRM", k, snap>> IN
    /\ mapped.status # "NONE" /\ key \notin decided
    /\ decided' = decided \cup {key}
    /\ mapped' = [status |-> "CONFIRMED_ALIAS", class |-> k]
    /\ sourceRow' = [r \in SourceRows |-> Matched(sourceRow[r], k, r, snap, serving)]
    /\ UNCHANGED <<serving, sourceCell, bulk, frozen, credited, posting>>

\* apply_matches_to_staging, by the script: the label is a class's exactly or is not recognised; learners of any status
MatchStaged(k, snap) ==
    /\ mapped' = [status |-> IF k = None THEN "PENDING_REVIEW" ELSE "EXACT", class |-> k]
    /\ sourceRow' = [r \in SourceRows |-> Matched(sourceRow[r], k, r, snap, Persons)]
    /\ UNCHANGED <<serving, sourceCell, decided, bulk, frozen, credited, posting>>

AutoMatched == {r \in SourceRows : sourceRow[r].match = "AUTO_MATCHED"}
BulkKey(call) == <<"AUTO_MATCH_BULK_CONFIRM", call.snapshot, call.count>>
\* bulk_confirm_high_confidence_matches counts in its snapshot ...
CountBulk(snap) ==
    /\ bulk = None /\ AutoMatched # {}
    /\ \A r \in AutoMatched : sourceRow[r].snapshot = snap
    /\ bulk' = [snapshot |-> snap, count |-> Cardinality(AutoMatched)]
    /\ BulkKey(bulk') \notin decided
    /\ UNCHANGED <<serving, mapped, sourceRow, sourceCell, decided, frozen, credited, posting>>
\* ... and confirms the rows that are matched by now, or fails.
ConfirmBulk ==
    /\ bulk # None /\ bulk' = None
    /\ \/ UNCHANGED <<sourceRow, decided>>
       \/ /\ BulkKey(bulk) \notin decided
          /\ decided' = decided \cup {BulkKey(bulk)}
          /\ sourceRow' = [r \in SourceRows |-> IF r \in AutoMatched THEN [sourceRow[r] EXCEPT !.match = "CONFIRMED"] ELSE sourceRow[r]]
    /\ UNCHANGED <<serving, mapped, sourceCell, frozen, credited, posting>>

\* confirm_member_match
ConfirmMatch(r, m, snap) ==
    LET key == <<"MEMBER_MATCH_CONFIRM", r, m, snap>> IN
    /\ key \notin decided
    /\ decided' = decided \cup {key}
    /\ sourceRow' = [sourceRow EXCEPT ![r].match = "CONFIRMED", ![r].who = m, ![r].snapshot = snap]
    /\ UNCHANGED <<serving, mapped, sourceCell, bulk, frozen, credited, posting>>

\* approve_calculated_totals, resolve_credit_anomalies: each verdict on a row is recorded once.
Judge(r, verdict) ==
    /\ r \in TotalMissing /\ <<verdict, r>> \notin decided
    /\ decided' = decided \cup {<<verdict, r>>}
    /\ sourceRow' = [sourceRow EXCEPT ![r].credit = verdict]
    /\ UNCHANGED <<serving, mapped, sourceCell, bulk, frozen, credited, posting>>

\* accept_year_only_period, for the cells of a selector
AcceptYear(C) ==
    /\ C # {} /\ \A c \in C : sourceCell[c].period = "PERIOD_REVIEW_REQUIRED"
    /\ sourceCell' = [c \in Cells |-> IF c \in C THEN [sourceCell[c] EXCEPT !.period = "YEAR_ACCEPTED"] ELSE sourceCell[c]]
    /\ UNCHANGED <<serving, mapped, sourceRow, decided, bulk, frozen, credited, posting>>

\* confirm_month_period does not except September.
ConfirmMonth(c) ==
    /\ sourceCell[c].of # "YEAR"
    /\ sourceCell' = [sourceCell EXCEPT ![c].period = "MONTH_CONFIRMED"]
    /\ UNCHANGED <<serving, mapped, sourceRow, decided, bulk, frozen, credited, posting>>

(***************************************************************************)
(* The proposal: dry_run_historical_credit_import with                     *)
(* _historical_source_groups.  It reads what is committed.                 *)
(***************************************************************************)
InLedger == {e.cell : e \in credited}
TotalAgreed(r) == r \notin TotalMissing \/ sourceRow[r].credit = "APPROVED"
Identified(r) == sourceRow[r].who # None /\ sourceRow[r].match \in {"AUTO_MATCHED", "CONFIRMED"}

\* Faulty variant: what a reviewer has confirmed is no longer pending.
DualTrackByReview(c) == sourceCell[c].period = "DUAL_TRACK_PENDING"
\* September is counted by two rules until somebody decides.
DualTrack(c) == sourceCell[c].period = "DUAL_TRACK_PENDING" \/ sourceCell[c].of = "SEPTEMBER"

\* Why a cell cannot be entered; None if it can.
Blocked(c) ==
    LET r == RowOf[c] IN
    IF sourceRow[r].who \in Persons \ serving THEN "MEMBER_NOT_ACTIVE"
    ELSE IF ~Identified(r) THEN sourceRow[r].match
    ELSE IF ~TotalAgreed(r) THEN sourceRow[r].credit
    ELSE IF DualTrack(c) THEN "DUAL_TRACK_PENDING"
    ELSE IF sourceCell[c].period = "PERIOD_REVIEW_REQUIRED" THEN "PERIOD_YEAR_ACCEPTANCE_REQUIRED"
    ELSE None

\* The group of a period as a fingerprint sees it; `own' are cells of which an entry is expected.
Proposed(period, own) ==
    [map |-> mapped, period |-> period,
     facts |-> [c \in {x \in Cells : sourceCell[x].of = period /\ (x \notin InLedger \/ x \in own)} |->
                  [who |-> sourceRow[RowOf[c]].who, blocked |-> Blocked(c)]]]
ReadyIn(b) == {c \in DOMAIN b.facts : b.facts[c].blocked = None}
\* _assert_current_preview
StillProposed(b) == MapConfirmed(mapped) /\ Proposed(b.period, frozen[b].entered) = b

Unsettled == {b \in DOMAIN frozen : frozen[b].status \in {"POSTING", "PARTIAL_FAILED"}}

\* dry_run_historical_credit_batches: a group that was frozen before keeps its batch.
Freeze(u) ==
    LET groups == {Proposed(period, {}) : period \in {sourceCell[c].of : c \in Cells \ InLedger}} IN
    /\ MapConfirmed(mapped) /\ Unsettled = {}
    /\ frozen' = [b \in DOMAIN frozen \cup groups |->
                    IF b \in DOMAIN frozen THEN frozen[b]
                    ELSE [status |-> "DRY_RUN", maker |-> u, approver |-> None, entered |-> {}]]
    /\ UNCHANGED <<serving, reviewVars, credited, posting>>

SetFrozen(b, f) == frozen' = [frozen EXCEPT ![b] = f]

SubmitFrozen(b) ==
    /\ frozen[b].status = "DRY_RUN" /\ ReadyIn(b) # {} /\ StillProposed(b)
    /\ SetFrozen(b, [frozen[b] EXCEPT !.status = "PENDING_APPROVAL"])
    /\ UNCHANGED <<serving, reviewVars, credited, posting>>

ApproveFrozen(b, u) ==
    /\ frozen[b].status = "PENDING_APPROVAL" /\ frozen[b].maker # u /\ StillProposed(b)
    /\ SetFrozen(b, [frozen[b] EXCEPT !.status = "APPROVED", !.approver = u])
    /\ UNCHANGED <<serving, reviewVars, credited, posting>>

(***************************************************************************)
(* Posting: _post_batch with _validate_historical_source_item.             *)
(***************************************************************************)
BeginHistoryPost(p, b) ==
    /\ posting[p].pc = "idle"
    /\ frozen[b].status \in {"APPROVED", "PARTIAL_FAILED"} /\ frozen[b].approver # None
    /\ StillProposed(b)
    /\ SetFrozen(b, [frozen[b] EXCEPT !.status = "POSTING"])
    /\ posting' = [posting EXCEPT ![p] = [pc |-> "loop", batch |-> b, cell |-> None, todo |-> ReadyIn(b) \ frozen[b].entered]]
    /\ UNCHANGED <<serving, reviewVars, credited>>

\* A step holds its learner's row from before its preview until it commits.
HeldLearners == {posting[p].batch.facts[posting[p].cell].who : p \in {q \in Posters : posting[q].pc = "checked"}}

CheckCell(p, c) ==
    LET b == posting[p].batch IN
    /\ posting[p].pc = "loop" /\ c \in posting[p].todo
    /\ b.facts[c].who \notin HeldLearners
    /\ frozen[b].status = "POSTING" /\ StillProposed(b)
    /\ posting' = [posting EXCEPT ![p].pc = "checked", ![p].cell = c]
    /\ UNCHANGED <<serving, reviewVars, frozen, credited>>

\* Faulty variant: the preview was looked at a moment ago.
TrustsPreview(b, c) == sourceCell[c].staged = "PENDING_REVIEW"
\* What is read again under locks, of this cell.
StillValid(b, c) ==
    /\ sourceCell[c].staged = "PENDING_REVIEW"
    /\ MapConfirmed(mapped) /\ mapped.class = b.map.class
    /\ Identified(RowOf[c]) /\ sourceRow[RowOf[c]].who = b.facts[c].who /\ b.facts[c].who \in serving
    /\ TotalAgreed(RowOf[c])
    /\ sourceCell[c].period \in {"READY", "MONTH_CONFIRMED", "YEAR_ACCEPTED"}

\* Faulty variant: the entry alone is remembered.
StagedNever(c) == sourceCell
StagedWith(c) == [sourceCell EXCEPT ![c].staged = "POSTED"]

\* `row' and `map' are for the record: how the review stood when the entry was made.
EnterCell(p) ==
    LET b == posting[p].batch
        c == posting[p].cell
    IN /\ posting[p].pc = "checked" /\ StillValid(b, c)
       /\ credited' = credited \cup
             {[cell |-> c, who |-> b.facts[c].who, class |-> b.map.class, batch |-> b,
               row |-> sourceRow[RowOf[c]], map |-> mapped]}
       /\ SetFrozen(b, [frozen[b] EXCEPT !.entered = @ \cup {c}])
       /\ sourceCell' = StagedWith(c)
       /\ posting' = [posting EXCEPT ![p].pc = "loop", ![p].cell = None, ![p].todo = @ \ {c}]
       /\ UNCHANGED <<serving, mapped, sourceRow, decided, bulk>>

\* The step fails for a reason of its own or because of what has changed; the rest is not tried.
FailCell(p) ==
    /\ posting[p].pc \in {"loop", "checked"}
    /\ posting' = [posting EXCEPT ![p] = [@ EXCEPT !.pc = "loop", !.cell = None, !.todo = {}]]
    /\ UNCHANGED <<serving, reviewVars, frozen, credited>>

Outcome(b) == IF frozen[b].entered = ReadyIn(b) THEN "POSTED" ELSE "PARTIAL_FAILED"
FinishHistoryPost(p) ==
    /\ posting[p].pc = "loop" /\ posting[p].todo = {}
    /\ SetFrozen(posting[p].batch, [frozen[posting[p].batch] EXCEPT !.status = Outcome(posting[p].batch)])
    /\ posting' = [posting EXCEPT ![p] = NoPosting]
    /\ UNCHANGED <<serving, reviewVars, credited>>

CrashHistoryPost(p) ==
    /\ posting[p].pc # "idle"
    /\ posting' = [posting EXCEPT ![p] = NoPosting]
    /\ UNCHANGED <<serving, reviewVars, frozen, credited>>

\* reconcile_stale_posting_batch: half an hour after the last sign of life
ReconcileFrozen(b) ==
    /\ frozen[b].status = "POSTING" /\ \A p \in Posters : posting[p].batch # b
    /\ SetFrozen(b, [frozen[b] EXCEPT !.status = Outcome(b)])
    /\ UNCHANGED <<serving, reviewVars, credited, posting>>

\* members.status, by another page
ChangeService(m) ==
    /\ m \notin HeldLearners
    /\ serving' = (IF m \in serving THEN serving \ {m} ELSE serving \cup {m})
    /\ UNCHANGED <<reviewVars, frozen, credited, posting>>

HistoryNext ==
    \/ Propose("PENDING_REVIEW", None) \/ \E k \in Classes : Propose("EXACT", k)
    \/ \E k \in Classes, snap \in Snapshots : ConfirmClass(k, snap)
    \/ \E k \in Classes \cup {None}, snap \in Snapshots : MatchStaged(k, snap)
    \/ \E snap \in Snapshots : CountBulk(snap)
    \/ ConfirmBulk
    \/ \E r \in SourceRows, m \in Persons, snap \in Snapshots : ConfirmMatch(r, m, snap)
    \/ \E r \in SourceRows, verdict \in Verdicts : Judge(r, verdict)
    \/ \E C \in SUBSET Cells : AcceptYear(C)
    \/ \E c \in Cells : ConfirmMonth(c)
    \/ \E u \in Staff : Freeze(u)
    \/ \E b \in DOMAIN frozen, u \in Staff : SubmitFrozen(b) \/ ApproveFrozen(b, u) \/ ReconcileFrozen(b)
    \/ \E p \in Posters, b \in DOMAIN frozen : BeginHistoryPost(p, b)
    \/ \E p \in Posters, c \in Cells : CheckCell(p, c)
    \/ \E p \in Posters : EnterCell(p) \/ FailCell(p) \/ FinishHistoryPost(p) \/ CrashHistoryPost(p)
    \/ \E m \in Persons : ChangeService(m)

HistorySpec == HistoryInit /\ [][HistoryNext]_historyVars

(***************************************************************************)
(* Properties.                                                             *)
(***************************************************************************)
HistoryTypeOK ==
    /\ serving \subseteq Persons
    /\ \A r \in SourceRows : sourceRow[r].who \in Persons \cup {None}
    /\ \A b \in DOMAIN frozen : frozen[b].entered \subseteq ReadyIn(b)
    /\ \A e \in credited : e.cell \in Cells /\ e.who \in Persons /\ e.class \in Classes
    /\ \A p \in Posters : posting[p].cell \in Cells \cup {None}

\* A cell is entered at most once, by one batch, and its staging row says whether it is, although
\* the same cell is proposed again and again in batches of other fingerprints.
CellsEnteredOnce ==
    \A c \in Cells :
        LET by == {b \in DOMAIN frozen : c \in frozen[b].entered} IN
        /\ Cardinality({e \in credited : e.cell = c}) = Cardinality(by)
        /\ Cardinality(by) = IF sourceCell[c].staged = "POSTED" THEN 1 ELSE 0

\* When a cell was entered, the review said what the approved batch says: the row was matched to that
\* learner, its total agreed, the label mapped to that class; and two people had looked at it.
EnteredAsReviewed ==
    \A e \in credited :
        /\ e.row.who = e.who /\ e.row.match \in {"AUTO_MATCHED", "CONFIRMED"}
        /\ e.row.credit \in {"NOT_REQUIRED", "APPROVED"}
        /\ MapConfirmed(e.map) /\ e.map.class = e.class
        /\ e.batch \in DOMAIN frozen /\ frozen[e.batch].approver \in Staff \ {frozen[e.batch].maker}

\* September is never entered from the workbook, whatever a reviewer has confirmed.
SeptemberHeld == \A e \in credited : sourceCell[e.cell].of # "SEPTEMBER"

HistorySafe == HistoryTypeOK /\ CellsEnteredOnce /\ EnteredAsReviewed /\ SeptemberHeld
=============================================================================
