----------------------------- MODULE StudyMeetings -----------------------------
(***************************************************************************)
(* A group's study meeting of one learning cycle: registered as a draft,   *)
(* submitted, corrected, registered anew (each registration is a version   *)
(* of its own), reviewed, and settled.  Every attendee earns one credit    *)
(* per cycle, in whichever group; a version that is reviewed later enters  *)
(* only the difference.                                                    *)
(*                                                                         *)
(* Source: app/services/study_meetings.py, study_meeting_review.py,        *)
(* study_meeting_attendees.py, study_meeting_resubmissions.py, and the     *)
(* STUDY_MEETING path of credit_settlement_batches.py.                     *)
(*                                                                         *)
(* One class, one cycle whose policy is REQUIRED, one rule of one point.   *)
(* Rosters and permissions do not change and a draft has its photograph.   *)
(* Courses, which follow the same scheme under their own keys, reversals   *)
(* and the path through an independent approval are left out.  A call      *)
(* that goes on for thirty minutes is a subject of CreditSettlement.       *)
(*                                                                         *)
(* MySQL's REPEATABLE READ: plain reads see the snapshot of the first of   *)
(* them.  A row lock that is taken later does not refresh it, nor does an  *)
(* update that leaves the row as it is (_lock_session).                    *)
(***************************************************************************)
EXTENDS Integers, FiniteSets

CONSTANTS
    Members,   \* the learners whose credits are followed
    Groups,
    Lists,     \* lists of attendees that are entered: which of Members they name
    Meetings,  \* ids of study_meeting_sessions, in order
    Changes,   \* bound on registrations and corrections together
    Clerks,    \* concurrent calls of confirm_and_settle_meeting_review
    Faults,    \* subset of {"CRASH", "ERROR"}
    None

\* A row of study_meeting_sessions with its attendees; a row that is not yet inserted has status "NONE".
Version == [group : Groups \cup {None}, status : {"NONE", "DRAFT", "SUBMITTED", "CANCELLED"},
            who : SUBSET Members, rev : Nat]

ASSUME MeetingAssumption ==
    /\ IsFiniteSet(Members) /\ IsFiniteSet(Groups) /\ IsFiniteSet(Meetings) /\ Meetings \subseteq Nat /\ Changes \in Nat
    /\ Lists \subseteq SUBSET Members
    /\ None \notin Members \cup Groups \cup Meetings \cup Version

VARIABLES
    form,      \* a group's registration in progress, or None: who attends, and the draft it has read
    meeting,   \* study_meeting_sessions and their attendances; rev counts the corrections
    reviewed,  \* fingerprint in the last review_confirm audit of a meeting, or None
    ledger,    \* learning_credit_entries of the cycle's attendance credit
    batch,     \* STUDY_MEETING batches by source fingerprint
    clerk      \* local state of each call

vars == <<form, meeting, reviewed, ledger, batch, clerk>>

Unused == [group |-> None, status |-> "NONE", who |-> {}, rev |-> 0]
Away == [pc |-> "idle", s |-> None, seen |-> Unused, key |-> None, m |-> None]

Init ==
    /\ form = [g \in Groups |-> None]
    /\ meeting = [s \in Meetings |-> Unused]
    /\ reviewed = [s \in Meetings |-> None]
    /\ ledger = {} /\ batch = <<>>
    /\ clerk = [c \in Clerks |-> Away]

\* The fingerprint of a meeting covers its row with updated_at and its attendances.
Fingerprint(s) == meeting[s]

(***************************************************************************)
(* Registration by the group.  Each is serialised by the group's row.      *)
(***************************************************************************)
Of(g, states) == {s \in Meetings : meeting[s].group = g /\ meeting[s].status \in states}
Used == {s \in Meetings : meeting[s].status # "NONE"}
Pending == {g \in Groups : form[g] # None}

\* What the bound Changes counts: registrations, also those in progress, and corrections.
Spent == Cardinality(Pending) + Cardinality(UNION {{s} \X (0 .. meeting[s].rev) : s \in Used})

\* create_study_meeting reads the group's last version and then waits for that version's lock.  An
\* unchanged selection would get its draft back.
Create(g, who) ==
    LET open == Of(g, {"DRAFT", "SUBMITTED"})
        draft == {s \in Of(g, {"DRAFT"}) : \A t \in open : t <= s}
    IN  /\ form[g] = None
        /\ Spent < Changes /\ Cardinality(Pending) < Cardinality(Meetings \ Used)
        /\ \A s \in draft : meeting[s].who # who
        /\ form' = [form EXCEPT ![g] = [who |-> who, draft |-> draft]]
        /\ UNCHANGED <<meeting, reviewed, ledger, batch, clerk>>

\* The rest of it: the draft it has read is cancelled and a new one takes the next id.
Register(g) ==
    /\ form[g] # None
    /\ \E s \in Meetings \ Used :
         /\ \A t \in Meetings \ Used : s <= t
         /\ meeting' = [t \in Meetings |->
              IF t = s THEN [group |-> g, status |-> "DRAFT", who |-> form[g].who, rev |-> 0]
              ELSE IF t \in form[g].draft THEN [meeting[t] EXCEPT !.status = "CANCELLED"]
              ELSE meeting[t]]
    /\ form' = [form EXCEPT ![g] = None]
    /\ UNCHANGED <<reviewed, ledger, batch, clerk>>

\* submit_study_meeting: the version submitted last replaces those before it.
Replaced(s) == {t \in Of(meeting[s].group, {"SUBMITTED"}) : t < s}
Submit(s) ==
    /\ meeting[s].status = "DRAFT" /\ form[meeting[s].group] = None
    /\ \A t \in Of(meeting[s].group, {"SUBMITTED"}) : t <= s
    /\ meeting' = [t \in Meetings |->
         IF t = s THEN [meeting[t] EXCEPT !.status = "SUBMITTED"]
         ELSE IF t \in Replaced(s) THEN [meeting[t] EXCEPT !.status = "CANCELLED"]
         ELSE meeting[t]]
    /\ UNCHANGED <<form, reviewed, ledger, batch, clerk>>

(***************************************************************************)
(* Correction by an operator.                                              *)
(***************************************************************************)
\* Faulty variant: only the ledger is asked.
CorrectableUnlessEntered(s) == \A e \in ledger : e.by # s

\* _correction_lock_reason: neither the ledger nor a batch past DRY_RUN uses the meeting.  The
\* batches of the class are read with their locks, one of which a posting transaction has.
Correctable(s) ==
    /\ \A c \in Clerks : clerk[c].pc # "entering"
    /\ \A e \in ledger : e.by # s
    /\ \A k \in DOMAIN batch : k.by = s => batch[k].status = "DRY_RUN"

\* correct_attendees: the rows of removed attendees are deleted.
CorrectAttendees(s, who) ==
    /\ meeting[s].status = "SUBMITTED" /\ Correctable(s)
    /\ who # meeting[s].who /\ Spent < Changes
    /\ meeting' = [meeting EXCEPT ![s].who = who, ![s].rev = @ + 1]
    /\ UNCHANGED <<form, reviewed, ledger, batch, clerk>>

(***************************************************************************)
(* What a settlement of a meeting would enter.                             *)
(***************************************************************************)
EntriesOf(m) == {e \in ledger : e.member = m}
\* The sum of the points of a set of entries: the points given less those taken back.
Given(S) == UNION {{e} \X (1 .. e.points) : e \in S}
TakenBack(S) == UNION {{e} \X (1 .. -e.points) : e \in S}
Points(S) == Cardinality(Given(S)) - Cardinality(TakenBack(S))
Net(m) == Points(EntriesOf(m))
Base(m) == {e \in EntriesOf(m) : e.kind = "FIRST"}
Adjustment(s, m) == {e \in EntriesOf(m) : e.kind = "DIFFERENCE" /\ e.by = s}

\* family: the submitted and the replaced versions of the meeting.  Who is listed in any of them?
Family(s) == Of(meeting[s].group, {"SUBMITTED", "CANCELLED"}) \cup {s}
Touched(s) == UNION {meeting[t].who : t \in Family(s)}

\* _other_entitlement: another group's meeting still supports the credit.
SupportedElsewhere(s, m) ==
    \E t \in Meetings : meeting[t].status = "SUBMITTED" /\ meeting[t].group # meeting[s].group /\ m \in meeting[t].who
Desired(s, m) == IF m \in meeting[s].who \/ SupportedElsewhere(s, m) THEN 1 ELSE 0

\* proposals: the first credit keeps its own key and a difference has a key of this version.  A
\* difference that has been entered is repeated as it was.
FirstCredit == [kind |-> "FIRST", net |-> 0, points |-> 1]
Owed(s, m) == {[kind |-> "DIFFERENCE", net |-> Net(m), points |-> Desired(s, m) - Net(m)]}
\* Faulty variant: what was entered before counts as a reason for a difference.
DiffersAnyhow(s, m) ==
    m \in Touched(s) /\ Base(m) # {} /\ ~(m \in meeting[s].who /\ \E e \in Base(m) : e.by = s)
Differs(s, m) ==
    /\ m \in Touched(s) /\ Base(m) # {}
    /\ ~(m \in meeting[s].who /\ \E e \in Base(m) : e.by = s)
    /\ Adjustment(s, m) # {} \/ Desired(s, m) # Net(m)
Proposal(s, m) ==
    IF ~Differs(s, m) THEN FirstCredit
    ELSE LET known == {[kind |-> e.kind, net |-> e.net, points |-> e.points] : e \in Adjustment(s, m)}
         IN  CHOOSE p \in known \cup Owed(s, m) : known # {} => p \in known
Proposals(s) == [m \in {n \in Members : n \in meeting[s].who \/ Differs(s, n)} |-> Proposal(s, m)]

\* SKIPPED_DUPLICATE: the ledger has an entry with the key of the proposal.
Duplicate(s, m) == IF Differs(s, m) THEN Adjustment(s, m) # {} ELSE Base(m) # {}
Postable(s) == {m \in DOMAIN Proposals(s) : ~Duplicate(s, m)}

\* _preview_snapshots: a duplicate counts as READY in the source fingerprint.
Source(s) == [by |-> s, facts |-> Proposals(s)]

Items(k) == DOMAIN batch[k].item
Posted(k) == {m \in Items(k) : batch[k].item[m] = "POSTED"}

\* _assert_current_preview: the frozen proposals are the live ones.
PreviewHolds(k) ==
    /\ Source(k.by) = k
    /\ \A m \in Items(k) : Duplicate(k.by, m) <=> m \in Posted(k)
    /\ Cardinality(Postable(k.by)) + Cardinality(Posted(k)) = Cardinality(Items(k))

\* assert_settlement_confirmation: the last review is of what the caller has seen and of what is.
ReviewHolds(s, seen) == meeting[s].status = "SUBMITTED" /\ Fingerprint(s) = seen /\ reviewed[s] = seen

(***************************************************************************)
(* confirm_and_settle_meeting_review.                                      *)
(***************************************************************************)
Step(c, pc) == clerk' = [clerk EXCEPT ![c].pc = pc]
Leave(c) == clerk' = [clerk EXCEPT ![c] = Away]

\* confirm_meeting_review, which submits a draft on its way.  A call is refused unless the meeting is as
\* its operator has seen it (expected_fingerprint).
Submitted(s) == [meeting EXCEPT ![s].status = "SUBMITTED"]
ConfirmReview(c, s) ==
    /\ clerk[c].pc = "idle" /\ meeting[s].status \in {"DRAFT", "SUBMITTED"}
    /\ reviewed[s] # Submitted(s)[s] => Correctable(s)
    /\ meeting' = Submitted(s)
    /\ reviewed' = [reviewed EXCEPT ![s] = Submitted(s)[s]]
    /\ clerk' = [clerk EXCEPT ![c] = [Away EXCEPT !.pc = "confirmed", !.s = s]]
    /\ UNCHANGED <<ledger, batch>>

\* The detail that confirm_meeting_review returns is read after its commit.
ReadDetail(c) ==
    /\ clerk[c].pc = "confirmed"
    /\ clerk' = [clerk EXCEPT ![c].pc = "reviewed", ![c].seen = Fingerprint(clerk[c].s)]
    /\ UNCHANGED <<meeting, reviewed, ledger, batch>>

\* dry_run_study_meeting_batch: one batch per source fingerprint, whatever its status.
Batches(k) == DOMAIN batch \cup {k}
NewBatch(k) == [status |-> "DRY_RUN", item |-> [m \in Postable(k.by) |-> "PROPOSED"]]
DryRun(c) ==
    LET k == Source(clerk[c].s) IN
    /\ clerk[c].pc = "reviewed" /\ meeting[clerk[c].s].status = "SUBMITTED"
    /\ batch' = [b \in Batches(k) |-> IF b \in DOMAIN batch THEN batch[b] ELSE NewBatch(k)]
    /\ clerk' = [clerk EXCEPT ![c].pc = "planned", ![c].key = k]
    /\ UNCHANGED <<meeting, reviewed, ledger>>

\* Faulty variant: what has been tried is done.
TotalOfTried(k) == IF \E m \in Items(k) : batch[k].item[m] = "PROPOSED" THEN "PARTIAL_FAILED" ELSE "POSTED"

\* reconcile_stale_posting_batch, of a batch whose call has died.
Total(k) == IF Posted(k) = Items(k) THEN "POSTED" ELSE "PARTIAL_FAILED"
Working(k) == \E c \in Clerks : clerk[c].key = k /\ clerk[c].pc \in {"posting", "entering", "closing"}
Reconcile(c) ==
    LET k == clerk[c].key IN
    /\ clerk[c].pc = "planned" /\ batch[k].status = "POSTING" /\ ~Working(k)
    /\ batch' = [batch EXCEPT ![k].status = Total(k)]
    /\ UNCHANGED <<meeting, reviewed, ledger, clerk>>

\* _post_batch, first transaction.
BeginPost(c) ==
    LET k == clerk[c].key IN
    /\ clerk[c].pc = "planned" /\ ReviewHolds(clerk[c].s, clerk[c].seen)
    /\ batch[k].status \in {"DRY_RUN", "PARTIAL_FAILED"} /\ PreviewHolds(k)
    /\ batch' = [batch EXCEPT ![k].status = "POSTING"]
    /\ Step(c, "posting")
    /\ UNCHANGED <<meeting, reviewed, ledger>>

\* Faulty variant: learners are not locked.
LockedNobody(m) == FALSE

\* One item: after the locks of its learner and of the batch the snapshot is opened, in which the
\* meeting's review and the previews are compared; the meeting's lock comes later.
LockedMember(m) == \E c \in Clerks : clerk[c].pc = "entering" /\ clerk[c].m = m
MayEnter(c) == ReviewHolds(clerk[c].s, clerk[c].seen) /\ PreviewHolds(clerk[c].key)
Tries(c, m) ==
    /\ clerk[c].pc = "posting" /\ m \in Items(clerk[c].key) \ Posted(clerk[c].key)
    /\ ~LockedMember(m)
Enter(c, m) ==
    /\ Tries(c, m) /\ batch[clerk[c].key].status = "POSTING" /\ MayEnter(c)
    /\ clerk' = [clerk EXCEPT ![c].pc = "entering", ![c].m = m]
    /\ UNCHANGED <<meeting, reviewed, ledger, batch>>

CommitItem(c) ==
    LET k == clerk[c].key
        m == clerk[c].m
        p == k.facts[m]
    IN  /\ clerk[c].pc = "entering"
        /\ \A e \in EntriesOf(m) : ~(e.kind = p.kind /\ (e.kind = "FIRST" \/ e.by = k.by))
        /\ ledger' = ledger \cup {[member |-> m, kind |-> p.kind, by |-> k.by, net |-> p.net, points |-> p.points]}
        /\ batch' = [batch EXCEPT ![k].item[m] = "POSTED"]
        /\ clerk' = [clerk EXCEPT ![c].pc = "posting", ![c].m = None]
        /\ UNCHANGED <<meeting, reviewed>>

\* The item is rolled back and marked, and the call goes on to its last transaction.
ItemFails(c, m) ==
    /\ \/ Tries(c, m) /\ ~MayEnter(c)
       \/ "ERROR" \in Faults /\ clerk[c].pc = "entering" /\ clerk[c].m = m
    /\ batch' = [batch EXCEPT ![clerk[c].key].item[m] = "FAILED"]
    /\ clerk' = [clerk EXCEPT ![c].pc = "closing", ![c].m = None]
    /\ UNCHANGED <<meeting, reviewed, ledger>>

Finish(c) ==
    LET k == clerk[c].key IN
    /\ \/ clerk[c].pc = "posting" /\ Items(k) = Posted(k)
       \/ clerk[c].pc = "closing"
    /\ batch[k].status = "POSTING"
    /\ batch' = [batch EXCEPT ![k].status = Total(k)]
    /\ Leave(c)
    /\ UNCHANGED <<meeting, reviewed, ledger>>

\* An earlier exception ends the call; so does a batch that is POSTED already.
GiveUp(c) ==
    /\ clerk[c].pc \in {"confirmed", "reviewed", "planned"}
    /\ Leave(c)
    /\ UNCHANGED <<meeting, reviewed, ledger, batch>>

Crash(c) ==
    /\ "CRASH" \in Faults /\ clerk[c].pc \in {"posting", "entering", "closing"}
    /\ Leave(c)
    /\ UNCHANGED <<meeting, reviewed, ledger, batch>>

Settle(c) ==
    /\ \/ \E s \in Meetings : ConfirmReview(c, s)
       \/ ReadDetail(c) \/ DryRun(c) \/ Reconcile(c)
       \/ BeginPost(c) \/ CommitItem(c) \/ Finish(c) \/ GiveUp(c) \/ Crash(c)
       \/ \E m \in Members : Enter(c, m) \/ ItemFails(c, m)
    /\ UNCHANGED form

Next ==
    \/ \E g \in Groups : Register(g) \/ \E who \in Lists : Create(g, who)
    \/ \E s \in Meetings : Submit(s) \/ \E who \in Lists : CorrectAttendees(s, who)
    \/ \E c \in Clerks : Settle(c)

Spec == Init /\ [][Next]_vars

(***************************************************************************)
(* Properties.                                                             *)
(***************************************************************************)
\* The credit of a cycle is entered once and differences take back or return exactly one point; no
\* difference of nothing is entered.  Batches keep to their statuses and calls to their steps.
TypeOK ==
    /\ \A g \in Groups : form[g] # None => form[g].who \in Lists /\ form[g].draft \subseteq Meetings
    /\ \A s \in Meetings :
         /\ meeting[s] = Unused \/ /\ meeting[s].group \in Groups /\ meeting[s].who \in Lists
                                   /\ meeting[s].status \in {"DRAFT", "SUBMITTED", "CANCELLED"}
         /\ meeting[s].rev \in 0 .. Changes
         /\ reviewed[s] = None \/ reviewed[s].group = meeting[s].group
    /\ ledger \subseteq [member : Members, kind : {"FIRST", "DIFFERENCE"}, by : Meetings, net : {0, 1},
                         points : {-1, 1}]
    /\ \A k \in DOMAIN batch :
         /\ k.by \in Meetings /\ batch[k].status \in {"DRY_RUN", "POSTING", "PARTIAL_FAILED", "POSTED"}
         /\ Items(k) \subseteq Members
         /\ \A m \in Items(k) : batch[k].item[m] \in {"PROPOSED", "FAILED", "POSTED"}
    /\ \A c \in Clerks :
         /\ clerk[c].pc \in {"idle", "confirmed", "reviewed", "planned", "posting", "entering", "closing"}
         /\ clerk[c].s \in Meetings \cup {None} /\ clerk[c].m \in Members \cup {None}

\* Whatever is registered anew and settled at the same time, a learner ends with one credit or none
\* (docs/tasks: 不得重复计分, 已成功扣回的项目不再重复扣回).
NetWithinOne == \A m \in Members : Net(m) \in {0, 1}

\* The meetings' variables keep their shapes, and a learner's credit its bounds.
MeetingsSafe == TypeOK /\ NetWithinOne

\* Whatever a meeting has entered is of the attendees that were reviewed, and they are the meeting's
\* attendees still (_correction_lock_reason: "Never rewrite a source already used by the ledger").
CreditsAreReviewed ==
    \A e \in ledger :
        /\ reviewed[e.by] # None /\ reviewed[e.by].who = meeting[e.by].who
        /\ e.kind = "FIRST" => e.member \in meeting[e.by].who

\* A settled meeting has entered all that its batch was to enter, after however many failures, deaths and
\* resumptions (docs/tasks: 结算中断可以续跑).
SettledInFull ==
    \A k \in DOMAIN batch : batch[k].status = "POSTED" =>
        \A m \in Items(k) : \E e \in ledger :
            e.member = m /\ e.by = k.by /\ e.kind = k.facts[m].kind /\ e.points = k.facts[m].points

\* A group has at most one submitted version (docs/tasks: 成功后后台只保留一份有效记录).
OneCurrentVersion == \A g \in Groups : Cardinality(Of(g, {"SUBMITTED"})) <= 1
=============================================================================
