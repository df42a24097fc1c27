------------------------- MODULE StudyMeetingsProofs -------------------------
(***************************************************************************)
(* Theorems about StudyMeetings for every set of learners, groups and      *)
(* lists, and any number of meetings and concurrent settlements.           *)
(***************************************************************************)
EXTENDS StudyMeetings, FiniteSetTheorems, TLAPS

(***************************************************************************)
(* The inductive invariant.                                                *)
(***************************************************************************)
Bound == {"planned", "posting", "entering", "closing"}

\* A call that has planned keeps to the batch of its meeting.
Call(r) ==
    /\ r = [pc |-> r.pc, s |-> r.s, seen |-> r.seen, key |-> r.key, m |-> r.m]
    /\ r.pc \in Bound \cup {"idle", "confirmed", "reviewed"}
    /\ r.pc # "idle" => r.s \in Meetings
    /\ r.pc \in Bound => r.key \in DOMAIN batch /\ r.key.by = r.s

\* A batch has items only of learners for whom its fingerprint has a proposal.
Frozen(k) ==
    /\ k.by \in Meetings /\ Items(k) \subseteq DOMAIN k.facts
    /\ batch[k] = [status |-> batch[k].status, item |-> batch[k].item]
    /\ batch[k].item = [m \in Items(k) |-> batch[k].item[m]]

\* What of the variables' types the arguments need; only a registered meeting is reviewed.
Shape ==
    /\ form = [g \in Groups |-> form[g]] /\ \A g \in Groups : form[g] # None => form[g].who \in Lists
    /\ meeting \in [Meetings -> Version] /\ reviewed \in [Meetings -> Version \cup {None}]
    /\ \A s \in Meetings : meeting[s].status = "NONE" => reviewed[s] = None
    /\ \A e \in ledger : e.by \in Meetings
    /\ \A k \in DOMAIN batch : Frozen(k)
    /\ clerk = [c \in Clerks |-> clerk[c]] /\ \A c \in Clerks : Call(clerk[c])

\* An item whose transaction has passed its tests is of a meeting whose attendees were reviewed, and
\* none of those that are POSTED already.
Reviewed(s) == reviewed[s] # None /\ reviewed[s].who = meeting[s].who
Decided(c) ==
    LET k == clerk[c].key
    IN  clerk[c].pc = "entering" =>
          /\ Reviewed(k.by) /\ (k.facts[clerk[c].m].kind = "FIRST" => clerk[c].m \in meeting[k.by].who)
          /\ clerk[c].m \in Items(k) \ Posted(k)
Apart ==
    \A c, d \in Clerks : c # d /\ clerk[c].pc = "entering" /\ clerk[d].pc = "entering" => clerk[c].m # clerk[d].m

\* Every POSTED item has its entry, and a POSTED batch only such items.
EntryOf(k, m) ==
    \E e \in ledger :
        e.member = m /\ e.by = k.by /\ e.kind = k.facts[m].kind /\ e.points = k.facts[m].points
Whole ==
    \A k \in DOMAIN batch :
        /\ \A m \in Posted(k) : EntryOf(k, m)
        /\ batch[k].status = "POSTED" => Posted(k) = Items(k)

MeetingInv == Shape /\ (\A c \in Clerks : Decided(c)) /\ Apart /\ CreditsAreReviewed /\ Whole

LEMMA MeetingInit == Init => MeetingInv
<1> SUFFICES ASSUME Init PROVE MeetingInv
  OBVIOUS
<1>1. DOMAIN batch = {} /\ ledger = {} /\ \A c \in Clerks : clerk[c].pc = "idle"
  BY DEF Init, Away
<1>2. Unused \in Version
  BY DEF Unused, Version
<1>3. Shape
  BY <1>1, <1>2 DEF Init, Shape, Call, Bound, Away, Unused
<1>4. (\A c \in Clerks : Decided(c)) /\ Apart /\ CreditsAreReviewed /\ Whole
  BY <1>1 DEF Decided, Apart, CreditsAreReviewed, Whole
<1> QED BY <1>3, <1>4 DEF MeetingInv

(***************************************************************************)
(* What a settlement proposes.                                             *)
(***************************************************************************)
\* A first credit is proposed for attendees only (proposals: base["source_payload"]).
LEMMA FirstCreditsAreOfAttendees ==
    ASSUME NEW s, NEW m \in DOMAIN Proposals(s), Proposals(s)[m].kind = "FIRST"
    PROVE  m \in meeting[s].who
<1>1. m \in Members /\ (m \in meeting[s].who \/ Differs(s, m)) /\ Proposals(s)[m] = Proposal(s, m)
  BY DEF Proposals
<1>2. ASSUME Differs(s, m) PROVE FALSE
  <2> DEFINE known == {[kind |-> e.kind, net |-> e.net, points |-> e.points] : e \in Adjustment(s, m)}
  <2>1. Proposal(s, m) = CHOOSE p \in known \cup Owed(s, m) : known # {} => p \in known
    BY <1>2 DEF Proposal
  <2>2. \E p \in known \cup Owed(s, m) : known # {} => p \in known
    BY DEF Owed
  <2>3. \A p \in known : p.kind = "DIFFERENCE"
    BY DEF Adjustment
  <2>4. \A p \in Owed(s, m) : p.kind = "DIFFERENCE"
    BY DEF Owed
  <2>5. Proposal(s, m) \in known \cup Owed(s, m)
    <3> HIDE DEF known
    <3> QED BY <2>1, <2>2
  <2> QED BY <1>1, <2>3, <2>4, <2>5
<1> QED BY <1>1, <1>2

(***************************************************************************)
(* Every step keeps the invariant.                                         *)
(***************************************************************************)
\* A step that leaves batches, ledger and calls alone.
LEMMA MeetingMoves ==
    ASSUME MeetingInv, UNCHANGED <<ledger, batch, clerk>>, Shape',
           \A s \in Meetings : Reviewed(s) /\ (\/ \E e \in ledger : e.by = s
                                               \/ \E c \in Clerks : clerk[c].pc = "entering" /\ clerk[c].s = s)
                                 => Reviewed(s)' /\ meeting'[s].who = meeting[s].who
    PROVE  MeetingInv'
<1>1. \A c \in Clerks : Decided(c)'
  BY DEF MeetingInv, Decided, Shape, Call, Bound, Items, Posted
<1>2. Apart' /\ Whole'
  BY DEF MeetingInv, Apart, Whole, Items, Posted, EntryOf
<1>3. CreditsAreReviewed'
  BY DEF MeetingInv, CreditsAreReviewed, Shape, Reviewed
<1> QED BY <1>1, <1>2, <1>3 DEF MeetingInv

LEMMA RegisterStep == ASSUME MeetingInv, NEW g \in Groups, Register(g) PROVE MeetingInv'
<1>1. PICK s \in Meetings \ Used :
        meeting' = [t \in Meetings |->
              IF t = s THEN [group |-> g, status |-> "DRAFT", who |-> form[g].who, rev |-> 0]
              ELSE IF t \in form[g].draft THEN [meeting[t] EXCEPT !.status = "CANCELLED"]
              ELSE meeting[t]]
  BY DEF Register
<1>2. UNCHANGED <<reviewed, ledger, batch, clerk>> /\ form[g] # None /\ form' = [form EXCEPT ![g] = None]
  BY DEF Register
<1>3. reviewed[s] = None
  BY DEF MeetingInv, Shape, Used
<1>4. meeting' \in [Meetings -> Version]
  BY <1>1, <1>2, MeetingAssumption DEF MeetingInv, Shape, Version
<1>5. \A t \in Meetings \ {s} : meeting'[t].who = meeting[t].who /\ (meeting'[t].status = "NONE" => meeting[t].status = "NONE")
  BY <1>1 DEF MeetingInv, Shape, Version
<1>6. Shape'
  BY <1>2, <1>3, <1>4, <1>5 DEF MeetingInv, Shape, Frozen, Call, Items
<1>7. \A t \in Meetings : Reviewed(t) => Reviewed(t)' /\ meeting'[t].who = meeting[t].who
  BY <1>2, <1>3, <1>5 DEF Reviewed
<1> QED BY <1>2, <1>6, <1>7, MeetingMoves

LEMMA SubmitStep == ASSUME MeetingInv, NEW s \in Meetings, Submit(s) PROVE MeetingInv'
<1>1. UNCHANGED <<form, reviewed, ledger, batch, clerk>>
  BY DEF Submit
<1>2. \A t \in Meetings : meeting'[t].who = meeting[t].who /\ (meeting'[t].status = "NONE" => meeting[t].status = "NONE")
  BY DEF Submit, MeetingInv, Shape, Version
<1>3. meeting' \in [Meetings -> Version]
  BY DEF Submit, MeetingInv, Shape, Version
<1>4. Shape'
  BY <1>1, <1>2, <1>3 DEF MeetingInv, Shape, Frozen, Call, Items
<1> QED BY <1>1, <1>2, <1>4, MeetingMoves DEF Reviewed

LEMMA CorrectStep ==
    ASSUME MeetingInv, NEW s \in Meetings, NEW who \in Lists, CorrectAttendees(s, who)
    PROVE  MeetingInv'
<1>1. UNCHANGED <<form, reviewed, ledger, batch, clerk>>
  BY DEF CorrectAttendees
<1>2. meeting' = [meeting EXCEPT ![s].who = who, ![s].rev = @ + 1]
  BY DEF CorrectAttendees
<1>3. meeting' \in [Meetings -> Version] /\ meeting'[s].status = meeting[s].status
  BY <1>2, MeetingAssumption DEF MeetingInv, Shape, Version
<1>4. \A t \in Meetings \ {s} : meeting'[t] = meeting[t]
  BY <1>2 DEF MeetingInv, Shape
<1>5. Shape'
  BY <1>1, <1>3, <1>4 DEF MeetingInv, Shape, Frozen, Call, Items
<1>6. (\A e \in ledger : e.by # s) /\ \A c \in Clerks : clerk[c].pc # "entering"
  BY DEF CorrectAttendees, Correctable
<1> QED BY <1>1, <1>4, <1>5, <1>6, MeetingMoves DEF Reviewed

\* A call that moves without touching meetings, ledger or batches, and not into an item.
LEMMA CallMoves ==
    ASSUME MeetingInv, NEW c \in Clerks, UNCHANGED <<form, meeting, reviewed, ledger, batch>>,
           clerk' = [clerk EXCEPT ![c] = clerk'[c]], Call(clerk'[c]), clerk'[c].pc # "entering"
    PROVE  MeetingInv'
<1>1. \A d \in Clerks \ {c} : clerk'[d] = clerk[d]
  BY DEF MeetingInv, Shape
<1>2. \A k \in DOMAIN batch : Frozen(k)'
  BY DEF MeetingInv, Shape, Frozen, Items
<1>3. Call(clerk[c])' /\ \A d \in Clerks \ {c} : Call(clerk[d])'
  BY <1>1 DEF MeetingInv, Shape, Call
<1>4. Shape'
  BY <1>2, <1>3 DEF MeetingInv, Shape
<1>5. (\A d \in Clerks : Decided(d)') /\ Apart'
  BY <1>1 DEF MeetingInv, Decided, Apart, Reviewed, Items, Posted
<1>6. CreditsAreReviewed' /\ Whole'
  BY DEF MeetingInv, CreditsAreReviewed, Whole, Items, Posted, EntryOf
<1> QED BY <1>4, <1>5, <1>6 DEF MeetingInv

LEMMA ConfirmStep ==
    ASSUME MeetingInv, NEW c \in Clerks, NEW s \in Meetings, ConfirmReview(c, s), UNCHANGED form
    PROVE  MeetingInv'
<1>1. meeting' = Submitted(s) /\ reviewed' = [reviewed EXCEPT ![s] = Submitted(s)[s]] /\ UNCHANGED <<ledger, batch>>
  BY DEF ConfirmReview
<1>2. clerk' = [clerk EXCEPT ![c] = [Away EXCEPT !.pc = "confirmed", !.s = s]]
  BY DEF ConfirmReview
<1>3. Submitted(s) \in [Meetings -> Version]
  BY DEF Submitted, MeetingInv, Shape, Version
<1>4. \A t \in Meetings : Submitted(s)[t].who = meeting[t].who /\ (t # s => Submitted(s)[t] = meeting[t])
  BY DEF Submitted, MeetingInv, Shape, Version
<1>5. Submitted(s)[s].status = "SUBMITTED" /\ Submitted(s)[s] # None
  BY <1>3, MeetingAssumption DEF Submitted, MeetingInv, Shape, Version
<1>6. \A t \in Meetings : reviewed'[t] = IF t = s THEN Submitted(s)[s] ELSE reviewed[t]
  BY <1>1 DEF MeetingInv, Shape
<1>7. \A d \in Clerks \ {c} : clerk'[d] = clerk[d]
  BY <1>2 DEF MeetingInv, Shape
<1>8. clerk'[c] = [pc |-> "confirmed", s |-> s, seen |-> Unused, key |-> None, m |-> None]
  BY <1>2 DEF MeetingInv, Shape, Away
<1>9. Shape'
  <2>1. \A t \in Meetings : meeting'[t].status = "NONE" => reviewed'[t] = None
    BY <1>1, <1>4, <1>5, <1>6 DEF MeetingInv, Shape
  <2>2. \A d \in Clerks : Call(clerk[d])'
    BY <1>1, <1>7, <1>8 DEF MeetingInv, Shape, Call, Bound
  <2>3. \A k \in DOMAIN batch : Frozen(k)'
    BY <1>1 DEF MeetingInv, Shape, Frozen, Items
  <2>4. reviewed' \in [Meetings -> Version \cup {None}]
    BY <1>1, <1>3 DEF MeetingInv, Shape
  <2>5. clerk' = [d \in Clerks |-> clerk'[d]]
    BY <1>2 DEF MeetingInv, Shape
  <2> QED BY <1>1, <1>3, <2>1, <2>2, <2>3, <2>4, <2>5 DEF MeetingInv, Shape
<1>10. \A t \in Meetings : Reviewed(t) => Reviewed(t)'
  BY <1>1, <1>4, <1>5, <1>6 DEF Reviewed
<1>11. \A d \in Clerks : clerk'[d].pc = "entering" => clerk'[d] = clerk[d] /\ clerk[d].key.by \in Meetings
  BY <1>7, <1>8 DEF MeetingInv, Shape, Call, Bound
<1>12. (\A d \in Clerks : Decided(d)') /\ Apart'
  BY <1>1, <1>4, <1>10, <1>11 DEF MeetingInv, Decided, Apart, Items, Posted
<1>13. CreditsAreReviewed'
  BY <1>1, <1>4, <1>10 DEF MeetingInv, CreditsAreReviewed, Shape, Reviewed
<1>14. Whole'
  BY <1>1 DEF MeetingInv, Whole, Items, Posted, EntryOf
<1> QED BY <1>9, <1>12, <1>13, <1>14 DEF MeetingInv

LEMMA DryRunStep == ASSUME MeetingInv, NEW c \in Clerks, DryRun(c), UNCHANGED form PROVE MeetingInv'
<1> PICK s : s = clerk[c].s
  OBVIOUS
<1> PICK k : k = Source(s)
  OBVIOUS
<1>1. clerk[c].pc = "reviewed" /\ s \in Meetings /\ UNCHANGED <<meeting, reviewed, ledger>>
  BY DEF DryRun, MeetingInv, Shape, Call
<1>2. batch' = [b \in DOMAIN batch \cup {k} |-> IF b \in DOMAIN batch THEN batch[b] ELSE NewBatch(k)]
  BY DEF DryRun, Batches
<1>3. clerk' = [clerk EXCEPT ![c].pc = "planned", ![c].key = k]
  BY DEF DryRun
<1>4. k.by = s /\ k.facts = Proposals(s)
  BY DEF Source
<1>5. NewBatch(k) = [status |-> "DRY_RUN", item |-> [m \in Postable(s) |-> "PROPOSED"]]
  BY <1>4 DEF NewBatch
<1>6. Postable(s) \subseteq DOMAIN k.facts
  BY <1>4 DEF Postable
<1>7. \A b \in DOMAIN batch : batch'[b] = batch[b]
  BY <1>2
<1>8. k \notin DOMAIN batch => batch'[k] = NewBatch(k)
  BY <1>2
<1>9. \A d \in Clerks \ {c} : clerk'[d] = clerk[d]
  BY <1>3 DEF MeetingInv, Shape
<1>10. clerk'[c] = [pc |-> "planned", s |-> s, seen |-> clerk[c].seen, key |-> k, m |-> clerk[c].m]
  <2>1. clerk[c] = [pc |-> "reviewed", s |-> s, seen |-> clerk[c].seen, key |-> clerk[c].key, m |-> clerk[c].m]
    BY <1>1 DEF MeetingInv, Shape, Call
  <2>2. clerk'[c] = [clerk[c] EXCEPT !.pc = "planned", !.key = k]
    BY <1>3 DEF MeetingInv, Shape
  <2> QED BY <2>1, <2>2
<1>11. \A b \in DOMAIN batch' : Frozen(b)'
  <2>1. \A b \in DOMAIN batch : Frozen(b)'
    BY <1>7 DEF MeetingInv, Shape, Frozen, Items
  <2>2. ASSUME k \notin DOMAIN batch PROVE Frozen(k)'
    BY <1>1, <1>4, <1>5, <1>6, <1>8, <2>2 DEF Frozen, Items
  <2> QED BY <1>2, <2>1, <2>2
<1>12. Shape'
  <2>1. \A d \in Clerks \ {c} : Call(clerk[d])'
    BY <1>2, <1>9 DEF MeetingInv, Shape, Call
  <2>2. Call(clerk[c])'
    BY <1>1, <1>2, <1>4, <1>10 DEF Call, Bound
  <2>3. clerk' = [d \in Clerks |-> clerk'[d]]
    BY <1>3 DEF MeetingInv, Shape
  <2> QED BY <1>1, <1>11, <2>1, <2>2, <2>3 DEF MeetingInv, Shape
<1>13. \A d \in Clerks : clerk'[d].pc = "entering" => clerk'[d] = clerk[d] /\ clerk[d].key \in DOMAIN batch
  BY <1>9, <1>10 DEF MeetingInv, Shape, Call, Bound
<1>14. (\A d \in Clerks : Decided(d)') /\ Apart'
  BY <1>1, <1>7, <1>13 DEF MeetingInv, Decided, Apart, Reviewed, Items, Posted
<1>15. CreditsAreReviewed'
  BY <1>1 DEF MeetingInv, CreditsAreReviewed
<1>16. Whole'
  <2>1. \A b \in DOMAIN batch : Posted(b)' = Posted(b) /\ Items(b)' = Items(b) /\ \A m : EntryOf(b, m)' <=> EntryOf(b, m)
    BY <1>1, <1>7 DEF Posted, Items, EntryOf
  <2>2. k \notin DOMAIN batch => Posted(k)' = {} /\ batch'[k].status # "POSTED"
    BY <1>5, <1>8 DEF Posted, Items
  <2> QED BY <1>2, <1>7, <2>1, <2>2 DEF MeetingInv, Whole
<1> QED BY <1>12, <1>14, <1>15, <1>16 DEF MeetingInv

\* A batch changes its status only; so does a call, and not into an item.
LEMMA StatusMoves ==
    ASSUME MeetingInv, NEW c \in Clerks, NEW k \in DOMAIN batch, NEW status,
           UNCHANGED <<form, meeting, reviewed, ledger>>, batch' = [batch EXCEPT ![k].status = status],
           status = "POSTED" => Posted(k) = Items(k),
           clerk' = [clerk EXCEPT ![c] = clerk'[c]], Call(clerk'[c]), clerk'[c].pc # "entering"
    PROVE  MeetingInv'
<1>1. \A d \in Clerks \ {c} : clerk'[d] = clerk[d]
  BY DEF MeetingInv, Shape
<1>2. DOMAIN batch' = DOMAIN batch
  OBVIOUS
<1>3. \A b \in DOMAIN batch : batch'[b] = [status |-> IF b = k THEN status ELSE batch[b].status, item |-> batch[b].item]
  <2>1. \A b \in DOMAIN batch : batch[b] = [status |-> batch[b].status, item |-> batch[b].item]
    BY DEF MeetingInv, Shape, Frozen
  <2>2. batch'[k] = [batch[k] EXCEPT !.status = status] /\ \A b \in DOMAIN batch \ {k} : batch'[b] = batch[b]
    OBVIOUS
  <2>3. batch'[k] = [status |-> status, item |-> batch[k].item]
    BY <2>1, <2>2
  <2> QED BY <2>1, <2>2, <2>3
<1>4. \A b \in DOMAIN batch : Items(b)' = Items(b) /\ Posted(b)' = Posted(b) /\ Frozen(b)'
  BY <1>3 DEF MeetingInv, Shape, Frozen, Items, Posted
<1>5. Shape'
  BY <1>1, <1>2, <1>4 DEF MeetingInv, Shape, Call
<1>6. \A d \in Clerks : clerk'[d].pc = "entering" => clerk'[d] = clerk[d] /\ clerk[d].key \in DOMAIN batch
  BY <1>1 DEF MeetingInv, Shape, Call, Bound
<1>7. (\A d \in Clerks : Decided(d)') /\ Apart'
  BY <1>4, <1>6 DEF MeetingInv, Decided, Apart, Reviewed
<1>8. CreditsAreReviewed' /\ Whole'
  BY <1>2, <1>3, <1>4 DEF MeetingInv, CreditsAreReviewed, Whole, EntryOf
<1> QED BY <1>5, <1>7, <1>8 DEF MeetingInv

\* The steps of a call that move it alone, and those that close or claim its batch.
LEMMA LeaveStep ==
    ASSUME MeetingInv, NEW c \in Clerks, Leave(c), UNCHANGED <<form, meeting, reviewed, ledger, batch>>
    PROVE  MeetingInv'
<1>1. clerk'[c] = Away /\ clerk' = [clerk EXCEPT ![c] = clerk'[c]]
  BY DEF Leave, MeetingInv, Shape
<1>2. Call(Away) /\ Away.pc # "entering"
  BY DEF Call, Away, Bound
<1> QED BY <1>1, <1>2, CallMoves

LEMMA ReadStep == ASSUME MeetingInv, NEW c \in Clerks, ReadDetail(c), UNCHANGED form PROVE MeetingInv'
<1>1. UNCHANGED <<form, meeting, reviewed, ledger, batch>> /\ clerk[c].pc = "confirmed"
  BY DEF ReadDetail
<1>2. clerk' = [clerk EXCEPT ![c].pc = "reviewed", ![c].seen = Fingerprint(clerk[c].s)]
  BY DEF ReadDetail
<1>3. clerk'[c] = [clerk[c] EXCEPT !.pc = "reviewed", !.seen = Fingerprint(clerk[c].s)]
  BY <1>2 DEF MeetingInv, Shape
<1>4. clerk' = [clerk EXCEPT ![c] = clerk'[c]]
  BY <1>2, <1>3 DEF MeetingInv, Shape
<1>5. Call(clerk[c])
  BY DEF MeetingInv, Shape
<1>6. clerk'[c] = [pc |-> "reviewed", s |-> clerk[c].s, seen |-> Fingerprint(clerk[c].s), key |-> clerk[c].key, m |-> clerk[c].m]
  BY <1>3, <1>5 DEF Call
<1>7. Call(clerk'[c])
  BY <1>1, <1>5, <1>6 DEF Call, Bound
<1> QED BY <1>1, <1>4, <1>6, <1>7, CallMoves

LEMMA BeginStep == ASSUME MeetingInv, NEW c \in Clerks, BeginPost(c), UNCHANGED form PROVE MeetingInv'
<1> PICK k, status : k = clerk[c].key /\ status = "POSTING"
  OBVIOUS
<1>1. /\ clerk[c].pc = "planned" /\ UNCHANGED <<form, meeting, reviewed, ledger>>
      /\ batch' = [batch EXCEPT ![k].status = status]
      /\ clerk' = [clerk EXCEPT ![c].pc = "posting"]
  BY DEF BeginPost, Step
<1>2. Call(clerk[c]) /\ k \in DOMAIN batch
  BY <1>1 DEF MeetingInv, Shape, Call, Bound
<1>3. clerk'[c] = [clerk[c] EXCEPT !.pc = "posting"] /\ clerk' = [clerk EXCEPT ![c] = clerk'[c]]
  BY <1>1 DEF MeetingInv, Shape
<1>4. clerk'[c] = [pc |-> "posting", s |-> clerk[c].s, seen |-> clerk[c].seen, key |-> clerk[c].key, m |-> clerk[c].m]
  BY <1>2, <1>3 DEF Call
<1>5. Call(clerk'[c]) /\ clerk'[c].pc # "entering" /\ status # "POSTED"
  BY <1>1, <1>2, <1>4 DEF Call, Bound
<1> QED BY <1>1, <1>2, <1>3, <1>5, StatusMoves

LEMMA ReconcileStep == ASSUME MeetingInv, NEW c \in Clerks, Reconcile(c), UNCHANGED form PROVE MeetingInv'
<1> PICK k, status : k = clerk[c].key /\ status = Total(k)
  OBVIOUS
<1>1. /\ clerk[c].pc = "planned" /\ UNCHANGED <<form, meeting, reviewed, ledger, clerk>>
      /\ batch' = [batch EXCEPT ![k].status = status]
  BY DEF Reconcile
<1>2. Call(clerk[c]) /\ k \in DOMAIN batch
  BY <1>1 DEF MeetingInv, Shape, Call, Bound
<1>3. status = "POSTED" => Posted(k) = Items(k)
  BY DEF Total
<1>4. clerk' = [clerk EXCEPT ![c] = clerk'[c]]
  BY <1>1 DEF MeetingInv, Shape
<1> QED BY <1>1, <1>2, <1>3, <1>4, StatusMoves

LEMMA FinishStep == ASSUME MeetingInv, NEW c \in Clerks, Finish(c), UNCHANGED form PROVE MeetingInv'
<1> PICK k, status : k = clerk[c].key /\ status = Total(k)
  OBVIOUS
<1>1. /\ clerk[c].pc \in {"posting", "closing"} /\ UNCHANGED <<form, meeting, reviewed, ledger>>
      /\ batch' = [batch EXCEPT ![k].status = status] /\ clerk' = [clerk EXCEPT ![c] = Away]
  BY DEF Finish, Leave
<1>2. k \in DOMAIN batch /\ clerk'[c] = Away
  BY <1>1 DEF MeetingInv, Shape, Call, Bound
<1>3. status = "POSTED" => Posted(k) = Items(k)
  BY DEF Total
<1>4. Call(Away) /\ Away.pc # "entering"
  BY DEF Call, Away, Bound
<1> QED BY <1>1, <1>2, <1>3, <1>4, StatusMoves

\* Behind the locks of its learner and its batch an item sees its own review and its live proposals.
LEMMA EnterStep ==
    ASSUME MeetingInv, NEW c \in Clerks, NEW m \in Members, Enter(c, m), UNCHANGED form
    PROVE  MeetingInv'
<1> PICK k : k = clerk[c].key
  OBVIOUS
<1>1. /\ clerk[c].pc = "posting" /\ m \in Items(k) \ Posted(k) /\ ~LockedMember(m)
      /\ ReviewHolds(clerk[c].s, clerk[c].seen) /\ PreviewHolds(k)
      /\ UNCHANGED <<form, meeting, reviewed, ledger, batch>>
  BY DEF Enter, Tries, MayEnter
<1>2. clerk' = [clerk EXCEPT ![c].pc = "entering", ![c].m = m]
  BY DEF Enter
<1>3. Call(clerk[c]) /\ k \in DOMAIN batch /\ k.by = clerk[c].s /\ k.by \in Meetings
  BY <1>1 DEF MeetingInv, Shape, Call, Bound
<1>4. clerk'[c] = [clerk[c] EXCEPT !.pc = "entering", !.m = m] /\ \A d \in Clerks \ {c} : clerk'[d] = clerk[d]
  BY <1>2 DEF MeetingInv, Shape
<1>5. clerk'[c] = [pc |-> "entering", s |-> clerk[c].s, seen |-> clerk[c].seen, key |-> k, m |-> m]
  BY <1>3, <1>4 DEF Call
<1>6. Shape'
  <2>1. Call(clerk[c])' /\ \A d \in Clerks \ {c} : Call(clerk[d])'
    BY <1>1, <1>3, <1>4, <1>5 DEF MeetingInv, Shape, Call, Bound
  <2>2. \A b \in DOMAIN batch : Frozen(b)'
    BY <1>1 DEF MeetingInv, Shape, Frozen, Items
  <2>3. clerk' = [d \in Clerks |-> clerk'[d]]
    BY <1>2 DEF MeetingInv, Shape
  <2> QED BY <1>1, <2>1, <2>2, <2>3 DEF MeetingInv, Shape
<1>7. Reviewed(k.by)
  <2>1. reviewed[k.by] = meeting[k.by]
    BY <1>1, <1>3 DEF ReviewHolds, Fingerprint
  <2>2. meeting[k.by] # None
    BY <1>3, MeetingAssumption DEF MeetingInv, Shape
  <2> QED BY <2>1, <2>2 DEF Reviewed
<1>8. k.facts[m].kind = "FIRST" => m \in meeting[k.by].who
  <2>1. k.facts = Proposals(k.by)
    BY <1>1 DEF PreviewHolds, Source
  <2>2. m \in DOMAIN k.facts
    BY <1>1, <1>3 DEF MeetingInv, Shape, Frozen
  <2> QED BY <2>1, <2>2, FirstCreditsAreOfAttendees
<1>9. Decided(c)' /\ \A d \in Clerks \ {c} : Decided(d)'
  <2>1. \A b : Items(b)' = Items(b) /\ Posted(b)' = Posted(b)
    BY <1>1 DEF Items, Posted
  <2>2. \A d \in Clerks \ {c} : Decided(d)'
    BY <1>1, <1>4, <2>1 DEF MeetingInv, Decided, Reviewed
  <2>3. Decided(c)'
    BY <1>1, <1>5, <1>7, <1>8, <2>1 DEF Decided, Reviewed
  <2> QED BY <2>2, <2>3
<1>10. Apart'
  BY <1>1, <1>4, <1>5 DEF MeetingInv, Apart, LockedMember
<1>11. CreditsAreReviewed' /\ Whole'
  BY <1>1 DEF MeetingInv, CreditsAreReviewed, Whole, Items, Posted, EntryOf
<1> QED BY <1>6, <1>9, <1>10, <1>11 DEF MeetingInv

\* Nothing but one item's status changes in the batches.
ItemBecomes(k, m, outcome) ==
    /\ DOMAIN batch' = DOMAIN batch /\ \A b \in DOMAIN batch \ {k} : batch'[b] = batch[b]
    /\ batch'[k] = [status |-> batch[k].status, item |-> [batch[k].item EXCEPT ![m] = outcome]]

\* One item changes its status; the ledger grows, and by this item's entry if it becomes POSTED.
LEMMA ItemMoves ==
    ASSUME MeetingInv, NEW c \in Clerks, NEW k \in DOMAIN batch, NEW m \in Items(k) \ Posted(k), NEW outcome,
           UNCHANGED <<form, meeting, reviewed>>,
           ItemBecomes(k, m, outcome),
           ledger \subseteq ledger', \A e \in ledger' \ ledger : e.by \in Meetings,
           CreditsAreReviewed', outcome = "POSTED" => EntryOf(k, m)',
           \A d \in Clerks \ {c} : clerk[d].pc = "entering" => clerk[d].m # m,
           clerk' = [clerk EXCEPT ![c] = clerk'[c]], Call(clerk'[c]), clerk'[c].pc # "entering"
    PROVE  MeetingInv'
<1>1. \A d \in Clerks \ {c} : clerk'[d] = clerk[d]
  BY DEF MeetingInv, Shape
<1>2. DOMAIN batch' = DOMAIN batch /\ \A b \in DOMAIN batch \ {k} : batch'[b] = batch[b]
  BY DEF ItemBecomes
<1>3. batch'[k] = [status |-> batch[k].status, item |-> [batch[k].item EXCEPT ![m] = outcome]]
  BY DEF ItemBecomes
<1>4. \A b \in DOMAIN batch : Items(b)' = Items(b)
  BY <1>2, <1>3 DEF Items
<1>5. \A n \in Items(k) : batch'[k].item[n] = IF n = m THEN outcome ELSE batch[k].item[n]
  BY <1>3 DEF Items
<1>6. \A b \in DOMAIN batch : Frozen(b)'
  <2>1. \A b \in DOMAIN batch \ {k} : Frozen(b)'
    BY <1>2, <1>4 DEF MeetingInv, Shape, Frozen
  <2>2. Frozen(k)'
    <3>1. Items(k)' = Items(k) /\ Frozen(k)
      BY <1>4 DEF MeetingInv, Shape
    <3>2. batch'[k].item = [n \in Items(k) |-> batch'[k].item[n]]
      BY <1>3, <3>1 DEF Items
    <3>3. batch'[k] = [status |-> batch'[k].status, item |-> batch'[k].item]
      BY <1>3
    <3> QED BY <3>1, <3>2, <3>3 DEF Frozen
  <2> QED BY <2>1, <2>2
<1>7. Shape'
  BY <1>1, <1>2, <1>6 DEF MeetingInv, Shape, Call
<1>8. (\A b \in DOMAIN batch \ {k} : Posted(b)' = Posted(b)) /\ Posted(k)' \subseteq Posted(k) \cup {m}
      /\ (m \in Posted(k)' => outcome = "POSTED") /\ Posted(k) \subseteq Posted(k)'
  BY <1>2, <1>4, <1>5 DEF Posted
<1>9. \A d \in Clerks : clerk'[d].pc = "entering" => d # c /\ clerk'[d] = clerk[d] /\ clerk[d].key \in DOMAIN batch
  BY <1>1 DEF MeetingInv, Shape, Call, Bound
<1>10. \A d \in Clerks : Decided(d)'
  BY <1>4, <1>8, <1>9 DEF MeetingInv, Decided, Reviewed
<1>11. Apart'
  BY <1>9 DEF MeetingInv, Apart
<1>12. Whole'
  <2>1. \A b, n : EntryOf(b, n) => EntryOf(b, n)'
    BY DEF EntryOf
  <2>2. \A b \in DOMAIN batch \ {k} : (\A n \in Posted(b)' : EntryOf(b, n)') /\ (batch'[b].status = "POSTED" => Posted(b)' = Items(b)')
    BY <1>2, <1>4, <1>8, <2>1 DEF MeetingInv, Whole
  <2>3. \A n \in Posted(k)' : EntryOf(k, n)'
    BY <1>8, <2>1 DEF MeetingInv, Whole
  <2>4. batch'[k].status # "POSTED"
    BY <1>3 DEF MeetingInv, Whole
  <2> QED BY <1>2, <2>2, <2>3, <2>4 DEF Whole
<1> QED BY <1>7, <1>10, <1>11, <1>12 DEF MeetingInv

\* Nobody else enters this learner: an item that is tried or entered has its learner's row.
LEMMA CommitStep == ASSUME MeetingInv, NEW c \in Clerks, CommitItem(c), UNCHANGED form PROVE MeetingInv'
<1> PICK k, m, e, outcome :
                   /\ k = clerk[c].key /\ m = clerk[c].m /\ outcome = "POSTED"
                   /\ e = [member |-> m, kind |-> k.facts[m].kind, by |-> k.by,
                            net |-> k.facts[m].net, points |-> k.facts[m].points]
  OBVIOUS
<1>1. /\ clerk[c].pc = "entering" /\ UNCHANGED <<form, meeting, reviewed>>
      /\ ledger' = ledger \cup {e}
      /\ clerk' = [clerk EXCEPT ![c].pc = "posting", ![c].m = None]
  BY DEF CommitItem
<1>a. batch' = [batch EXCEPT ![k].item[m] = outcome]
  BY DEF CommitItem
<1>2. Call(clerk[c]) /\ k \in DOMAIN batch /\ k.by = clerk[c].s /\ k.by \in Meetings
  BY <1>1 DEF MeetingInv, Shape, Call, Bound
<1>3. /\ Reviewed(k.by) /\ (k.facts[m].kind = "FIRST" => m \in meeting[k.by].who)
      /\ m \in Items(k) \ Posted(k)
  BY <1>1 DEF MeetingInv, Decided
<1>4. clerk'[c] = [clerk[c] EXCEPT !.pc = "posting", !.m = None] /\ clerk' = [clerk EXCEPT ![c] = clerk'[c]]
  BY <1>1 DEF MeetingInv, Shape
<1>5. clerk'[c] = [pc |-> "posting", s |-> clerk[c].s, seen |-> clerk[c].seen, key |-> k, m |-> None]
  BY <1>2, <1>4 DEF Call
<1>6. Call(clerk'[c]) /\ clerk'[c].pc # "entering"
  <2>1. clerk[c].s \in Meetings
    BY <1>1, <1>2 DEF Call
  <2> QED BY <1>2, <1>5, <2>1 DEF Call, Bound
<1>7. CreditsAreReviewed'
  <2>1. e.member = m /\ e.by = k.by /\ e.kind = k.facts[m].kind
    OBVIOUS
  <2>2. \A x \in ledger' : x \in ledger \/ x = e
    BY <1>1
  <2>3. \A x \in ledger : Reviewed(x.by)' /\ (x.kind = "FIRST" => x.member \in meeting'[x.by].who)
    BY <1>1 DEF MeetingInv, CreditsAreReviewed, Reviewed
  <2>4. Reviewed(e.by)' /\ (e.kind = "FIRST" => e.member \in meeting'[e.by].who)
    BY <1>1, <1>3, <2>1 DEF Reviewed
  <2> QED BY <2>2, <2>3, <2>4 DEF CreditsAreReviewed, Reviewed
<1>8. EntryOf(k, m)'
  BY <1>1 DEF EntryOf
<1>9. \A d \in Clerks \ {c} : clerk[d].pc = "entering" => clerk[d].m # m
  BY <1>1 DEF MeetingInv, Apart
<1>10. ledger \subseteq ledger' /\ \A x \in ledger' \ ledger : x.by \in Meetings
  BY <1>1, <1>2
<1>11. ItemBecomes(k, m, outcome)
  <2>1. batch[k] = [status |-> batch[k].status, item |-> batch[k].item]
    BY <1>2 DEF MeetingInv, Shape, Frozen
  <2>2. batch'[k] = [batch[k] EXCEPT !.item = [batch[k].item EXCEPT ![m] = outcome]]
    BY <1>a, <1>2
  <2>3. DOMAIN batch' = DOMAIN batch /\ \A b \in DOMAIN batch \ {k} : batch'[b] = batch[b]
    BY <1>a
  <2> QED BY <2>1, <2>2, <2>3 DEF ItemBecomes
<1>12. UNCHANGED <<form, meeting, reviewed>> /\ k \in DOMAIN batch /\ m \in Items(k) \ Posted(k)
  BY <1>1, <1>2, <1>3
<1>13. clerk' = [clerk EXCEPT ![c] = clerk'[c]]
  BY <1>4
<1> QED BY <1>6, <1>7, <1>8, <1>9, <1>10, <1>11, <1>12, <1>13, ItemMoves

LEMMA FailStep ==
    ASSUME MeetingInv, NEW c \in Clerks, NEW m \in Members, ItemFails(c, m), UNCHANGED form
    PROVE  MeetingInv'
<1> PICK k, outcome : k = clerk[c].key /\ outcome = "FAILED"
  OBVIOUS
<1>1. /\ UNCHANGED <<form, meeting, reviewed, ledger>>
      /\ clerk' = [clerk EXCEPT ![c].pc = "closing", ![c].m = None]
      /\ clerk[c].pc \in {"posting", "entering"}
  BY DEF ItemFails, Tries
<1>a. batch' = [batch EXCEPT ![k].item[m] = outcome]
  BY DEF ItemFails
<1>2. Call(clerk[c]) /\ k \in DOMAIN batch /\ k.by = clerk[c].s
  BY <1>1 DEF MeetingInv, Shape, Call, Bound
<1>3. m \in Items(k) \ Posted(k) /\ \A d \in Clerks \ {c} : clerk[d].pc = "entering" => clerk[d].m # m
  BY DEF ItemFails, Tries, LockedMember, MeetingInv, Decided, Apart
<1>4. clerk'[c] = [clerk[c] EXCEPT !.pc = "closing", !.m = None] /\ clerk' = [clerk EXCEPT ![c] = clerk'[c]]
  BY <1>1 DEF MeetingInv, Shape
<1>5. clerk'[c] = [pc |-> "closing", s |-> clerk[c].s, seen |-> clerk[c].seen, key |-> k, m |-> None]
  BY <1>2, <1>4 DEF Call
<1>6. Call(clerk'[c]) /\ clerk'[c].pc # "entering" /\ outcome # "POSTED"
  <2>1. clerk[c].s \in Meetings
    BY <1>1, <1>2 DEF Call
  <2> QED BY <1>2, <1>5, <2>1 DEF Call, Bound
<1>7. CreditsAreReviewed'
  BY <1>1 DEF MeetingInv, CreditsAreReviewed
<1>8. ledger \subseteq ledger' /\ \A x \in ledger' \ ledger : x.by \in Meetings
  BY <1>1
<1>9. ItemBecomes(k, m, outcome)
  <2>1. batch[k] = [status |-> batch[k].status, item |-> batch[k].item]
    BY <1>2 DEF MeetingInv, Shape, Frozen
  <2>2. batch'[k] = [batch[k] EXCEPT !.item = [batch[k].item EXCEPT ![m] = outcome]]
    BY <1>a, <1>2
  <2>3. DOMAIN batch' = DOMAIN batch /\ \A b \in DOMAIN batch \ {k} : batch'[b] = batch[b]
    BY <1>a
  <2> QED BY <2>1, <2>2, <2>3 DEF ItemBecomes
<1>10. UNCHANGED <<form, meeting, reviewed>> /\ k \in DOMAIN batch /\ m \in Items(k) \ Posted(k)
  BY <1>1, <1>2, <1>3
<1>11. clerk' = [clerk EXCEPT ![c] = clerk'[c]]
  BY <1>4
<1>12. /\ outcome = "POSTED" => EntryOf(k, m)'
       /\ \A d \in Clerks \ {c} : clerk[d].pc = "entering" => clerk[d].m # m
  BY <1>3, <1>6
<1> QED BY <1>6, <1>7, <1>8, <1>9, <1>10, <1>11, <1>12, ItemMoves

LEMMA SettleStep == ASSUME MeetingInv, NEW c \in Clerks, Settle(c) PROVE MeetingInv'
<1> UNCHANGED form
  BY DEF Settle
<1>1. CASE \E s \in Meetings : ConfirmReview(c, s)
  BY <1>1, ConfirmStep
<1>2. CASE ReadDetail(c)
  BY <1>2, ReadStep
<1>3. CASE DryRun(c)
  BY <1>3, DryRunStep
<1>4. CASE Reconcile(c)
  BY <1>4, ReconcileStep
<1>5. CASE BeginPost(c)
  BY <1>5, BeginStep
<1>6. CASE CommitItem(c)
  BY <1>6, CommitStep
<1>7. CASE Finish(c)
  BY <1>7, FinishStep
<1>8. CASE GiveUp(c) \/ Crash(c)
  BY <1>8, LeaveStep DEF GiveUp, Crash
<1>9. CASE \E m \in Members : Enter(c, m) \/ ItemFails(c, m)
  BY <1>9, EnterStep, FailStep
<1> QED BY <1>1, <1>2, <1>3, <1>4, <1>5, <1>6, <1>7, <1>8, <1>9 DEF Settle

LEMMA MeetingStep == MeetingInv /\ [Next]_vars => MeetingInv'
<1> SUFFICES ASSUME MeetingInv, [Next]_vars PROVE MeetingInv'
  OBVIOUS
<1>1. ASSUME NEW g \in Groups, NEW who \in Lists, Create(g, who) PROVE MeetingInv'
  <2> PICK f : f = [who |-> who, draft |-> {s \in Of(g, {"DRAFT"}) : \A t \in Of(g, {"DRAFT", "SUBMITTED"}) : t <= s}]
    OBVIOUS
  <2>1. form' = [form EXCEPT ![g] = f] /\ UNCHANGED <<meeting, reviewed, ledger, batch, clerk>>
    BY <1>1 DEF Create
  <2>2. form' = [h \in Groups |-> form'[h]] /\ \A h \in Groups : form'[h] # None => form'[h].who \in Lists
    BY <2>1 DEF MeetingInv, Shape
  <2>3. Shape'
    BY <2>1, <2>2 DEF MeetingInv, Shape, Frozen, Call, Items
  <2> QED BY <2>1, <2>3, MeetingMoves DEF Reviewed
<1>2. CASE UNCHANGED vars
  <2>1. Shape'
    BY <1>2 DEF vars, MeetingInv, Shape, Frozen, Call, Items
  <2> QED BY <1>2, <2>1, MeetingMoves DEF vars, Reviewed
<1> QED BY <1>1, <1>2, RegisterStep, SubmitStep, CorrectStep, SettleStep DEF Next

(***************************************************************************)
(* The theorems.                                                           *)
(***************************************************************************)
\* The inductive invariant of registrations, corrections, reviews and settlements.
THEOREM MeetingInvariant == Spec => []MeetingInv
BY MeetingInit, MeetingStep, PTL DEF Spec

\* Whatever a meeting has entered is of attendees that were reviewed and that stay its attendees:
\* for any number of versions, corrections and settlements at the same time (_correction_lock_reason
\* and assert_settlement_confirmation).
THEOREM CreditsReviewed == Spec => []CreditsAreReviewed
<1>1. MeetingInv => CreditsAreReviewed
  BY DEF MeetingInv
<1> QED BY <1>1, MeetingInvariant, PTL

\* A batch that is POSTED has an entry for each of its items, after any number of failures, deaths and
\* resumptions (_post_batch and reconcile_stale_posting_batch).
THEOREM SettlementsAreWhole == Spec => []SettledInFull
<1>1. MeetingInv => SettledInFull
  BY DEF MeetingInv, Whole, EntryOf, SettledInFull
<1> QED BY <1>1, MeetingInvariant, PTL

(***************************************************************************)
(* Sums of points.                                                         *)
(***************************************************************************)
\* The tally of a set, each member of which counts g times, or not at all if g is negative.
Tally(S, g) == UNION {{x} \X (1 .. g[x]) : x \in S}

LEMMA TallyGrows ==
    ASSUME NEW S, IsFiniteSet(S), NEW e, e \notin S, NEW g, \A x \in S \cup {e} : g[x] \in Int
    PROVE  /\ IsFiniteSet(Tally(S, g)) /\ Cardinality(Tally(S, g)) \in Nat
           /\ Cardinality(Tally(S \cup {e}, g)) = Cardinality(Tally(S, g)) + (IF g[e] > 0 THEN g[e] ELSE 0)
<1>1. ASSUME NEW x \in S \cup {e}
      PROVE  IsFiniteSet({x} \X (1 .. g[x])) /\ Cardinality({x} \X (1 .. g[x])) = IF g[x] > 0 THEN g[x] ELSE 0
  <2>1. PICK n \in Int : n = g[x]
    BY <1>1
  <2>2. IsFiniteSet(1 .. n) /\ Cardinality(1 .. n) = IF 1 > n THEN 0 ELSE n - 1 + 1
    BY FS_Interval
  <2>3. IsFiniteSet({x}) /\ Cardinality({x}) = 1
    BY FS_Singleton
  <2>4. IsFiniteSet({x} \X (1 .. n)) /\ Cardinality({x} \X (1 .. n)) = Cardinality({x}) * Cardinality(1 .. n)
    BY <2>2, <2>3, FS_Product
  <2> QED BY <2>1, <2>2, <2>3, <2>4
<1>2. PICK f : f = [x \in S |-> {x} \X (1 .. g[x])]
  OBVIOUS
<1>3. PICK T : T = {{x} \X (1 .. g[x]) : x \in S}
  OBVIOUS
<1>4. f \in Surjection(S, T)
  BY <1>2, <1>3 DEF Surjection
<1>5. IsFiniteSet(T)
  BY <1>4, FS_Surjection
<1>6. \A X \in T : IsFiniteSet(X)
  BY <1>1, <1>3
<1>7. IsFiniteSet(Tally(S, g))
  BY <1>3, <1>5, <1>6, FS_UNION DEF Tally
<1>8. PICK A, B : A = Tally(S, g) /\ B = {e} \X (1 .. g[e])
  OBVIOUS
<1>9. Tally(S \cup {e}, g) = A \cup B
  BY <1>8 DEF Tally
<1>10. A \cap B = {}
  BY <1>8 DEF Tally
<1>11. IsFiniteSet(A) /\ IsFiniteSet(B)
  BY <1>1, <1>7, <1>8
<1>12. Cardinality(A \cup B) = Cardinality(A) + Cardinality(B) - Cardinality(A \cap B)
  BY <1>11, FS_Union
<1>13. Cardinality(A) \in Nat /\ Cardinality(A \cap B) = 0
  BY <1>10, <1>11, FS_CardinalityType, FS_EmptySet
<1>14. Cardinality(B) = IF g[e] > 0 THEN g[e] ELSE 0
  BY <1>1, <1>8
<1>15. Cardinality(A \cup B) = Cardinality(A) + (IF g[e] > 0 THEN g[e] ELSE 0)
  <2>1. PICK n, b : n = Cardinality(A) /\ b = IF g[e] > 0 THEN g[e] ELSE 0
    OBVIOUS
  <2>2. n \in Nat /\ b \in Int
    BY <1>13, <2>1
  <2>3. Cardinality(A \cup B) = n + b - 0
    BY <1>12, <1>13, <1>14, <2>1
  <2> QED BY <2>1, <2>2, <2>3
<1> QED BY <1>7, <1>8, <1>9, <1>13, <1>15

LEMMA PointsGrow ==
    ASSUME NEW S, IsFiniteSet(S), NEW e, e \notin S, \A x \in S \cup {e} : x.points \in Int
    PROVE  Points(S) \in Int /\ Points(S \cup {e}) = Points(S) + e.points
<1>1. PICK g : g = [x \in S \cup {e} |-> x.points]
  OBVIOUS
<1>2. PICK h : h = [x \in S \cup {e} |-> -x.points]
  OBVIOUS
<1>3. Given(S) = Tally(S, g) /\ Given(S \cup {e}) = Tally(S \cup {e}, g)
  BY <1>1 DEF Given, Tally
<1>4. TakenBack(S) = Tally(S, h) /\ TakenBack(S \cup {e}) = Tally(S \cup {e}, h)
  BY <1>2 DEF TakenBack, Tally
<1>5. PICK n \in Int, k \in Int : n = e.points /\ k = -n
  OBVIOUS
<1>6. (\A x \in S \cup {e} : g[x] \in Int /\ h[x] \in Int) /\ g[e] = n /\ h[e] = k
  BY <1>1, <1>2, <1>5
<1>7. /\ Cardinality(Tally(S, g)) \in Nat
      /\ Cardinality(Tally(S \cup {e}, g)) = Cardinality(Tally(S, g)) + (IF n > 0 THEN n ELSE 0)
  BY <1>6, TallyGrows
<1>8. /\ Cardinality(Tally(S, h)) \in Nat
      /\ Cardinality(Tally(S \cup {e}, h)) = Cardinality(Tally(S, h)) + (IF k > 0 THEN k ELSE 0)
  BY <1>6, TallyGrows
<1> QED BY <1>3, <1>4, <1>5, <1>7, <1>8 DEF Points

LEMMA PointsOfNone == Points({}) = 0
<1>1. Given({}) = {} /\ TakenBack({}) = {}
  BY DEF Given, TakenBack
<1> QED BY <1>1, FS_EmptySet DEF Points

(***************************************************************************)
(* A learner's net.                                                        *)
(***************************************************************************)
Entries == [member : Members, kind : {"FIRST", "DIFFERENCE"}, by : Meetings, net : {0, 1}, points : {-1, 1}]

\* What an item in its transaction is to enter leads to one credit or none, and its learner is locked.
Promised(c) ==
    LET k == clerk[c].key
        m == clerk[c].m
        p == k.facts[m]
    IN  clerk[c].pc = "entering" =>
          /\ m \in Members /\ p.kind \in {"FIRST", "DIFFERENCE"} /\ p.net \in {0, 1} /\ p.points \in {-1, 1}
          /\ Net(m) + p.points \in {0, 1} /\ (p.kind = "DIFFERENCE" => Base(m) # {})

NetInv ==
    /\ IsFiniteSet(ledger) /\ ledger \subseteq Entries /\ NetWithinOne
    /\ \A e \in ledger : e.kind = "DIFFERENCE" => Base(e.member) # {}
    /\ \A c \in Clerks : Promised(c)

LEMMA NetStart == Init => NetInv
<1> SUFFICES ASSUME Init PROVE NetInv
  OBVIOUS
<1>1. ledger = {} /\ \A c \in Clerks : clerk[c].pc = "idle"
  BY DEF Init, Away
<1>2. \A m : EntriesOf(m) = {}
  BY <1>1 DEF EntriesOf
<1>3. NetWithinOne
  BY <1>2, PointsOfNone DEF Net, NetWithinOne
<1> QED BY <1>1, <1>3, FS_EmptySet DEF NetInv, Promised

\* A step that enters nothing and takes no item into its transaction.
LEMMA NetStays ==
    ASSUME NetInv, ledger' = ledger, \A c \in Clerks : clerk'[c].pc = "entering" => clerk'[c] = clerk[c]
    PROVE  NetInv'
<1>1. \A m : Net(m)' = Net(m) /\ Base(m)' = Base(m)
  BY DEF Net, Base, EntriesOf
<1>2. \A c \in Clerks : Promised(c)'
  BY <1>1 DEF NetInv, Promised
<1> QED BY <1>1, <1>2 DEF NetInv, NetWithinOne

\* What is proposed to enter: a first credit for a learner who has none, or the difference to what
\* the learner is entitled to.
LEMMA ProposalLeadsToOne ==
    ASSUME NetInv, NEW s, NEW m \in DOMAIN Proposals(s), ~Duplicate(s, m), NEW p, p = Proposals(s)[m]
    PROVE  /\ m \in Members /\ p.kind \in {"FIRST", "DIFFERENCE"} /\ p.net \in {0, 1} /\ p.points \in {-1, 1}
           /\ Net(m) + p.points \in {0, 1} /\ (p.kind = "DIFFERENCE" => Base(m) # {})
<1>1. m \in Members /\ p = Proposal(s, m)
  BY DEF Proposals
<1>2. Net(m) \in {0, 1}
  BY <1>1 DEF NetInv, NetWithinOne
<1>3. CASE ~Differs(s, m)
  <2>1. p = FirstCredit /\ Base(m) = {}
    BY <1>1, <1>3 DEF Proposal, Duplicate
  <2>2. EntriesOf(m) = {}
    BY <2>1 DEF NetInv, EntriesOf, Base, Entries
  <2>3. Net(m) = 0
    BY <2>2, PointsOfNone DEF Net
  <2> QED BY <1>1, <2>1, <2>3 DEF FirstCredit
<1>4. CASE Differs(s, m)
  <2>1. Adjustment(s, m) = {} /\ Base(m) # {} /\ Desired(s, m) # Net(m)
    BY <1>4 DEF Duplicate, Differs
  <2> DEFINE known == {[kind |-> e.kind, net |-> e.net, points |-> e.points] : e \in Adjustment(s, m)}
  <2>3. known = {}
    BY <2>1
  <2>4. p = CHOOSE q \in known \cup Owed(s, m) : known # {} => q \in known
    BY <1>1, <1>4 DEF Proposal
  <2>5. p \in Owed(s, m)
    <3> HIDE DEF known
    <3> QED BY <2>3, <2>4 DEF Owed
  <2>6. p = [kind |-> "DIFFERENCE", net |-> Net(m), points |-> Desired(s, m) - Net(m)]
    BY <2>5 DEF Owed
  <2>7. Desired(s, m) \in {0, 1}
    BY DEF Desired
  <2>8. PICK n \in {0, 1}, d \in {0, 1} : n = Net(m) /\ d = Desired(s, m) /\ n # d
    BY <1>2, <2>1, <2>7
  <2>9. p.kind = "DIFFERENCE" /\ p.net = n /\ p.points = d - n
    BY <2>6, <2>8
  <2>10. Net(m) + p.points \in {0, 1} /\ p.points \in {-1, 1}
    BY <2>8, <2>9
  <2> QED BY <1>1, <2>1, <2>8, <2>9, <2>10
<1> QED BY <1>3, <1>4

LEMMA EnterKeepsNet ==
    ASSUME MeetingInv, NetInv, NEW c \in Clerks, NEW m \in Members, Enter(c, m)
    PROVE  NetInv'
<1>1. PICK k : k = clerk[c].key
  OBVIOUS
<1>2. ledger' = ledger /\ m \in Items(k) \ Posted(k) /\ clerk[c].pc = "posting" /\ PreviewHolds(k)
  BY <1>1 DEF Enter, Tries, MayEnter
<1>3. clerk'[c].pc = "entering" /\ clerk'[c].m = m /\ clerk'[c].key = k /\ \A d \in Clerks \ {c} : clerk'[d] = clerk[d]
  <2>1. clerk[c] = [pc |-> clerk[c].pc, s |-> clerk[c].s, seen |-> clerk[c].seen, key |-> clerk[c].key, m |-> clerk[c].m]
    BY DEF MeetingInv, Shape, Call
  <2>2. clerk'[c] = [clerk[c] EXCEPT !.pc = "entering", !.m = m] /\ \A d \in Clerks \ {c} : clerk'[d] = clerk[d]
    BY DEF Enter, MeetingInv, Shape
  <2> QED BY <1>1, <2>1, <2>2
<1>4. k \in DOMAIN batch /\ m \in DOMAIN k.facts
  BY <1>1, <1>2 DEF MeetingInv, Shape, Call, Bound, Frozen
<1>5. k.facts = Proposals(k.by)
  BY <1>2 DEF PreviewHolds, Source
<1>6. ~Duplicate(k.by, m)
  BY <1>2 DEF PreviewHolds
<1>7. PICK p : p = k.facts[m]
  OBVIOUS
<1>8. /\ p.kind \in {"FIRST", "DIFFERENCE"} /\ p.net \in {0, 1} /\ p.points \in {-1, 1}
      /\ Net(m) + p.points \in {0, 1} /\ (p.kind = "DIFFERENCE" => Base(m) # {})
  BY <1>4, <1>5, <1>6, <1>7, ProposalLeadsToOne
<1>9. \A n : Net(n)' = Net(n) /\ Base(n)' = Base(n)
  BY <1>2 DEF Net, Base, EntriesOf
<1>10. Promised(c)'
  BY <1>3, <1>7, <1>8, <1>9 DEF Promised
<1>11. \A d \in Clerks \ {c} : Promised(d)'
  BY <1>3, <1>9 DEF NetInv, Promised
<1> QED BY <1>2, <1>9, <1>10, <1>11 DEF NetInv, NetWithinOne

\* The learner's row is held from the preview to the commit: nobody else's entry comes between.
LEMMA CommitKeepsNet ==
    ASSUME MeetingInv, NetInv, NEW c \in Clerks, CommitItem(c)
    PROVE  NetInv'
<1>1. PICK k, m, p : k = clerk[c].key /\ m = clerk[c].m /\ p = k.facts[m]
  OBVIOUS
<1>2. PICK e : e = [member |-> m, kind |-> p.kind, by |-> k.by, net |-> p.net, points |-> p.points]
  OBVIOUS
<1>3. /\ clerk[c].pc = "entering" /\ ledger' = ledger \cup {e}
      /\ \A x \in EntriesOf(m) : ~(x.kind = p.kind /\ (x.kind = "FIRST" \/ x.by = k.by))
      /\ clerk' = [clerk EXCEPT ![c].pc = "posting", ![c].m = None]
  BY <1>1, <1>2 DEF CommitItem
<1>4. /\ m \in Members /\ p.kind \in {"FIRST", "DIFFERENCE"} /\ p.net \in {0, 1} /\ p.points \in {-1, 1}
      /\ Net(m) + p.points \in {0, 1} /\ (p.kind = "DIFFERENCE" => Base(m) # {})
  BY <1>1, <1>3 DEF NetInv, Promised
<1>5. k.by \in Meetings
  BY <1>1, <1>3 DEF MeetingInv, Shape, Call, Bound
<1>6. e \in Entries /\ e \notin ledger /\ e.member = m /\ e.points = p.points /\ e.kind = p.kind
  BY <1>2, <1>3, <1>4, <1>5 DEF Entries, EntriesOf
<1>7. \A n : EntriesOf(n)' = IF n = m THEN EntriesOf(n) \cup {e} ELSE EntriesOf(n)
  BY <1>3, <1>6 DEF EntriesOf
<1>8. IsFiniteSet(ledger') /\ ledger' \subseteq Entries
  BY <1>3, <1>6, FS_AddElement DEF NetInv
<1>9. PICK S : S = EntriesOf(m)
  OBVIOUS
<1>10. IsFiniteSet(S) /\ e \notin S /\ \A x \in S \cup {e} : x.points \in Int
  BY <1>6, <1>9, FS_Subset DEF NetInv, EntriesOf, Entries
<1>11. Points(S \cup {e}) = Points(S) + e.points
  BY <1>10, PointsGrow
<1>12. Net(m)' = Net(m) + p.points
  BY <1>6, <1>7, <1>9, <1>11 DEF Net
<1>13. \A n : n # m => Net(n)' = Net(n)
  BY <1>7 DEF Net
<1>14. NetWithinOne'
  BY <1>4, <1>12, <1>13 DEF NetInv, NetWithinOne
<1>15. \A n : Base(n) \subseteq Base(n)'
  BY <1>7 DEF Base
<1>16. \A x \in ledger' : x.kind = "DIFFERENCE" => Base(x.member)' # {}
  BY <1>3, <1>4, <1>6, <1>15 DEF NetInv
<1>17. ASSUME NEW d \in Clerks PROVE Promised(d)'
  <2>1. CASE d = c
    <3>1. clerk'[c].pc = "posting"
      <4>1. clerk[c] = [pc |-> clerk[c].pc, s |-> clerk[c].s, seen |-> clerk[c].seen, key |-> clerk[c].key, m |-> clerk[c].m]
        BY DEF MeetingInv, Shape, Call
      <4>2. clerk'[c] = [clerk[c] EXCEPT !.pc = "posting", !.m = None]
        BY <1>3 DEF MeetingInv, Shape
      <4> QED BY <4>1, <4>2
    <3> QED BY <2>1, <3>1 DEF Promised
  <2>2. CASE d # c
    <3>1. clerk'[d] = clerk[d]
      BY <1>3, <2>2 DEF MeetingInv, Shape
    <3>2. clerk[d].pc = "entering" => clerk[d].m # m
      BY <1>1, <1>3, <2>2 DEF MeetingInv, Apart
    <3> QED BY <1>13, <1>15, <3>1, <3>2 DEF NetInv, Promised
  <2> QED BY <2>1, <2>2
<1> QED BY <1>8, <1>14, <1>16, <1>17 DEF NetInv

LEMMA NetStep == MeetingInv /\ NetInv /\ [Next]_vars => NetInv'
<1> SUFFICES ASSUME MeetingInv, NetInv, [Next]_vars PROVE NetInv'
  OBVIOUS
<1>1. ASSUME NEW c \in Clerks, NEW R, clerk' = [clerk EXCEPT ![c] = R], R.pc # "entering", ledger' = ledger PROVE NetInv'
  <2>1. \A d \in Clerks : clerk'[d] = IF d = c THEN R ELSE clerk[d]
    BY <1>1 DEF MeetingInv, Shape
  <2> QED BY <1>1, <2>1, NetStays
<1>2. ASSUME NEW g \in Groups, Register(g) \/ \E who \in Lists : Create(g, who) PROVE NetInv'
  BY <1>2, NetStays DEF Register, Create
<1>3. ASSUME NEW s \in Meetings, Submit(s) \/ \E who \in Lists : CorrectAttendees(s, who) PROVE NetInv'
  BY <1>3, NetStays DEF Submit, CorrectAttendees
<1>4. ASSUME NEW c \in Clerks, Settle(c) PROVE NetInv'
  <2>0. clerk[c] = [pc |-> clerk[c].pc, s |-> clerk[c].s, seen |-> clerk[c].seen, key |-> clerk[c].key, m |-> clerk[c].m]
    BY DEF MeetingInv, Shape, Call
  <2>1. CASE \E s \in Meetings : ConfirmReview(c, s)
    <3>1. PICK s \in Meetings : ConfirmReview(c, s)
      BY <2>1
    <3>2. [Away EXCEPT !.pc = "confirmed", !.s = s].pc = "confirmed"
      BY DEF Away
    <3> QED BY <1>1, <3>1, <3>2 DEF ConfirmReview
  <2>2. CASE ReadDetail(c)
    <3>1. PICK R : R = [clerk[c] EXCEPT !.pc = "reviewed", !.seen = Fingerprint(clerk[c].s)]
      OBVIOUS
    <3>2. R.pc = "reviewed"
      BY <2>0, <3>1
    <3>3. clerk' = [clerk EXCEPT ![c] = R] /\ ledger' = ledger
      BY <2>2, <3>1 DEF ReadDetail, MeetingInv, Shape
    <3> QED BY <1>1, <3>2, <3>3
  <2>3. CASE DryRun(c)
    <3>1. PICK R : R = [clerk[c] EXCEPT !.pc = "planned", !.key = Source(clerk[c].s)]
      OBVIOUS
    <3>2. R.pc = "planned"
      BY <2>0, <3>1
    <3>3. clerk' = [clerk EXCEPT ![c] = R] /\ ledger' = ledger
      BY <2>3, <3>1 DEF DryRun, MeetingInv, Shape
    <3> QED BY <1>1, <3>2, <3>3
  <2>4. CASE Reconcile(c)
    BY <2>4, NetStays DEF Reconcile
  <2>5. CASE BeginPost(c)
    <3>1. PICK R : R = [clerk[c] EXCEPT !.pc = "posting"]
      OBVIOUS
    <3>2. R.pc = "posting"
      BY <2>0, <3>1
    <3>3. clerk' = [clerk EXCEPT ![c] = R] /\ ledger' = ledger
      BY <2>5, <3>1 DEF BeginPost, Step, MeetingInv, Shape
    <3> QED BY <1>1, <3>2, <3>3
  <2>6. CASE Finish(c) \/ GiveUp(c) \/ Crash(c)
    <3>1. Away.pc = "idle"
      BY DEF Away
    <3>2. clerk' = [clerk EXCEPT ![c] = Away] /\ ledger' = ledger
      BY <2>6 DEF Finish, GiveUp, Crash, Leave
    <3> QED BY <1>1, <3>1, <3>2
  <2>7. ASSUME NEW m \in Members, ItemFails(c, m) PROVE NetInv'
    <3>1. PICK R : R = [clerk[c] EXCEPT !.pc = "closing", !.m = None]
      OBVIOUS
    <3>2. R.pc = "closing"
      BY <2>0, <3>1
    <3>3. clerk' = [clerk EXCEPT ![c] = R] /\ ledger' = ledger
      BY <2>7, <3>1 DEF ItemFails, MeetingInv, Shape
    <3> QED BY <1>1, <3>2, <3>3
  <2> QED BY <1>4, <2>1, <2>2, <2>3, <2>4, <2>5, <2>6, <2>7, EnterKeepsNet, CommitKeepsNet DEF Settle
<1>5. CASE UNCHANGED vars
  BY <1>5, NetStays DEF vars
<1> QED BY <1>2, <1>3, <1>4, <1>5 DEF Next

(***************************************************************************)
(* Types.                                                                  *)
(***************************************************************************)
FormsOK ==
    \A g \in Groups : form[g] # None =>
        /\ form[g].who \in Lists /\ form[g].draft \subseteq Meetings
        /\ \A s \in form[g].draft : meeting[s].status # "NONE"
RegisteredOK(M) == M.group \in Groups /\ M.who \in Lists /\ M.status \in {"DRAFT", "SUBMITTED", "CANCELLED"}
MeetingOK(s) ==
    /\ meeting[s] = Unused \/ RegisteredOK(meeting[s])
    /\ meeting[s].rev \in 0 .. Changes
    /\ reviewed[s] = None \/ reviewed[s].group = meeting[s].group
BatchOK(k) ==
    /\ DOMAIN k.facts \subseteq Members /\ batch[k].status \in {"DRY_RUN", "POSTING", "PARTIAL_FAILED", "POSTED"}
    /\ \A m \in Items(k) : batch[k].item[m] \in {"PROPOSED", "FAILED", "POSTED"}
ClerkOK(r) == r.s \in Meetings \cup {None} /\ r.m \in Members \cup {None}

TypesInv ==
    /\ FormsOK /\ \A s \in Meetings : MeetingOK(s)
    /\ \A k \in DOMAIN batch : BatchOK(k)
    /\ \A c \in Clerks : ClerkOK(clerk[c])

LEMMA TypesStart == Init => TypesInv
BY MeetingAssumption DEF Init, TypesInv, FormsOK, MeetingOK, ClerkOK, Unused, Away

\* A meeting's corrections are among those counted.
LEMMA RevisionsAreSpent ==
    ASSUME MeetingInv, NEW s \in Meetings, meeting[s].status # "NONE", Spent < Changes
    PROVE  meeting[s].rev + 1 \in 0 .. Changes
<1>1. PICK rev : rev = [t \in Meetings |-> meeting[t].rev]
  OBVIOUS
<1>2. \A t \in Meetings : rev[t] \in Nat
  BY <1>1 DEF MeetingInv, Shape, Version
<1>3. ASSUME NEW t \in Meetings PROVE IsFiniteSet({t} \X (0 .. rev[t])) /\ Cardinality({t} \X (0 .. rev[t])) = rev[t] + 1
  <2>1. PICK n \in Int, z \in Int : n = rev[t] /\ z = 0 /\ n >= 0
    BY <1>2
  <2>2. IsFiniteSet(z .. n) /\ Cardinality(z .. n) = IF z > n THEN 0 ELSE n - z + 1
    BY FS_Interval
  <2>3. IsFiniteSet({t}) /\ Cardinality({t}) = 1
    BY FS_Singleton
  <2>4. IsFiniteSet({t} \X (z .. n)) /\ Cardinality({t} \X (z .. n)) = Cardinality({t}) * Cardinality(z .. n)
    BY <2>2, <2>3, FS_Product
  <2> QED BY <2>1, <2>2, <2>3, <2>4
<1>4. PICK U : U = Used
  OBVIOUS
<1>5. IsFiniteSet(U) /\ U \subseteq Meetings /\ s \in U
  BY <1>4, MeetingAssumption, FS_Subset DEF Used
<1>6. PICK f, T : f = [t \in U |-> {t} \X (0 .. rev[t])] /\ T = {{t} \X (0 .. rev[t]) : t \in U}
  OBVIOUS
<1>7. f \in Surjection(U, T)
  BY <1>6 DEF Surjection
<1>8. IsFiniteSet(T) /\ \A X \in T : IsFiniteSet(X)
  BY <1>3, <1>5, <1>6, <1>7, FS_Surjection
<1>9. IsFiniteSet(UNION T)
  BY <1>8, FS_UNION
<1>10. {s} \X (0 .. rev[s]) \subseteq UNION T
  BY <1>5, <1>6
<1>11. Cardinality({s} \X (0 .. rev[s])) <= Cardinality(UNION T) /\ Cardinality(UNION T) \in Nat
  BY <1>9, <1>10, FS_Subset, FS_CardinalityType
<1>12. UNION T = UNION {{t} \X (0 .. meeting[t].rev) : t \in Used}
  BY <1>1, <1>4, <1>5, <1>6
<1>13. Cardinality(Pending) \in Nat
  <2>1. IsFiniteSet(Pending)
    BY MeetingAssumption, FS_Subset DEF Pending
  <2> QED BY <2>1, FS_CardinalityType
<1>14. PICK p \in Nat, u \in Nat, n \in Nat : p = Cardinality(Pending) /\ u = Cardinality(UNION T) /\ n = meeting[s].rev
  BY <1>1, <1>2, <1>11, <1>13
<1>15. n + 1 <= u /\ p + u < Changes
  BY <1>1, <1>3, <1>11, <1>12, <1>14 DEF Spent
<1> QED BY <1>14, <1>15, MeetingAssumption

\* A step that leaves batches and calls alone.
LEMMA MeetingsMove ==
    ASSUME TypesInv, UNCHANGED <<batch, clerk>>, FormsOK', \A s \in Meetings : MeetingOK(s)'
    PROVE  TypesInv'
BY DEF TypesInv, BatchOK, Items

\* A step of one call, and of the batch it works on.
LEMMA CallIsTyped ==
    ASSUME MeetingInv, TypesInv, NEW c \in Clerks, NEW R, clerk' = [clerk EXCEPT ![c] = R], ClerkOK(R),
           UNCHANGED <<form, meeting, reviewed>>, \A k \in DOMAIN batch' : BatchOK(k)'
    PROVE  TypesInv'
<1>1. \A d \in Clerks : clerk'[d] = IF d = c THEN R ELSE clerk[d]
  BY DEF MeetingInv, Shape
<1>2. \A d \in Clerks : ClerkOK(clerk[d])'
  BY <1>1 DEF TypesInv, ClerkOK
<1>3. FormsOK' /\ \A s \in Meetings : MeetingOK(s)'
  BY DEF TypesInv, FormsOK, MeetingOK
<1> QED BY <1>2, <1>3 DEF TypesInv

LEMMA RegistrationIsTyped ==
    ASSUME MeetingInv, TypesInv, NEW g \in Groups, Register(g) \/ \E who \in Lists : Create(g, who)
    PROVE  TypesInv'
<1>1. CASE Register(g)
  <2>1. PICK s \in Meetings \ Used :
          meeting' = [t \in Meetings |->
              IF t = s THEN [group |-> g, status |-> "DRAFT", who |-> form[g].who, rev |-> 0]
              ELSE IF t \in form[g].draft THEN [meeting[t] EXCEPT !.status = "CANCELLED"]
              ELSE meeting[t]]
    BY <1>1 DEF Register
  <2>2. UNCHANGED <<reviewed, batch, clerk>> /\ form[g] # None /\ form' = [form EXCEPT ![g] = None]
    BY <1>1 DEF Register
  <2>3. meeting \in [Meetings -> Version]
    BY DEF MeetingInv, Shape
  <2>4. PICK who \in Lists, draft \in SUBSET Meetings :
          who = form[g].who /\ draft = form[g].draft /\ \A t \in draft : meeting[t].status # "NONE"
    BY <2>2 DEF TypesInv, FormsOK
  <2>5. ASSUME NEW t \in Meetings PROVE MeetingOK(t)' /\ (meeting[t].status # "NONE" => meeting'[t].status # "NONE")
    <3>1. meeting[t] \in Version /\ MeetingOK(t) /\ meeting[s].status = "NONE"
      BY <2>1, <2>3 DEF TypesInv, Used
    <3>2. CASE t = s
      <4>1. meeting'[s] = [group |-> g, status |-> "DRAFT", who |-> who, rev |-> 0]
        BY <2>1, <2>4
      <4>2. reviewed[s] = None
        BY <3>1, <3>2 DEF MeetingInv, Shape
      <4> QED BY <2>2, <3>2, <4>1, <4>2, MeetingAssumption DEF MeetingOK, RegisteredOK
    <3>3. CASE t # s /\ t \in draft
      <4>1. meeting'[t] = [meeting[t] EXCEPT !.status = "CANCELLED"]
        BY <2>1, <2>4, <3>3
      <4>2. RegisteredOK(meeting[t])
        BY <2>4, <3>1, <3>3 DEF MeetingOK, Unused
      <4>3. /\ meeting'[t].group = meeting[t].group /\ meeting'[t].who = meeting[t].who
            /\ meeting'[t].rev = meeting[t].rev /\ meeting'[t].status = "CANCELLED"
        BY <3>1, <4>1 DEF Version
      <4> QED BY <2>2, <3>1, <4>2, <4>3 DEF MeetingOK, RegisteredOK
    <3>4. CASE t # s /\ t \notin draft
      <4>1. meeting'[t] = meeting[t]
        BY <2>1, <2>4, <3>4
      <4> QED BY <2>2, <3>1, <4>1 DEF MeetingOK, RegisteredOK
    <3> QED BY <3>2, <3>3, <3>4
  <2>6. FormsOK'
    BY <2>2, <2>5 DEF TypesInv, FormsOK, MeetingInv, Shape
  <2> QED BY <2>2, <2>5, <2>6, MeetingsMove
<1>2. ASSUME NEW who \in Lists, Create(g, who) PROVE TypesInv'
  <2>1. PICK draft : draft = {s \in Of(g, {"DRAFT"}) : \A t \in Of(g, {"DRAFT", "SUBMITTED"}) : t <= s}
    OBVIOUS
  <2>2. form' = [form EXCEPT ![g] = [who |-> who, draft |-> draft]] /\ UNCHANGED <<meeting, reviewed, batch, clerk>>
    BY <1>2, <2>1 DEF Create
  <2>3. draft \subseteq Meetings /\ \A s \in draft : meeting[s].status = "DRAFT"
    BY <2>1 DEF Of
  <2>4. \A h \in Groups : form'[h] = IF h = g THEN [who |-> who, draft |-> draft] ELSE form[h]
    BY <2>2 DEF MeetingInv, Shape
  <2>5. FormsOK'
    BY <2>2, <2>3, <2>4 DEF TypesInv, FormsOK
  <2>6. \A s \in Meetings : MeetingOK(s)'
    BY <2>2 DEF TypesInv, MeetingOK
  <2> QED BY <2>2, <2>5, <2>6, MeetingsMove
<1> QED BY <1>1, <1>2

LEMMA SubmissionIsTyped ==
    ASSUME MeetingInv, TypesInv, NEW s \in Meetings, Submit(s) \/ \E who \in Lists : CorrectAttendees(s, who)
    PROVE  TypesInv'
<1>1. meeting \in [Meetings -> Version] /\ \A t \in Meetings : MeetingOK(t)
  BY DEF MeetingInv, Shape, TypesInv
<1>2. ASSUME UNCHANGED <<form, reviewed, batch, clerk>>,
             \A t \in Meetings : \/ meeting'[t] = meeting[t]
                                 \/ /\ RegisteredOK(meeting[t]) /\ RegisteredOK(meeting'[t])
                                    /\ meeting'[t].group = meeting[t].group /\ meeting'[t].rev \in 0 .. Changes
      PROVE  TypesInv'
  <2>1. \A t \in Meetings : MeetingOK(t)'
    BY <1>1, <1>2 DEF MeetingOK
  <2>2. FormsOK'
    BY <1>2 DEF TypesInv, FormsOK, RegisteredOK
  <2> QED BY <1>2, <2>1, <2>2, MeetingsMove
<1>3. CASE Submit(s)
  <2>1. UNCHANGED <<form, reviewed, batch, clerk>> /\ meeting[s].status = "DRAFT"
    BY <1>3 DEF Submit
  <2>2. ASSUME NEW t \in Meetings, meeting'[t] # meeting[t]
        PROVE  /\ RegisteredOK(meeting[t]) /\ RegisteredOK(meeting'[t])
               /\ meeting'[t].group = meeting[t].group /\ meeting'[t].rev \in 0 .. Changes
    <3>1. PICK st \in {"SUBMITTED", "CANCELLED"} : meeting'[t] = [meeting[t] EXCEPT !.status = st]
      BY <1>3, <2>2 DEF Submit
    <3>2. meeting[t].status \in {"DRAFT", "SUBMITTED"}
      BY <1>3, <2>1, <2>2 DEF Submit, Replaced, Of
    <3>3. meeting[t] \in Version /\ RegisteredOK(meeting[t]) /\ meeting[t].rev \in 0 .. Changes
      BY <1>1, <3>2 DEF MeetingOK, Unused
    <3>4. /\ meeting'[t].group = meeting[t].group /\ meeting'[t].who = meeting[t].who
          /\ meeting'[t].rev = meeting[t].rev /\ meeting'[t].status = st
      BY <3>1, <3>3 DEF Version
    <3> QED BY <3>3, <3>4 DEF RegisteredOK
  <2> QED BY <1>2, <2>1, <2>2
<1>4. ASSUME NEW who \in Lists, CorrectAttendees(s, who) PROVE TypesInv'
  <2>1. UNCHANGED <<form, reviewed, batch, clerk>> /\ meeting[s].status = "SUBMITTED" /\ Spent < Changes
    BY <1>4 DEF CorrectAttendees
  <2>2. meeting[s] \in Version /\ RegisteredOK(meeting[s])
    BY <1>1, <2>1 DEF MeetingOK, Unused
  <2>3. PICK rev \in 0 .. Changes : rev = meeting[s].rev + 1
    BY <2>1, RevisionsAreSpent
  <2>4. meeting' = [meeting EXCEPT ![s].who = who, ![s].rev = rev]
    BY <1>4, <2>3 DEF CorrectAttendees
  <2>5. meeting'[s] = [meeting[s] EXCEPT !.who = who, !.rev = rev] /\ \A t \in Meetings \ {s} : meeting'[t] = meeting[t]
    BY <1>1, <2>4
  <2>6. /\ meeting'[s].group = meeting[s].group /\ meeting'[s].who = who
        /\ meeting'[s].rev = rev /\ meeting'[s].status = meeting[s].status
    BY <2>2, <2>5 DEF Version
  <2> QED BY <1>2, <2>1, <2>2, <2>5, <2>6 DEF RegisteredOK
<1> QED BY <1>3, <1>4

LEMMA SettlementIsTyped ==
    ASSUME MeetingInv, TypesInv, NEW c \in Clerks, Settle(c)
    PROVE  TypesInv'
<1>0. UNCHANGED form
  BY DEF Settle
<1>1. clerk[c] = [pc |-> clerk[c].pc, s |-> clerk[c].s, seen |-> clerk[c].seen, key |-> clerk[c].key, m |-> clerk[c].m]
  BY DEF MeetingInv, Shape, Call
<1>2. ClerkOK(clerk[c]) /\ ClerkOK(Away) /\ \A d \in Clerks : ClerkOK(clerk[d])
  BY DEF TypesInv, ClerkOK, Away
<1>3. UNCHANGED batch => \A k \in DOMAIN batch' : BatchOK(k)'
  BY DEF TypesInv, BatchOK, Items
<1>4. clerk[c].pc \in Bound => clerk[c].key \in DOMAIN batch
  BY DEF MeetingInv, Shape, Call
<1>5. ASSUME NEW s \in Meetings, ConfirmReview(c, s) PROVE TypesInv'
  <2>1. meeting[s].status \in {"DRAFT", "SUBMITTED"} /\ UNCHANGED batch
    BY <1>5 DEF ConfirmReview
  <2>2. meeting[s] \in Version /\ meeting \in [Meetings -> Version] /\ MeetingOK(s) /\ RegisteredOK(meeting[s])
    BY <2>1 DEF MeetingInv, Shape, TypesInv, MeetingOK, Unused
  <2>3. PICK M : M = [meeting[s] EXCEPT !.status = "SUBMITTED"]
    OBVIOUS
  <2>4. M.group = meeting[s].group /\ M.who = meeting[s].who /\ M.rev = meeting[s].rev /\ M.status = "SUBMITTED"
    BY <2>2, <2>3 DEF Version
  <2>5. Submitted(s) = [meeting EXCEPT ![s] = M] /\ Submitted(s)[s] = M
    BY <2>2, <2>3 DEF Submitted
  <2>6. meeting' = [meeting EXCEPT ![s] = M] /\ reviewed' = [reviewed EXCEPT ![s] = M]
    BY <1>5, <2>5 DEF ConfirmReview
  <2>7. ASSUME NEW t \in Meetings PROVE MeetingOK(t)' /\ (meeting[t].status # "NONE" => meeting'[t].status # "NONE")
    <3>1. MeetingOK(t) /\ reviewed'[t] = (IF t = s THEN M ELSE reviewed[t]) /\ meeting'[t] = IF t = s THEN M ELSE meeting[t]
      BY <2>2, <2>6 DEF TypesInv, MeetingInv, Shape
    <3> QED BY <2>2, <2>4, <3>1 DEF MeetingOK, RegisteredOK
  <2>8. FormsOK'
    BY <1>0, <2>7 DEF TypesInv, FormsOK
  <2>9. PICK R : R = [Away EXCEPT !.pc = "confirmed", !.s = s]
    OBVIOUS
  <2>10. ClerkOK(R)
    BY <2>9 DEF ClerkOK, Away
  <2>11. \A d \in Clerks : clerk'[d] = IF d = c THEN R ELSE clerk[d]
    BY <1>5, <2>9 DEF ConfirmReview, MeetingInv, Shape
  <2>12. \A d \in Clerks : ClerkOK(clerk[d])'
    BY <1>2, <2>10, <2>11 DEF ClerkOK
  <2> QED BY <1>3, <2>1, <2>7, <2>8, <2>12 DEF TypesInv
<1>6. CASE ReadDetail(c)
  <2>1. PICK R : R = [clerk[c] EXCEPT !.pc = "reviewed", !.seen = Fingerprint(clerk[c].s)]
    OBVIOUS
  <2>2. ClerkOK(R)
    BY <1>1, <1>2, <2>1 DEF ClerkOK
  <2>3. clerk' = [clerk EXCEPT ![c] = R] /\ UNCHANGED <<meeting, reviewed, batch>>
    BY <1>6, <2>1 DEF ReadDetail, MeetingInv, Shape
  <2> QED BY <1>0, <1>3, <2>2, <2>3, CallIsTyped
<1>7. CASE DryRun(c)
  <2>1. PICK k : k = Source(clerk[c].s)
    OBVIOUS
  <2>2. PICK R : R = [clerk[c] EXCEPT !.pc = "planned", !.key = k]
    OBVIOUS
  <2>3. ClerkOK(R)
    BY <1>1, <1>2, <2>2 DEF ClerkOK
  <2>4. clerk' = [clerk EXCEPT ![c] = R] /\ UNCHANGED <<meeting, reviewed>>
        /\ batch' = [b \in DOMAIN batch \cup {k} |-> IF b \in DOMAIN batch THEN batch[b] ELSE NewBatch(k)]
    BY <1>7, <2>1, <2>2 DEF DryRun, Batches, MeetingInv, Shape
  <2>5. ASSUME NEW b \in DOMAIN batch' PROVE BatchOK(b)'
    <3>1. CASE b \in DOMAIN batch
      <4>1. batch'[b] = batch[b]
        BY <2>4, <3>1
      <4> QED BY <3>1, <4>1 DEF TypesInv, BatchOK, Items
    <3>2. CASE b \notin DOMAIN batch
      <4>1. b = k /\ batch'[b] = NewBatch(k)
        BY <2>4, <3>2
      <4>2. PICK P : P = Postable(k.by)
        OBVIOUS
      <4>3. batch'[b] = [status |-> "DRY_RUN", item |-> [m \in P |-> "PROPOSED"]]
        BY <4>1, <4>2 DEF NewBatch
      <4>4. DOMAIN k.facts \subseteq Members
        BY <2>1 DEF Source, Proposals
      <4> QED BY <4>1, <4>3, <4>4 DEF BatchOK, Items
    <3> QED BY <3>1, <3>2
  <2> QED BY <1>0, <2>3, <2>4, <2>5, CallIsTyped
<1>8. ASSUME NEW k \in DOMAIN batch, NEW st \in {"DRY_RUN", "POSTING", "PARTIAL_FAILED", "POSTED"},
             batch' = [batch EXCEPT ![k].status = st]
      PROVE  \A b \in DOMAIN batch' : BatchOK(b)'
  <2>1. \A b \in DOMAIN batch : batch[b] = [status |-> batch[b].status, item |-> batch[b].item]
    BY DEF MeetingInv, Shape, Frozen
  <2>2. \A b \in DOMAIN batch : batch'[b].item = batch[b].item /\ batch'[b].status = IF b = k THEN st ELSE batch[b].status
    <3>1. batch'[k] = [batch[k] EXCEPT !.status = st] /\ \A b \in DOMAIN batch \ {k} : batch'[b] = batch[b]
      BY <1>8
    <3> QED BY <2>1, <3>1
  <2>3. DOMAIN batch' = DOMAIN batch
    BY <1>8
  <2> QED BY <2>2, <2>3 DEF TypesInv, BatchOK, Items
<1>9. CASE Reconcile(c)
  <2>1. PICK k, st : k = clerk[c].key /\ st = Total(k)
    OBVIOUS
  <2>2. /\ k \in DOMAIN batch /\ st \in {"POSTED", "PARTIAL_FAILED"}
        /\ batch' = [batch EXCEPT ![k].status = st] /\ UNCHANGED <<meeting, reviewed, clerk>>
    BY <1>4, <1>9, <2>1 DEF Reconcile, Bound, Total
  <2>3. clerk' = [clerk EXCEPT ![c] = clerk[c]]
    BY <2>2 DEF MeetingInv, Shape
  <2> QED BY <1>0, <1>2, <1>8, <2>2, <2>3, CallIsTyped
<1>10. CASE BeginPost(c)
  <2>1. PICK k, R : k = clerk[c].key /\ R = [clerk[c] EXCEPT !.pc = "posting"]
    OBVIOUS
  <2>2. k \in DOMAIN batch /\ batch' = [batch EXCEPT ![k].status = "POSTING"] /\ UNCHANGED <<meeting, reviewed>>
    BY <1>4, <1>10, <2>1 DEF BeginPost, Bound
  <2>3. clerk' = [clerk EXCEPT ![c] = R]
    BY <1>10, <2>1 DEF BeginPost, Step, MeetingInv, Shape
  <2>4. ClerkOK(R)
    BY <1>1, <1>2, <2>1 DEF ClerkOK
  <2> QED BY <1>0, <1>8, <2>2, <2>3, <2>4, CallIsTyped
<1>11. CASE Finish(c)
  <2>1. PICK k, st : k = clerk[c].key /\ st = Total(k)
    OBVIOUS
  <2>2. /\ k \in DOMAIN batch /\ st \in {"POSTED", "PARTIAL_FAILED"}
        /\ batch' = [batch EXCEPT ![k].status = st] /\ UNCHANGED <<meeting, reviewed>>
        /\ clerk' = [clerk EXCEPT ![c] = Away]
    BY <1>4, <1>11, <2>1 DEF Finish, Leave, Bound, Total
  <2> QED BY <1>0, <1>2, <1>8, <2>2, CallIsTyped
<1>12. CASE GiveUp(c) \/ Crash(c)
  <2>1. clerk' = [clerk EXCEPT ![c] = Away] /\ UNCHANGED <<meeting, reviewed, batch>>
    BY <1>12 DEF GiveUp, Crash, Leave
  <2> QED BY <1>0, <1>2, <1>3, <2>1, CallIsTyped
<1>13. ASSUME NEW m \in Members, Enter(c, m) PROVE TypesInv'
  <2>1. PICK R : R = [clerk[c] EXCEPT !.pc = "entering", !.m = m]
    OBVIOUS
  <2>2. ClerkOK(R)
    BY <1>1, <1>2, <2>1 DEF ClerkOK
  <2>3. clerk' = [clerk EXCEPT ![c] = R] /\ UNCHANGED <<meeting, reviewed, batch>>
    BY <1>13, <2>1 DEF Enter, MeetingInv, Shape
  <2> QED BY <1>0, <1>3, <2>2, <2>3, CallIsTyped
<1>14. ASSUME NEW k \in DOMAIN batch, NEW m \in Items(k), NEW o \in {"POSTED", "FAILED"}, batch' = [batch EXCEPT ![k].item[m] = o]
       PROVE  \A b \in DOMAIN batch' : BatchOK(b)'
  <2>1. batch[k] = [status |-> batch[k].status, item |-> batch[k].item] /\ batch[k].item = [n \in Items(k) |-> batch[k].item[n]]
    BY DEF MeetingInv, Shape, Frozen
  <2>2. PICK I : I = [batch[k].item EXCEPT ![m] = o]
    OBVIOUS
  <2>3. batch'[k] = [batch[k] EXCEPT !.item = I] /\ \A b \in DOMAIN batch \ {k} : batch'[b] = batch[b]
    BY <1>14, <2>2
  <2>4. batch'[k].item = I /\ batch'[k].status = batch[k].status
    BY <2>1, <2>3
  <2>5. DOMAIN I = Items(k) /\ \A n \in Items(k) : I[n] = IF n = m THEN o ELSE batch[k].item[n]
    BY <2>1, <2>2
  <2>6. BatchOK(k)'
    BY <2>4, <2>5 DEF TypesInv, BatchOK, Items
  <2>7. \A b \in DOMAIN batch \ {k} : BatchOK(b)'
    BY <2>3 DEF TypesInv, BatchOK, Items
  <2> QED BY <1>14, <2>6, <2>7
<1>15. CASE CommitItem(c)
  <2>1. PICK k, m, R : k = clerk[c].key /\ m = clerk[c].m /\ R = [clerk[c] EXCEPT !.pc = "posting", !.m = None]
    OBVIOUS
  <2>2. k \in DOMAIN batch /\ m \in Items(k)
    BY <1>4, <1>15, <2>1 DEF CommitItem, Bound, MeetingInv, Decided
  <2>3. batch' = [batch EXCEPT ![k].item[m] = "POSTED"] /\ UNCHANGED <<meeting, reviewed>>
    BY <1>15, <2>1 DEF CommitItem
  <2>4. clerk' = [clerk EXCEPT ![c] = R]
    BY <1>15, <2>1 DEF CommitItem, MeetingInv, Shape
  <2>5. ClerkOK(R)
    BY <1>1, <1>2, <2>1 DEF ClerkOK
  <2> QED BY <1>0, <1>14, <2>2, <2>3, <2>4, <2>5, CallIsTyped
<1>16. ASSUME NEW m \in Members, ItemFails(c, m) PROVE TypesInv'
  <2>1. PICK k, R : k = clerk[c].key /\ R = [clerk[c] EXCEPT !.pc = "closing", !.m = None]
    OBVIOUS
  <2>2. k \in DOMAIN batch /\ m \in Items(k)
    BY <1>4, <1>16, <2>1 DEF ItemFails, Tries, Bound, MeetingInv, Decided
  <2>3. batch' = [batch EXCEPT ![k].item[m] = "FAILED"] /\ UNCHANGED <<meeting, reviewed>>
    BY <1>16, <2>1 DEF ItemFails
  <2>4. clerk' = [clerk EXCEPT ![c] = R]
    BY <1>16, <2>1 DEF ItemFails, MeetingInv, Shape
  <2>5. ClerkOK(R)
    BY <1>1, <1>2, <2>1 DEF ClerkOK
  <2> QED BY <1>0, <1>14, <2>2, <2>3, <2>4, <2>5, CallIsTyped
<1> QED BY <1>5, <1>6, <1>7, <1>9, <1>10, <1>11, <1>12, <1>13, <1>15, <1>16 DEF Settle

LEMMA TypesStep == MeetingInv /\ TypesInv /\ [Next]_vars => TypesInv'
<1>1. ASSUME MeetingInv, TypesInv, UNCHANGED vars PROVE TypesInv'
  <2>1. FormsOK' /\ \A s \in Meetings : MeetingOK(s)'
    BY <1>1 DEF vars, TypesInv, FormsOK, MeetingOK
  <2> QED BY <1>1, <2>1, MeetingsMove DEF vars
<1> QED BY <1>1, RegistrationIsTyped, SubmissionIsTyped, SettlementIsTyped DEF Next

LEMMA MeetingsAreTyped == MeetingInv /\ TypesInv /\ NetInv => MeetingsSafe
<1> SUFFICES ASSUME MeetingInv, TypesInv, NetInv PROVE TypeOK
  BY DEF NetInv, MeetingsSafe
<1>1. \A k \in DOMAIN batch : k.by \in Meetings /\ Items(k) \subseteq Members
  BY DEF MeetingInv, Shape, Frozen, TypesInv, BatchOK
<1>2. \A c \in Clerks : clerk[c].pc \in {"idle", "confirmed", "reviewed", "planned", "posting", "entering", "closing"}
  BY DEF MeetingInv, Shape, Call, Bound
<1>3. \A c \in Clerks : clerk[c].s \in Meetings \cup {None} /\ clerk[c].m \in Members \cup {None}
  BY DEF TypesInv, ClerkOK
<1>4. ledger \subseteq [member : Members, kind : {"FIRST", "DIFFERENCE"}, by : Meetings, net : {0, 1}, points : {-1, 1}]
  BY DEF NetInv, Entries
<1> QED BY <1>1, <1>2, <1>3, <1>4 DEF TypesInv, FormsOK, MeetingOK, RegisteredOK, BatchOK, TypeOK

\* Net of what differences take back, a learner has one credit of the cycle or none, whatever versions, groups and
\* corrections succeed one another and whichever settlements run at the same time (proposals, _post_batch).
THEOREM OneCreditOrNone == Spec => []MeetingsSafe
<1>1. Spec => [](MeetingInv /\ NetInv /\ TypesInv)
  BY MeetingInit, MeetingStep, NetStart, NetStep, TypesStart, TypesStep, PTL DEF Spec
<1>2. MeetingInv /\ NetInv /\ TypesInv => MeetingsSafe
  BY MeetingsAreTyped
<1> QED BY <1>1, <1>2, PTL

=============================================================================
