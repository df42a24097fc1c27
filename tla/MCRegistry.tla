------------------------------- MODULE MCRegistry -------------------------------
(* Small instances of the registry's components: WeChat bindings, staff    *)
(* accounts, renewals, enrollment, learning cycles, attendance, evidence   *)
(* of meetings, service invitations and the rhythm of a month.  They share *)
(* no state, so that a behaviour plays one scene of one of them, which is  *)
(* chosen at the start, and the others stand still.                        *)
EXTENDS WechatBindings, StaffAccounts, MemberRenewals, Enrollment, LearningCycles, Attendance,
        MeetingEvidence, ServiceInvitations, OperationRhythm, TLC

CONSTANTS x1, x2, k1, k2, p1, p2, u1, g1, a1, a2, mobile, shuku, v1

VARIABLE scene

Scene == {"bindings", "staff", "renewals", "merger", "links", "applications", "rounds", "periods", "rulings", "deletions",
          "evidence", "invitations", "rhythm", "calendar"}

\* What reviewers send: both fields to approve, an approval as it is, a field set back.
Form(approve, target, center) == [what |-> "review", approve |-> approve, target |-> target, center |-> center]
SomeForms == {Form(TRUE, "SET", "SET"), Form(TRUE, "KEEP", "KEEP"), Form(FALSE, "CLEAR", "KEEP"), Form(FALSE, "KEEP", "CLEAR")}

Two == {x1, x2}
TwoCalls == {k1, k2}

\* Calls are alike, and so are logins, members, links and applications: no scene names one of them.
Symmetry == Permutations(TwoCalls) \cup Permutations(Two)

\* The instance that stands still has one of its initial states.
Waiting ==
    /\ scene \notin {"renewals", "merger"} => \A m \in Members : member[m].due = 0
    /\ scene # "applications" => registered = {}
    /\ scene \notin {"rounds", "periods"} => round[1] = None

SceneInit ==
    /\ scene \in Scene
    /\ BindingsInit /\ StaffInit /\ RenewalInit /\ EnrollInit /\ LearningInit /\ AttendanceInit
    /\ EvidenceInit /\ CareInit /\ RhythmInit
    /\ Waiting

\* Verifications write over a changed row of one login only: of two such logins little is claimed.
OneRowLost == Cardinality(overwritten') <= 1

\* One member's renewals are decided, maintained and swept; two records are merged.
Renewals ==
    /\ \A c \in RenewalCalls : renewalCall'[c].op # "merge"
    /\ Cardinality({m \in Members : member'[m] # [status |-> "ACTIVE", due |-> 0, merged |-> FALSE]
                         \/ \E c \in RenewalCalls : renewalCall'[c].member = m
                         \/ \E i \in DOMAIN cycle' : cycle'[i] # None /\ cycle'[i].member = m}) <= 1
Merger == month' = month /\ \A c \in RenewalCalls : renewalCall'[c].op \in {"none", "create", "apply", "decide", "deciding", "merge"}

\* Two links of two targets; two applications that come in by one link, of which one is worked on at a time: a second
\* one comes in while the first is, or when it is rejected or converted.
Links == application' = application
AsSubmitted(A) == A.status = "SUBMITTED" /\ ~A.paid /\ ~A.center /\ \E i \in LinkIds : link[i] # None /\ A.target = link[i].target
OneLink ==
    /\ \A c \in EnrollCalls : enrollCall'[c].op \notin {"rotate", "disable"}
    /\ Cardinality({i \in LinkIds : link'[i] # None}) <= 1
    /\ Cardinality({a \in Applications : application'[a] # None /\ ~AsSubmitted(application'[a])}) <= 1

\* Rounds follow one another and credits are posted; the cycles of one round are corrected and closed.
SeveralRounds == \A c \in PlanCalls : planCall'[c].op # "correct" /\ (planCall'[c].op \in {"bind", "restart"} => planCall'[c].index > 1)
OneRound == \A c \in PlanCalls : planCall'[c].op # "credit" /\ (planCall'[c].op = "restart" => round[1] = None)

\* Of an activity that nobody deletes, the staff make two kinds of rulings, and the scene ends with the first that is
\* written from an outdated picture; of one that is deleted, only makeups.
Deletes(c) == signinCall'[c].op \in {"deleting", "asked", "cancelled"}
Ruled == outdated = {} /\ Cardinality(ruling') <= 2 /\ \A c \in SigninCalls : ~Deletes(c)
Deleted == ruling' \subseteq {"MANUAL_CHECKIN"} /\ \A c \in SigninCalls : signinCall'[c].op = "makeup" \/ signinCall'[c].ruling = None

\* The first invitation may lapse unanswered, one call at a time invites or adjusts, and
\* calls overlap with calls of their kind: about invitations, or about records.
ByTurns ==
    /\ \A i \in Invitations : invitation'[i] # None /\ invitation'[i].lapsed =>
         i = 1 /\ invitation'[i].status = "PENDING"
    /\ Cardinality({c \in CareCalls : careCall'[c].op \in {"search", "invite", "adjust", "reply"}}) <= 1
    /\ {careCall'[c].op : c \in CareCalls} \subseteq {"none", "record", "close"}
       \/ {careCall'[c].op : c \in CareCalls} \cap {"record", "close"} = {}

\* People maintain one of the items.  Calls overlap, and a care may name the item or not; or, in the other scene, the
\* calls follow one another.
OneByHand ==
    Cardinality({i \in Items : byHand'[i] # None \/ \E c \in RhythmCalls : rhythmCall'[c].op = "edit" /\ rhythmCall'[c].id = i}) <= 1
Rhythm ==
    /\ offset' = offset /\ OneByHand
    /\ \A c \in RhythmCalls : rhythmCall'[c].op = "calendar" => rhythmCall'[c].day = 1
OneByOne == OneByHand /\ Cardinality({c \in RhythmCalls : rhythmCall'[c].op # "none"}) <= 1

SceneNext ==
    /\ UNCHANGED scene
    /\ \/ scene = "bindings" /\ BindingsNext /\ OneRowLost
       \/ UNCHANGED bindingVars /\ scene # "bindings"
    /\ \/ scene = "staff" /\ StaffNext
       \/ UNCHANGED staffVars /\ scene # "staff"
    /\ \/ scene = "renewals" /\ RenewalNext /\ Renewals
       \/ scene = "merger" /\ RenewalNext /\ Merger
       \/ UNCHANGED renewalVars /\ scene \notin {"renewals", "merger"}
    /\ \/ scene = "links" /\ EnrollNext /\ Links
       \/ scene = "applications" /\ EnrollNext /\ OneLink
       \/ UNCHANGED enrollVars /\ scene \notin {"links", "applications"}
    /\ \/ scene = "rounds" /\ LearningNext /\ SeveralRounds
       \/ scene = "periods" /\ LearningNext /\ OneRound
       \/ UNCHANGED learningVars /\ scene \notin {"rounds", "periods"}
    /\ \/ scene = "rulings" /\ AttendanceNext /\ Ruled
       \/ scene = "deletions" /\ AttendanceNext /\ Deleted
       \/ UNCHANGED attendanceVars /\ scene \notin {"rulings", "deletions"}
    /\ \/ scene = "evidence" /\ EvidenceNext
       \/ UNCHANGED evidenceVars /\ scene # "evidence"
    /\ \/ scene = "invitations" /\ CareNext /\ ByTurns
       \/ UNCHANGED careVars /\ scene # "invitations"
    /\ \/ scene = "rhythm" /\ RhythmNext /\ Rhythm
       \/ scene = "calendar" /\ RhythmNext /\ OneByOne
       \/ UNCHANGED rhythmVars /\ scene \notin {"rhythm", "calendar"}

registryVars == <<bindingVars, staffVars, renewalVars, enrollVars, learningVars, attendanceVars,
                  evidenceVars, careVars, rhythmVars>>

Scenes == SceneInit /\ [][SceneNext]_<<scene, registryVars>>
=============================================================================
