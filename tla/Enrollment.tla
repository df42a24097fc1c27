------------------------------ MODULE Enrollment ------------------------------
(***************************************************************************)
(* Applications for membership: the public links they come in by, review,  *)
(* payment and rejection, and the conversion into a member's record.       *)
(*                                                                         *)
(* Source: app/services/enrollment.py, members.py (create_member),         *)
(* wechat_operations_v2.py (application_action).                           *)
(*                                                                         *)
(* The admin web reads an application before the transaction that writes   *)
(* it; the mini program's calls lock it first.  Of the form only the phone *)
(* is kept; the rate limit and the organisations' validity are left out.   *)
(***************************************************************************)
EXTENDS Integers, FiniteSets, SqlNull

CONSTANTS
    LinkIds,        \* bound on member_enrollment_links
    Applications,   \* bound on member_enrollment_applications
    Phones,
    Targets,        \* shukus that a link is bound to; None is the generic one
    Reviews,        \* what reviewers send: a part of ReviewForms
    EnrollCalls

\* The rows of the two tables.
LinkRow == [target : Targets \cup {None}, status : {"ACTIVE", "DISABLED"}, ver : 1 .. 2]
ApplicationRow == [phone : Phones, guard : BOOLEAN, status : {"SUBMITTED", "APPROVED", "REJECTED", "ENROLLED"},
                   target : Targets \cup {None, "chosen"}, paid : BOOLEAN, center : BOOLEAN, converted : BOOLEAN]

\* A review saves or approves; a field that it does not send stays, one that it sends is set or becomes null.
ReviewForms == [what : {"review"}, approve : BOOLEAN, target : {"KEEP", "SET", "CLEAR"}, center : {"KEEP", "SET", "CLEAR"}]

ASSUME EnrollmentAssumption ==
    None \notin LinkIds \cup Applications \cup Phones \cup LinkRow \cup ApplicationRow \cup {"chosen"}
ASSUME ReviewAssumption == Reviews \subseteq ReviewForms

VARIABLES
    link,         \* member_enrollment_links, None before the insert
    application,  \* member_enrollment_applications, None before the insert
    registered,   \* phones of members' records
    overtaken,    \* history: converted applications to which a review or rejection was written that had read them before
    enrollCall    \* local state of each call

enrollVars == <<link, application, registered, overtaken, enrollCall>>

NoEnrollCall == [op |-> "none", of |-> None, with |-> None]

EnrollInit ==
    /\ link = [i \in LinkIds |-> None]
    /\ application = [a \in Applications |-> None]
    /\ registered \in SUBSET Phones /\ overtaken = {}
    /\ enrollCall = [c \in EnrollCalls |-> NoEnrollCall]

Take(c, op, of, with) ==
    /\ enrollCall[c].op = "none"
    /\ enrollCall' = [enrollCall EXCEPT ![c] = [op |-> op, of |-> of, with |-> with]]
Quit(c) == enrollCall' = [enrollCall EXCEPT ![c] = NoEnrollCall]

(***************************************************************************)
(* Links.                                                                  *)
(***************************************************************************)
ActiveLink(i) == link[i] # None /\ link[i].status = "ACTIVE"

\* Faulty variant: links are created without a lock.
NoRootLock == FALSE
\* create_enrollment_link locks the root organisation's row ...
RootLocked == \E c \in EnrollCalls : enrollCall[c].op = "linking"
\* ... and looks for an active link of the target, which would be reused; the insert follows.
LookForLink(c, t) ==
    /\ ~RootLocked
    /\ \A i \in LinkIds : ActiveLink(i) => link[i].target # t
    /\ Take(c, "linking", t, None)
    /\ UNCHANGED <<link, application, registered, overtaken>>
InsertLink(c, i) ==
    /\ enrollCall[c].op = "linking" /\ link[i] = None
    /\ link' = [link EXCEPT ![i] = [target |-> enrollCall[c].of, status |-> "ACTIVE", ver |-> 1]]
    /\ Quit(c)
    /\ UNCHANGED <<application, registered, overtaken>>

\* rotate_enrollment_link and disable_enrollment_link look at the status, then write by id.
StartLinkChange(c, i, op) ==
    /\ op \in {"rotate", "disable"} /\ ActiveLink(i)
    /\ Take(c, op, i, None)
    /\ UNCHANGED <<link, application, registered, overtaken>>
RotateLink(c) ==
    LET i == enrollCall[c].of IN
    /\ enrollCall[c].op = "rotate" /\ link[i].ver < 2
    /\ link' = [link EXCEPT ![i].ver = @ + 1]
    /\ Quit(c)
    /\ UNCHANGED <<application, registered, overtaken>>
DisableLink(c) ==
    /\ enrollCall[c].op = "disable"
    /\ link' = [link EXCEPT ![enrollCall[c].of].status = "DISABLED"]
    /\ Quit(c)
    /\ UNCHANGED <<application, registered, overtaken>>

(***************************************************************************)
(* Submission.                                                             *)
(***************************************************************************)
Guards(p) == {a \in Applications : application[a] # None /\ application[a].phone = p /\ application[a].guard}

\* submit_public_enrollment: the token resolves to an active link and its present version, the phone has no
\* application at work; the insert is refused by the unique guard if another has come first.
StartSubmit(c, i, v, p) ==
    /\ ActiveLink(i) /\ link[i].ver = v /\ Guards(p) = {}
    /\ Take(c, "submit", i, p)
    /\ UNCHANGED <<link, application, registered, overtaken>>
Submit(c, a) ==
    LET C == enrollCall[c] IN
    /\ C.op = "submit" /\ application[a] = None /\ Guards(C.with) = {}
    /\ application' = [application EXCEPT ![a] = [phone |-> C.with, guard |-> TRUE, status |-> "SUBMITTED",
                           target |-> link[C.of].target, paid |-> FALSE, center |-> FALSE, converted |-> FALSE]]
    /\ Quit(c)
    /\ UNCHANGED <<link, registered, overtaken>>

(***************************************************************************)
(* Review, payment, rejection.                                             *)
(***************************************************************************)
\* Faulty variant: a review does not ask for the status.
AdmitsAnyReview(op, A) == op.what # "reject" \/ A.status \notin {"ENROLLED", "REJECTED"}
\* What review_enrollment_application, confirm_enrollment_payment and reject_enrollment_application ask of
\* the application as they read it: an approval, and a centre, need a target, the one sent or the one read.
HasTarget(op, A) == op.target = "SET" \/ (op.target = "KEEP" /\ A.target # None)
Admits(op, A) ==
    \/ op.what \in {"review", "pay"} /\ A.status \in {"SUBMITTED", "APPROVED"}
       /\ (op.approve \/ op.center = "SET" => HasTarget(op, A))
    \/ op.what = "reject" /\ A.status \notin {"ENROLLED", "REJECTED"}

Reviewed(op, A) ==
    [A EXCEPT !.status = IF op.approve THEN "APPROVED" ELSE @,
              !.target = CASE op.target = "KEEP" -> @ [] op.target = "SET" -> "chosen" [] op.target = "CLEAR" -> None,
              !.center = CASE op.center = "KEEP" -> @ [] op.center = "SET" -> TRUE [] op.center = "CLEAR" -> FALSE]

\* Faulty variant: a rejected application keeps the phone's guard.
StillGuarding(op, A) == IF op.what = "reject" THEN [A EXCEPT !.status = "REJECTED"] ELSE A
\* What they write, by id: the fields that were sent, whatever the row says by now.
Handled(op, A) ==
    CASE op.what = "review" -> Reviewed(op, A)
      [] op.what = "pay" -> [A EXCEPT !.paid = TRUE]
      [] op.what = "reject" -> [A EXCEPT !.status = "REJECTED", !.guard = FALSE]

\* Payment and rejection send none of the reviewed fields.
Sends(what) == [what |-> what, approve |-> FALSE, target |-> "KEEP", center |-> "KEEP"]
Operations == Reviews \cup {Sends("pay"), Sends("reject")}
StartHandling(c, a, op) ==
    /\ application[a] # None /\ Admits(op, application[a])
    /\ Take(c, "handle", a, op)
    /\ UNCHANGED <<link, application, registered, overtaken>>
Handle(c) ==
    LET C == enrollCall[c] IN
    /\ C.op = "handle"
    /\ application' = [application EXCEPT ![C.of] = Handled(C.with, @)]
    /\ overtaken' = IF application[C.of].converted /\ C.with.what # "pay" THEN overtaken \cup {C.of} ELSE overtaken
    /\ Quit(c)
    /\ UNCHANGED <<link, registered>>

\* application_action: the row is locked before it is read.
HandleLocked(a, op) ==
    /\ application[a] # None /\ Admits(op, application[a])
    /\ application' = [application EXCEPT ![a] = Handled(op, @)]
    /\ UNCHANGED <<link, registered, overtaken, enrollCall>>

(***************************************************************************)
(* Conversion.                                                             *)
(***************************************************************************)
\* _missing_enrollment_gates: a phone that has a record needs the record to be named.
Gates(A, existing) ==
    /\ A.status = "APPROVED" /\ A.paid /\ A.target # None /\ A.center
    /\ existing <=> A.phone \in registered

\* enroll_application, with the application's row locked; the final update leaves one that was converted.
Enroll(a, existing) ==
    LET A == application[a] IN
    /\ A # None /\ Gates(A, existing)
    /\ registered' = registered \cup {A.phone}
    /\ application' = IF A.converted THEN application
                      ELSE [application EXCEPT ![a].status = "ENROLLED", ![a].guard = FALSE, ![a].converted = TRUE]
    /\ UNCHANGED <<link, overtaken, enrollCall>>

\* create_member by the staff; the unique key of the phone refuses a second record.
Register(p) ==
    /\ p \notin registered /\ registered' = registered \cup {p}
    /\ UNCHANGED <<link, application, overtaken, enrollCall>>

\* A later check, or the database, refuses the call.
FailEnrollCall(c) ==
    /\ enrollCall[c].op # "none" /\ Quit(c)
    /\ UNCHANGED <<link, application, registered, overtaken>>

EnrollNext ==
    \/ \E c \in EnrollCalls :
         \/ \E t \in Targets \cup {None} : LookForLink(c, t)
         \/ \E i \in LinkIds :
              \/ InsertLink(c, i)
              \/ \E op \in {"rotate", "disable"} : StartLinkChange(c, i, op)
              \/ \E v \in 1 .. 2, p \in Phones : StartSubmit(c, i, v, p)
         \/ \E a \in Applications : Submit(c, a) \/ \E op \in Operations : StartHandling(c, a, op)
         \/ RotateLink(c) \/ DisableLink(c) \/ Handle(c) \/ FailEnrollCall(c)
    \/ \E a \in Applications :
         \/ \E op \in Operations : HandleLocked(a, op)
         \/ \E existing \in BOOLEAN : Enroll(a, existing)
    \/ \E p \in Phones : Register(p)

EnrollSpec == EnrollInit /\ [][EnrollNext]_enrollVars

(***************************************************************************)
(* Properties.                                                             *)
(***************************************************************************)
EnrollTypeOK ==
    /\ link \in [LinkIds -> {None} \cup LinkRow] /\ application \in [Applications -> {None} \cup ApplicationRow]
    /\ registered \subseteq Phones /\ overtaken \subseteq Applications
    /\ \A c \in EnrollCalls : enrollCall[c].op \in {"none", "linking", "rotate", "disable", "submit", "handle"}

\* A shuku has one public link at a time, and so has the generic entry, also when two administrators ask for
\* one at the same time ("Serialize entry creation on the existing root row").
OneLinkPerTarget ==
    \A i, j \in LinkIds : ActiveLink(i) /\ ActiveLink(j) /\ link[i].target = link[j].target => i = j

\* Whoever was rejected or enrolled does not block the phone: only an application at work guards it, however
\* old the state is that a review or a payment has read.
GuardsAreAtWork ==
    \A a \in Applications : application[a] # None /\ application[a].guard => application[a].status \in {"SUBMITTED", "APPROVED"}

\* Who was converted had paid and has a member's record, whatever is written to the application later.
ConvertedHavePaid ==
    \A a \in Applications : application[a] # None /\ application[a].converted =>
        application[a].paid /\ application[a].phone \in registered

\* An application that became a member stays as it was converted, with its target and its centre, and is not
\* rejected ("已正式入塾的申请不能驳回"); unless a review or rejection of the admin web had read it before the conversion.
ConvertedStay ==
    \A a \in Applications \ overtaken : application[a] # None /\ application[a].converted =>
        application[a].status = "ENROLLED" /\ application[a].target # None /\ application[a].center

\* Together: applications as the table admits them, one link of a target, guards that are at work, and conversions
\* that were paid and stay.
EnrollmentSafe == EnrollTypeOK /\ OneLinkPerTarget /\ GuardsAreAtWork /\ ConvertedHavePaid /\ ConvertedStay
=============================================================================
