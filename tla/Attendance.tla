------------------------------ MODULE Attendance ------------------------------
(***************************************************************************)
(* Attendance of an activity: the check-ins that are pulled from the       *)
(* sign-in system, the staff's makeups and adjudications, the scores, the  *)
(* final confirmation that posts credits, and the deletion of an unused    *)
(* activity.                                                               *)
(*                                                                         *)
(* Source: app/services/attendance_sync.py, attendance_scoring.py,         *)
(* attendance_confirmation.py, attendance_deletion.py and                  *)
(* api/attendance.py.                                                      *)
(*                                                                         *)
(* One activity with one session and one participant, who is matched.      *)
(* Writers wait for the activity's row, but some have opened their view    *)
(* before: what they decide by is as old as that.  Arrival times, early    *)
(* leave, relinking and organisations are left out.                        *)
(***************************************************************************)
EXTENDS Integers, FiniteSets, SqlNull

CONSTANTS
    SigninCalls,   \* concurrent calls
    Revisions      \* bound on revision at the source

ASSUME AttendanceAssumption == Revisions \in Nat \ {0} /\ None \notin SigninCalls

VARIABLES
    source,      \* the sign-in system: the check-in, its revision, and whether the activity is cancelled there
    activity,    \* attendance_event_groups.status
    record,      \* attendance_records, None before the insert
    ruling,      \* attendance_adjudications that are not superseded
    score,       \* attendance_score_records: the status that was scored, None before the insert
    confirmed,   \* audit_logs: the facts of the final confirmation, None before it
    kept,        \* for the record: the status in which rulings have left a makeup, None before it
    sealedWith,  \* for the record: the rulings that the confirmation has found
    outdated,    \* for the record: what has been written from a picture that others had changed since
    tested,      \* for the record: was the activity last deleted as a test, whatever it had?
    signinCall   \* local state of each call

attendanceVars == <<source, activity, record, ruling, score, confirmed, kept, sealedWith, outdated, tested, signinCall>>
history == <<kept, sealedWith, outdated, tested>>

Rulings == {"MANUAL_CHECKIN", "INVALIDATE_CHECKIN", "LEAVE", "CANCEL_LEAVE"}
NoSigninCall == [op |-> "none", item |-> None, seen |-> None, sealed |-> None, ruling |-> None, facts |-> None, test |-> FALSE]

AttendanceInit ==
    /\ source = [status |-> "ABSENT", rev |-> 1, cancelled |-> FALSE]
    /\ activity = "ACTIVE" /\ record = None /\ ruling = {} /\ score = None /\ confirmed = None
    /\ kept = None /\ sealedWith = {} /\ outdated = {} /\ tested = FALSE
    /\ signinCall = [c \in SigninCalls |-> NoSigninCall]

\* A new call.
Call(c, op) ==
    /\ signinCall[c].op = "none"
    /\ signinCall' = [signinCall EXCEPT ![c] = [NoSigninCall EXCEPT !.op = op, !.seen = record]]
Proceed(c, op) == signinCall' = [signinCall EXCEPT ![c].op = op]
Done(c) == signinCall' = [signinCall EXCEPT ![c] = NoSigninCall]

(***************************************************************************)
(* The source.                                                             *)
(***************************************************************************)
\* The participant checks in.
Scan ==
    /\ ~source.cancelled /\ source.rev < Revisions
    /\ source' = [source EXCEPT !.status = "PRESENT", !.rev = @ + 1]
    /\ UNCHANGED <<activity, record, ruling, score, confirmed, history, signinCall>>

(***************************************************************************)
(* sync_from_signin.                                                       *)
(***************************************************************************)
\* The session and its records are fetched; _upsert_event_group refuses a deleted activity ...
Pull(c) ==
    /\ signinCall[c].op = "none"
    /\ activity # "DELETED"
    /\ signinCall' = [signinCall EXCEPT ![c] = [NoSigninCall EXCEPT !.op = "pulled", !.item = source]]
    /\ UNCHANGED <<source, activity, record, ruling, score, confirmed, history>>
\* ... and writes the status of the source.
WriteGroup(c) ==
    /\ signinCall[c].op = "pulled"
    /\ activity' = IF signinCall[c].item.cancelled THEN "CANCELLED" ELSE "ACTIVE"
    /\ Proceed(c, "grouped")
    /\ UNCHANGED <<source, record, ruling, score, confirmed, history>>

\* _upsert_record looks up the session, waits for the activity's row ...
ViewRecord(c) ==
    /\ signinCall[c].op = "grouped"
    /\ signinCall' = [signinCall EXCEPT ![c].op = "viewing", ![c].seen = record]
    /\ UNCHANGED <<source, activity, record, ruling, score, confirmed, history>>

\* The record as the source has it; at says whether it has a checked_at.
Pulled(item) == [status |-> item.status, rev |-> item.rev, at |-> item.status = "PRESENT", makeup |-> FALSE]
\* Faulty variant: a makeup is written over.
NothingKept(item, seen) == Pulled(item)
\* ... and keeps a makeup: "Source refreshes must not erase a staff makeup".
Refreshed(item, seen) ==
    IF seen # None /\ seen.makeup THEN [seen EXCEPT !.rev = item.rev]
    ELSE Pulled(item)

\* An item of an older revision is skipped; the unique key refuses a second insert.
WriteRecord(c) ==
    LET C == signinCall[c]
        skipped == C.seen # None /\ C.item.rev < C.seen.rev
    IN  /\ C.op = "viewing" /\ (C.seen = None => record = None)
        /\ record' = IF skipped THEN record ELSE Refreshed(C.item, C.seen)
        /\ signinCall' = [signinCall EXCEPT ![c].op = "scoring", ![c].seen = IF skipped THEN C.seen ELSE Refreshed(C.item, C.seen)]
        /\ outdated' = outdated \cup {w \in {"record", "deleted"} : IF w = "record" THEN ~skipped /\ record # C.seen
                                                               ELSE activity = "DELETED"}
        /\ UNCHANGED <<source, activity, ruling, score, confirmed, kept, sealedWith, tested>>

\* upsert_score_record, in a transaction of its own; recalculate_event_group reads the records, then writes the same way.
WriteScore(c) ==
    /\ signinCall[c].op = "scoring"
    /\ score' = signinCall[c].seen.status
    /\ Done(c)
    /\ UNCHANGED <<source, activity, record, ruling, confirmed, history>>
Recalculate(c) ==
    /\ record # None /\ activity # "DELETED" /\ Call(c, "scoring")
    /\ UNCHANGED <<source, activity, record, ruling, score, confirmed, history>>

(***************************************************************************)
(* The staff.                                                              *)
(***************************************************************************)
\* create_adjudication and makeup_attendance look up the record before they lock the activity ...
StartRuling(c, op, r) ==
    /\ op \in {"adjudicate", "makeup"} /\ record # None
    /\ op = "makeup" => r = "MANUAL_CHECKIN" /\ record.status = "ABSENT"
    /\ signinCall[c].op = "none"
    /\ signinCall' = [signinCall EXCEPT ![c] =
          [NoSigninCall EXCEPT !.op = op, !.seen = record, !.sealed = confirmed # None, !.ruling = r]]
    /\ UNCHANGED <<source, activity, record, ruling, score, confirmed, history>>

\* Faulty variant: the confirmation is not looked for.
NeverSealed(c) == FALSE
Sealed(c) == signinCall[c].sealed

\* Faulty variant: the ruling's name is written as the status.
RuledVerbatim(r, at) == r
\* What becomes of the record.
RuledStatus(r, at) ==
    CASE r = "MANUAL_CHECKIN" -> "MANUAL_PRESENT"
      [] r = "INVALIDATE_CHECKIN" -> "INVALIDATED"
      [] r = "LEAVE" -> "LEAVE"
      [] r = "CANCEL_LEAVE" -> IF at THEN "PRESENT" ELSE "ABSENT"
\* ... and write the adjudication, the record and its score together.
Rule(c) ==
    LET C == signinCall[c]
        status == RuledStatus(C.ruling, C.seen.at)
    IN  /\ C.op \in {"adjudicate", "makeup"} /\ ~Sealed(c)
        /\ C.op = "makeup" => activity = "ACTIVE"
        /\ C.ruling = "CANCEL_LEAVE" => "LEAVE" \in ruling
        /\ ruling' = (ruling \cup {C.ruling}) \ (IF C.ruling = "CANCEL_LEAVE" THEN {"LEAVE"} ELSE {})
        /\ record' = [record EXCEPT !.status = status, !.at = @ \/ C.op = "makeup", !.makeup = @ \/ C.op = "makeup"]
        /\ score' = status
        /\ kept' = IF record'.makeup THEN status ELSE None
        /\ outdated' = outdated \cup (IF ~C.sealed /\ confirmed # None THEN {"ruling"} ELSE {})
        /\ Done(c)
        /\ UNCHANGED <<source, activity, confirmed, sealedWith, tested>>

\* The page shows the facts; confirm_attendance locks the activity, compares, computes the scores and posts.
ShowFacts(c) ==
    /\ record # None /\ signinCall[c].op = "none"
    /\ signinCall' = [signinCall EXCEPT ![c] = [NoSigninCall EXCEPT !.op = "confirm", !.facts = <<record, score>>]]
    /\ UNCHANGED <<source, activity, record, ruling, score, confirmed, history>>
ConfirmAttendance(c) ==
    /\ signinCall[c].op = "confirm" /\ activity = "ACTIVE"
    /\ <<record, score>> = signinCall[c].facts /\ confirmed = None
    /\ score' = record.status
    /\ confirmed' = record.status /\ sealedWith' = ruling
    /\ Done(c)
    /\ UNCHANGED <<source, activity, record, ruling, kept, outdated, tested>>

(***************************************************************************)
(* delete_event_group.                                                     *)
(***************************************************************************)
\* Faulty variant: the source alone is asked.
SeemsUnused(test) == TRUE
\* A confirmation posts a credit for who has come.
Credited == confirmed \in {"PRESENT", "MANUAL_PRESENT"}
\* Rulings and credits are never waived; what there is of a test may be.
Unused(test) ==
    /\ ruling = {} /\ ~Credited
    /\ test \/ (score = None /\ (record # None => record.status \notin {"PRESENT", "MANUAL_PRESENT"} /\ ~record.at))
\* Nothing is known of a check-in here ...
Traces == <<record, ruling, score, confirmed>>
StartDeletion(c, test) ==
    /\ activity # "DELETED" /\ Unused(test) /\ signinCall[c].op = "none"
    /\ signinCall' = [signinCall EXCEPT ![c] = [NoSigninCall EXCEPT !.op = "deleting", !.facts = Traces, !.test = test]]
    /\ UNCHANGED <<source, activity, record, ruling, score, confirmed, history>>
\* ... nor at the source, ...
AskSource(c) ==
    /\ signinCall[c].op = "deleting" /\ (source.status = "ABSENT" \/ signinCall[c].test)
    /\ Proceed(c, "asked")
    /\ UNCHANGED <<source, activity, record, ruling, score, confirmed, history>>
\* ... where the activity is cancelled before it is marked as deleted.
CancelSource(c) ==
    /\ signinCall[c].op = "asked"
    /\ source' = [source EXCEPT !.cancelled = TRUE]
    /\ Proceed(c, "cancelled")
    /\ UNCHANGED <<activity, record, ruling, score, confirmed, history>>
MarkDeleted(c) ==
    /\ signinCall[c].op = "cancelled"
    /\ activity' = "DELETED" /\ tested' = signinCall[c].test
    /\ outdated' = IF Traces = signinCall[c].facts THEN outdated ELSE outdated \cup {"deletion"}
    /\ Done(c)
    /\ UNCHANGED <<source, record, ruling, score, confirmed, kept, sealedWith>>

\* A check fails, the source does not answer or the process dies: what was committed stays.
FailSignin(c) ==
    /\ signinCall[c].op # "none" /\ Done(c)
    /\ UNCHANGED <<source, activity, record, ruling, score, confirmed, history>>

AttendanceNext ==
    \/ Scan
    \/ \E c \in SigninCalls :
         \/ Pull(c) \/ WriteGroup(c) \/ ViewRecord(c) \/ WriteRecord(c) \/ WriteScore(c) \/ Recalculate(c)
         \/ \E op \in {"adjudicate", "makeup"}, r \in Rulings : StartRuling(c, op, r)
         \/ Rule(c) \/ ShowFacts(c) \/ ConfirmAttendance(c)
         \/ \E test \in BOOLEAN : StartDeletion(c, test)
         \/ AskSource(c) \/ CancelSource(c) \/ MarkDeleted(c) \/ FailSignin(c)

AttendanceSpec == AttendanceInit /\ [][AttendanceNext]_attendanceVars

(***************************************************************************)
(* Properties.                                                             *)
(***************************************************************************)
Statuses == {"ABSENT", "PRESENT", "MANUAL_PRESENT", "INVALIDATED", "LEAVE"}
\* Rows are of the tables' types, and each call is at a step the code has.
AttendanceTypeOK ==
    /\ source \in [status : {"ABSENT", "PRESENT"}, rev : 1 .. Revisions, cancelled : BOOLEAN]
    /\ activity \in {"ACTIVE", "CANCELLED", "DELETED"}
    /\ record # None => record \in [status : Statuses, rev : 1 .. Revisions, at : BOOLEAN, makeup : BOOLEAN]
    /\ score # None => score \in Statuses
    /\ confirmed # None => confirmed \in Statuses
    /\ ruling \subseteq Rulings
    /\ \A c \in SigninCalls : signinCall[c].op \in
          {"none", "pulled", "grouped", "viewing", "scoring", "adjudicate", "makeup", "confirm", "deleting", "asked", "cancelled"}

\* 后续同步保留补签事实 (docs/tasks/2026-10-28-attendance-makeup-confirmation.md): a makeup stays as it is, or as a later
\* ruling has left it, whatever is pulled from the source, until a pull writes over a record that has changed since it
\* opened its view.
MakeupStands ==
    kept # None /\ "record" \notin outdated => record.makeup /\ record.status = kept

\* 确认后锁定人工裁定: once the attendance is finally confirmed, rulings stay as the confirmation has found them, unless
\* one had opened its view before.
RulingsEndWithConfirmation == confirmed # None /\ "ruling" \notin outdated => ruling = sealedWith

\* What was deleted has earned nobody a credit, and unless it was deleted as a test nothing says that somebody came
\* ("Remove unused activities from normal views"): as long as nothing changed while the source was asked, and no pull
\* that began before writes to it any more.
DeletedWasUnused ==
    activity = "DELETED" /\ "deletion" \notin outdated =>
        /\ ~Credited
        /\ ~tested /\ "deleted" \notin outdated /\ record # None => record.status # "PRESENT" /\ ~record.at

\* Together: makeups survive pulls, rulings end with the confirmation, and only unused activities are deleted.
AttendanceSafe == AttendanceTypeOK /\ MakeupStands /\ RulingsEndWithConfirmation /\ DeletedWasUnused
=============================================================================
