----------------------------- MODULE MeetingEvidence -----------------------------
(* services/study_meeting_evidence.py and study_evidence_storage.py: the     *)
(* photographs of study meetings.  The rows are MySQL's, the objects lie in  *)
(* a store of their own, so that an upload first reserves its row, then puts *)
(* the object, and only then makes the row the one of its meeting; a failed  *)
(* one takes its object back, and a nightly cleanup removes what expired.    *)
EXTENDS Integers, FiniteSets, SqlNull

CONSTANTS
    Meetings,    \* study_meeting_sessions
    Photos,      \* rows of study_meeting_evidence and their objects
    Uploaders,   \* requests of upload_evidence at a time
    Mishaps      \* "CRASH", "ERROR" (of the database), "UNSURE" (a commit whose answer is lost)

VARIABLES
    submitted,   \* meetings that are no longer DRAFT, and, for the record, with which photo
    photo,       \* rows of study_meeting_evidence
    objects,     \* the private store
    late,        \* objects of requests whose answer has timed out
    upload       \* local state of each request

evidenceVars == <<submitted, photo, objects, late, upload>>

\* age: retained, expired, expired for longer than the grace period of the cleanup.
Retained == 0
Expired == 1
Removable == 2
PhotoRow == [meeting : Meetings, active : BOOLEAN, deleted : BOOLEAN, wiped : BOOLEAN, age : {Retained, Expired, Removable}]

ASSUME EvidenceAssumption == None \notin Meetings \cup Photos \cup PhotoRow

NoUpload == [pc |-> "idle", meeting |-> None, photo |-> None]

EvidenceInit ==
    /\ submitted = [m \in Meetings |-> None] /\ objects = {} /\ late = {}
    /\ photo = [p \in Photos |-> None]
    /\ upload = [u \in Uploaders |-> NoUpload]

Draft(m) == submitted[m] = None
Kept(p) == photo[p] # None /\ ~photo[p].wiped
\* evidence_metadata: the row that a page shows and that a submission demands.
EvidenceShown(p, m) ==
    /\ Kept(p) /\ photo[p].meeting = m
    /\ photo[p].active /\ ~photo[p].deleted /\ photo[p].age = Retained

Uploading(u, pc) == upload[u].pc = pc
Onward(u, pc) == upload' = [upload EXCEPT ![u] = IF pc = "idle" THEN NoUpload ELSE [@ EXCEPT !.pc = pc]]

\* The status is read before the picture is decoded, and again under the meeting's lock.
BeginUpload(u, m) ==
    /\ Uploading(u, "idle") /\ Draft(m)
    /\ upload' = [upload EXCEPT ![u] = [pc |-> "reserve", meeting |-> m, photo |-> None]]
    /\ UNCHANGED <<submitted, photo, objects, late>>

ReserveRow(u) ==
    /\ Uploading(u, "reserve")
    /\ IF Draft(upload[u].meeting)
       THEN \E p \in Photos :
              /\ photo[p] = None
              /\ photo' = [photo EXCEPT ![p] = [meeting |-> upload[u].meeting, active |-> FALSE, deleted |-> FALSE,
                                                wiped |-> FALSE, age |-> Retained]]
              /\ upload' = [upload EXCEPT ![u].photo = p, ![u].pc = "put"]
       ELSE Onward(u, "idle") /\ photo' = photo
    /\ UNCHANGED <<submitted, objects, late>>

\* EvidenceStorage.put: "a put can time out after the remote service accepted the object".
PutPhoto(u, outcome) ==
    LET p == upload[u].photo IN
    /\ Uploading(u, "put")
    /\ objects' = IF outcome = "stored" THEN objects \cup {p} ELSE objects
    /\ late' = IF outcome = "late" THEN late \cup {p} ELSE late
    /\ Onward(u, IF outcome = "stored" THEN "activate" ELSE "mark")
    /\ UNCHANGED <<submitted, photo>>
Arrives(p) ==
    /\ p \in late
    /\ late' = late \ {p} /\ objects' = objects \cup {p}
    /\ UNCHANGED <<submitted, photo, upload>>

\* Faulty variant: the meeting's status is not looked at again.
IgnoresSubmission(p) == Kept(p) /\ photo[p].age = Retained
MayActivate(p) == Draft(photo[p].meeting) /\ Kept(p) /\ photo[p].age = Retained
Activated(p) ==
    [q \in Photos |->
       IF q = p THEN [photo[q] EXCEPT !.active = TRUE]
       ELSE IF photo[q] # None /\ photo[q].meeting = photo[p].meeting /\ photo[q].active
            THEN [photo[q] EXCEPT !.active = FALSE, !.deleted = TRUE] ELSE photo[q]]
Activate(u, answer) ==
    LET p == upload[u].photo IN
    /\ Uploading(u, "activate")
    /\ \/ answer = "ok" /\ MayActivate(p) /\ photo' = Activated(p) /\ Onward(u, "idle")
       \/ answer = "unsure" /\ "UNSURE" \in Mishaps /\ MayActivate(p) /\ photo' = Activated(p) /\ Onward(u, "mark")
       \/ answer = "failed" /\ (MayActivate(p) => "ERROR" \in Mishaps) /\ photo' = photo /\ Onward(u, "mark")
    /\ UNCHANGED <<submitted, objects, late>>

\* The handler marks the row in a transaction of its own, which may fail, and removes the object, which may fail too.
MarkUploadFailed(u, marked) ==
    LET p == upload[u].photo IN
    /\ Uploading(u, "mark") /\ (marked \/ "ERROR" \in Mishaps)
    /\ photo' = IF marked /\ ~photo[p].active THEN [photo EXCEPT ![p].deleted = TRUE] ELSE photo
    /\ Onward(u, "remove")
    /\ UNCHANGED <<submitted, objects, late>>
TakeBack(u, removed) ==
    /\ Uploading(u, "remove")
    /\ objects' = IF removed THEN objects \ {upload[u].photo} ELSE objects
    /\ Onward(u, "idle")
    /\ UNCHANGED <<submitted, photo, late>>

UploaderDies(u) ==
    /\ "CRASH" \in Mishaps /\ ~Uploading(u, "idle") /\ Onward(u, "idle")
    /\ UNCHANGED <<submitted, photo, objects, late>>

\* _validate_session_before_submit, under the meeting's lock.
SubmitWithPhoto(m) ==
    /\ Draft(m)
    /\ \E p \in Photos : EvidenceShown(p, m) /\ submitted' = [submitted EXCEPT ![m] = p]
    /\ UNCHANGED <<photo, objects, late, upload>>

\* No request lasts as long as a photo is retained and the cleanup waits.
PhotoAges(p) ==
    /\ Kept(p) /\ photo[p].age < Removable
    /\ photo[p].age = Expired => p \notin late /\ \A u \in Uploaders : upload[u].photo # p
    /\ photo' = [photo EXCEPT ![p].age = @ + 1]
    /\ UNCHANGED <<submitted, objects, late, upload>>

\* Faulty variants: the cleanup does not wait for the grace period; it marks before it removes.
NoGrace(p) == Kept(p) /\ photo[p].age # Retained
ToClean(p) == Kept(p) /\ photo[p].age = Removable
WipedAnyhow(p, removed, committed) == committed
Wiped(p, removed, committed) == removed /\ committed

\* cleanup_evidence in production: under the meeting's lock the row is read again, the
\* object is removed, which may fail, and the row is marked, which a crash may prevent.
CleanUpPhoto(p, removed, committed) ==
    /\ ToClean(p)
    /\ objects' = IF removed THEN objects \ {p} ELSE objects
    /\ photo' = IF Wiped(p, removed, committed)
                THEN [photo EXCEPT ![p].wiped = TRUE, ![p].active = FALSE, ![p].deleted = TRUE] ELSE photo
    /\ UNCHANGED <<submitted, late, upload>>

EvidenceNext ==
    \/ \E u \in Uploaders :
         \/ ReserveRow(u) \/ UploaderDies(u)
         \/ \E m \in Meetings : BeginUpload(u, m)
         \/ \E outcome \in {"stored", "late", "refused"} : PutPhoto(u, outcome)
         \/ \E answer \in {"ok", "unsure", "failed"} : Activate(u, answer)
         \/ \E done \in BOOLEAN : MarkUploadFailed(u, done) \/ TakeBack(u, done)
    \/ \E m \in Meetings : SubmitWithPhoto(m)
    \/ \E p \in Photos :
         \/ Arrives(p) \/ PhotoAges(p)
         \/ \E removed, committed \in BOOLEAN : CleanUpPhoto(p, removed, committed)

EvidenceSpec == EvidenceInit /\ [][EvidenceNext]_evidenceVars

-----------------------------------------------------------------------------
\* Every variable ranges over the rows the table admits; a meeting has one active photo.
EvidenceTypeOK ==
    /\ submitted \in [Meetings -> Photos \cup {None}] /\ objects \subseteq Photos /\ late \subseteq Photos
    /\ photo \in [Photos -> {None} \cup PhotoRow]
    /\ upload \in [Uploaders -> [pc : {"idle", "reserve", "put", "activate", "mark", "remove"},
                                 meeting : Meetings \cup {None}, photo : Photos \cup {None}]]
    /\ \A p, q \in Photos : Kept(p) /\ Kept(q) /\ photo[p].active /\ photo[q].active
                              /\ photo[p].meeting = photo[q].meeting => p = q

\* A photo that the pages show can be opened, whatever uploads fail, die or
\* arrive late beside it and whatever the cleanup removes.
ShownIsStored == \A p \in Photos, m \in Meetings : EvidenceShown(p, m) => p \in objects

\* A meeting keeps the photo it was submitted with: an upload that was under
\* way cannot exchange it afterwards, and it goes when its time is over only.
SubmittedKeepsPhoto ==
    \A m \in Meetings, p \in Photos :
        submitted[m] = p => photo[p] # None /\ (photo[p].wiped \/ (photo[p].active /\ ~photo[p].deleted))

\* "Failed/abandoned uploads remain discoverable for cleanup, rather than
\* becoming orphan objects": no object is without a row that the cleanup looks at.
NothingOrphaned == \A p \in objects \cup late : Kept(p)

\* The photographs as a whole: their type and the three properties above.
EvidenceSafe == EvidenceTypeOK /\ ShownIsStored /\ SubmittedKeepsPhoto /\ NothingOrphaned
=============================================================================
