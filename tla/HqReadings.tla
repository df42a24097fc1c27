------------------------------- MODULE HqReadings -------------------------------
(***************************************************************************)
(* The workbooks of reading days that headquarters exports for a class:    *)
(* imports that overlap in their days, the confirmation of whom a source   *)
(* identity stands for, and the activity facts that follow from both.      *)
(*                                                                         *)
(* Source: app/services/hq_reading_import.py.                              *)
(*                                                                         *)
(* One class.  Both operations are one transaction that reads from the     *)
(* view it opens first (REPEATABLE READ) and writes rows that may have     *)
(* changed by then; two that would write the same rows wait for each       *)
(* other, so that the writes are one step.  Reading the workbook, the      *)
(* dates of the groups, the columns of the class rate, which follow the    *)
(* same conditions, and the learning round of a fact are left out.         *)
(***************************************************************************)
EXTENDS FiniteSets, Naturals, SqlNull

CONSTANTS
    Pupils, NameOf,   \* learners of the platform and their names
    AccountsOf,       \* the masked accounts that _account_matches finds to be a learner's
    Rooms, TypeOf,    \* groups of the class: CLASS_REGULAR, CLASS_ADVANCED or UNKNOWN by their names
    RoomOf,           \* what group a written group is, None when there is none or several
    Workbook,         \* the rows of each file
    Placements,       \* what relations the learners may have
    ReadingCalls      \* concurrent calls

Sheets == DOMAIN Workbook
Looks == UNION {{row.look : row \in Workbook[f]} : f \in Sheets}
Days == UNION {{row.day : row \in Workbook[f]} : f \in Sheets}

\* _source_identity_key: the account, or else name and group
KeyOf(look) == IF look.account # None THEN [look EXCEPT !.name = None, !.group = None] ELSE look
Keys == {KeyOf(look) : look \in Looks}
\* _source_fact_id
CellOf(row) == <<KeyOf(row.look), row.day>>
Cells == Keys \X Days

\* The rows of the tables.
MatchStatuses == {"AUTO_MATCHED", "CANDIDATE", "CONFIRMED_BINDING", "MEMBER_MAPPING_REQUIRED", "SOURCE_IDENTITY_CONFLICT",
            "GROUP_MAPPING_MISSING"}
Identities == [who : Pupils, look : Looks]
Observations == [batch : Sheets, who : Pupils \cup {None}, match : MatchStatuses, row : UNION {Workbook[f] : f \in Sheets},
                 personal : BOOLEAN]
Facts == [who : Pupils, status : {"CONFIRMED", "CANCELLED"}]

ASSUME ReadingAssumption ==
    /\ Days \subseteq Nat /\ None \notin Pupils \cup Rooms \cup Identities \cup Observations \cup Facts
    /\ None \notin {"MATCHING", "CONFIRMED"}
    /\ \A f \in Sheets : Workbook[f] # {} /\ IsFiniteSet(Workbook[f])
    /\ \A at \in Placements, p \in Pupils, d \in Days : at[p][d] \in (SUBSET Rooms) \cup {None}

VARIABLES
    placed,       \* each learner's groups in the class on each day, None on a day outside of it
    identity,     \* hq_reading_source_identities: whose it is, and how it was seen last
    noted,        \* hq_reading_import_observations
    sheet,        \* hq_reading_import_batches.status
    credited,     \* learning_credit_activity_facts of these sources
    readingCall,  \* local state of each call
    crossed       \* for the record: days that were written from a view that missed a change of theirs

readingVars == <<placed, identity, noted, sheet, credited, readingCall, crossed>>
tables == <<identity, noted, sheet, credited>>

AtDesk == [pc |-> "idle", f |-> None, pick |-> <<>>, view |-> None]

ReadingsInit ==
    /\ placed \in Placements
    /\ identity = [k \in Keys |-> None] /\ noted = [c \in Cells |-> None]
    /\ sheet = [f \in Sheets |-> None] /\ credited = [c \in Cells |-> None]
    /\ readingCall = [t \in ReadingCalls |-> AtDesk] /\ crossed = {}

(***************************************************************************)
(* Whom a row is of.                                                       *)
(***************************************************************************)
\* _group_mapping
Room(look) == IF look.group = None THEN None ELSE RoomOf[look.group]
Unmapped(look) == look.group # None /\ Room(look) = None
GroupType(look) == IF Room(look) = None THEN "NO_GROUP" ELSE TypeOf[Room(look)]

\* _member_candidates
MemberCandidates(v, name, room, days) ==
    {p \in Pupils : NameOf[p] = name /\ \A d \in days : v.placed[p][d] # None /\ (room # None => room \in v.placed[p][d])}

\* _identity_conflicts
Differs(old, new) == \E x \in {"name", "account", "group"} : None \notin {old[x], new[x]} /\ old[x] # new[x]

Match(status, who) == [status |-> status, who |-> who]
\* _match_person; who is bound stays so in another group, or is a conflict outside of the class.
Matched(v, look, days) ==
    LET bound == v.identity[KeyOf(look)]
        there == MemberCandidates(v, look.name, Room(look), days)
        known == {p \in there : look.account \in AccountsOf[p]}
        anyGroup == MemberCandidates(v, look.name, None, days)
    IN CASE Unmapped(look) -> Match("GROUP_MAPPING_MISSING", None)
         [] ~Unmapped(look) /\ bound # None ->
              IF ~Differs(bound.look, look) /\ bound.who \in anyGroup THEN Match("CONFIRMED_BINDING", bound.who)
              ELSE Match("SOURCE_IDENTITY_CONFLICT", None)
         [] ~Unmapped(look) /\ bound = None /\ look.account # None /\ Cardinality(known) = 1 ->
              Match("AUTO_MATCHED", CHOOSE p \in known : TRUE)
         [] ~Unmapped(look) /\ bound = None /\ look.account = None /\ Cardinality(there) = 1 -> Match("CANDIDATE", None)
         [] OTHER -> Match("MEMBER_MAPPING_REQUIRED", None)

\* _row_eligibility, of the personal fact
Eligible(v, match, row) ==
    /\ match.status = "CONFIRMED_BINDING" /\ match.who # None
    /\ v.placed[match.who][row.day] = (IF Room(row.look) = None THEN {} ELSE {Room(row.look)})
    /\ row.learns /\ GroupType(row.look) \in {"CLASS_REGULAR", "CLASS_ADVANCED"} /\ row.recording = "COMPLETE"

(***************************************************************************)
(* Observations and facts.                                                 *)
(***************************************************************************)
\* The file's first row of several.
FirstRow(rows) == CHOOSE row \in rows : TRUE

\* _person_groups, _collapse_rows and _observation_payload: rows that contradict each other are a conflict.
Observation(v, f, c) ==
    LET person == {row \in Workbook[f] : KeyOf(row.look) = c[1]}
        rows == {row \in person : row.day = c[2]}
        row == FirstRow(rows)
        match == IF Cardinality({r.look : r \in person}) > 1 \/ Cardinality(rows) > 1
                 THEN Match("SOURCE_IDENTITY_CONFLICT", None) ELSE Matched(v, row.look, {r.day : r \in person})
    IN [batch |-> f, who |-> match.who, match |-> match.status, row |-> row, personal |-> Eligible(v, match, row)]

\* _upsert_observation: what has a member keeps it.
Upserted(v, f, c) ==
    LET new == Observation(v, f, c) old == v.noted[c] IN
    IF old = None THEN new
    ELSE IF old.who \in {None, new.who} THEN new
    ELSE [new EXCEPT !.who = old.who, !.match = IF new.who = None THEN @ ELSE "SOURCE_IDENTITY_CONFLICT", !.personal = FALSE]

\* Faulty variant: a fact outlives its observation.
NeverCancelled(v, c, o) ==
    IF o.personal /\ credited[c] = None THEN [who |-> o.who, status |-> "CONFIRMED"] ELSE credited[c]
\* _sync_source_fact: what the view knows of is updated in place.
Synced(v, c, o) ==
    LET old == v.credited[c] IN
    CASE old = None /\ o.personal -> [who |-> o.who, status |-> "CONFIRMED"]
      [] old # None /\ o.personal /\ old.who = o.who -> [credited[c] EXCEPT !.status = "CONFIRMED"]
      [] old # None /\ ~o.personal /\ old.status = "CONFIRMED" -> [credited[c] EXCEPT !.status = "CANCELLED"]
      [] OTHER -> credited[c]

\* A row that the view misses is inserted; if it exists by now, the whole call fails.
Collides(v, c, o) == (v.noted[c] = None /\ noted[c] # None) \/ (o.personal /\ v.credited[c] = None /\ credited[c] # None)

\* The writes of a call: its rows, and the facts that follow from them.
WriteRows(v, rows) ==
    /\ noted' = [c \in Cells |-> IF c \in DOMAIN rows THEN rows[c] ELSE noted[c]]
    /\ credited' = [c \in Cells |-> IF c \in DOMAIN rows THEN Synced(v, c, rows[c]) ELSE credited[c]]
    /\ crossed' = crossed \cup {c \in DOMAIN rows : <<v.noted[c], v.credited[c], v.identity[c[1]]>> #
                                                    <<noted[c], credited[c], identity[c[1]]>>}

CurrentView == [placed |-> placed, identity |-> identity, noted |-> noted, sheet |-> sheet, credited |-> credited]
ReadingIs(t, pc) == readingCall[t].pc = pc
Leave(t) == readingCall' = [readingCall EXCEPT ![t] = AtDesk] /\ UNCHANGED placed

(***************************************************************************)
(* import_hq_reading_workbook                                              *)
(***************************************************************************)
\* A file that has its batch is answered with it.
OpenWorkbook(t, f) ==
    /\ ReadingIs(t, "idle") /\ sheet[f] = None
    /\ readingCall' = [readingCall EXCEPT ![t] = [pc |-> "import", f |-> f, pick |-> <<>>, view |-> CurrentView]]
    /\ UNCHANGED <<placed, tables, crossed>>

ImportWorkbook(t) ==
    LET f == readingCall[t].f v == readingCall[t].view
        rows == [c \in {CellOf(row) : row \in Workbook[f]} |-> Upserted(v, f, c)]
        open == \E c \in DOMAIN rows : rows[c].match # "CONFIRMED_BINDING"
    IN  /\ ReadingIs(t, "import") /\ Leave(t)
        /\ IF sheet[f] = None /\ ~\E c \in DOMAIN rows : Collides(v, c, rows[c])
           THEN /\ sheet' = [sheet EXCEPT ![f] = IF open THEN "MATCHING" ELSE "CONFIRMED"]
                /\ WriteRows(v, rows) /\ UNCHANGED identity
           ELSE UNCHANGED <<tables, crossed>>

(***************************************************************************)
(* confirm_hq_reading_identities                                           *)
(***************************************************************************)
InSheet(v, f, k) == {d \in Days : v.noted[<<k, d>>] # None /\ v.noted[<<k, d>>].batch = f}
EarliestLook(v, f, k) ==
    v.noted[<<k, CHOOSE d \in InSheet(v, f, k) : \A e \in InSheet(v, f, k) : d <= e>>].row.look

\* Faulty variant: an identity may be given to another learner.
GivenToAny(v, k, p, look) == TRUE
\* An identity that is bound stays its learner's.
StaysBound(v, k, p, look) == v.identity[k] # None => v.identity[k].who = p /\ ~Differs(v.identity[k].look, look)

\* Of an unknown group that is not mapped there are only rows that are refused already (_validate_confirm_member).
Confirmable(v, f, k, p) ==
    LET days == InSheet(v, f, k) look == EarliestLook(v, f, k) IN
    /\ days # {}
    /\ \A d \in days : v.noted[<<k, d>>].match \notin {"SOURCE_IDENTITY_CONFLICT", "GROUP_MAPPING_MISSING"}
    /\ p \in MemberCandidates(v, look.name, Room(look), days)
    /\ StaysBound(v, k, p, look)

\* The request names a learner for some identities of the batch; what the view refuses changes nothing.
OpenConfirmation(t, f, pick) ==
    /\ ReadingIs(t, "idle") /\ sheet[f] # None /\ DOMAIN pick # {}
    /\ \A k \in DOMAIN pick : Confirmable(CurrentView, f, k, pick[k])
    /\ readingCall' = [readingCall EXCEPT ![t] = [pc |-> "confirm", f |-> f, pick |-> pick, view |-> CurrentView]]
    /\ UNCHANGED <<placed, tables, crossed>>

\* An observation that is confirmed: member, match and eligibility, the latter from the row that the view has.
Confirmed(v, c, p) ==
    [noted[c] EXCEPT !.who = p, !.match = "CONFIRMED_BINDING",
                     !.personal = Eligible(v, Match("CONFIRMED_BINDING", p), v.noted[c].row)]

\* Faulty variant: only the identities of the request are looked at.
AsPicked(v, f, cells) == "CONFIRMED"
\* What of the batch remains is counted in the view, with the call's own writes.
Remaining(v, f, cells) ==
    IF \E c \in Cells \ cells : v.noted[c] # None /\ v.noted[c].batch = f /\ v.noted[c].match # "CONFIRMED_BINDING"
    THEN "MATCHING" ELSE "CONFIRMED"

ConfirmIdentities(t) ==
    LET f == readingCall[t].f v == readingCall[t].view pick == readingCall[t].pick
        cells == {c \in Cells : c[1] \in DOMAIN pick /\ c[2] \in InSheet(v, f, c[1])}
        rows == [c \in cells |-> Confirmed(v, c, pick[c[1]])]
    IN  /\ ReadingIs(t, "confirm") /\ Leave(t)
        \* An identity that the view misses is inserted, as its facts are.
        /\ IF (\A k \in DOMAIN pick : v.identity[k] = None => identity[k] = None) /\ ~\E c \in cells : Collides(v, c, rows[c])
           THEN /\ identity' = [k \in Keys |-> IF k \in DOMAIN pick THEN [who |-> pick[k], look |-> EarliestLook(v, f, k)]
                                               ELSE identity[k]]
                /\ sheet' = [sheet EXCEPT ![f] = Remaining(v, f, cells)]
                /\ WriteRows(v, rows)
           ELSE UNCHANGED <<tables, crossed>>

\* Relations change, which MemberRelations models.
Relate == \E at \in Placements : at # placed /\ placed' = at /\ UNCHANGED <<tables, readingCall, crossed>>

ReadingCall(t) ==
    \/ \E f \in Sheets : OpenWorkbook(t, f) \/ \E K \in SUBSET Keys : \E pick \in [K -> Pupils] : OpenConfirmation(t, f, pick)
    \/ ImportWorkbook(t) \/ ConfirmIdentities(t)

ReadingsNext == Relate \/ \E t \in ReadingCalls : ReadingCall(t)

ReadingsSpec == ReadingsInit /\ [][ReadingsNext]_readingVars

(***************************************************************************)
(* Properties.                                                             *)
(***************************************************************************)
ReadingsTypeOK ==
    /\ placed \in Placements
    /\ identity \in [Keys -> Identities \cup {None}]
    /\ noted \in [Cells -> Observations \cup {None}]
    /\ sheet \in [Sheets -> {None, "MATCHING", "CONFIRMED"}]
    /\ credited \in [Cells -> Facts \cup {None}]
    /\ crossed \subseteq Cells

\* A fact, and an observation that counts as confirmed, are of the learner to whom a confirmation has bound their
\* source identity, whatever imports and confirmations overlap.
FactsAreBound ==
    \A c \in Cells :
        LET bound == identity[c[1]] IN
        /\ credited[c] # None => bound # None /\ credited[c].who = bound.who
        /\ noted[c] # None /\ noted[c].match = "CONFIRMED_BINDING" => bound # None /\ noted[c].who = bound.who

\* Where no call wrote from an outdated view, the facts in force are those of the observations that are eligible, and
\* those are complete.
FactsFollow ==
    \A c \in Cells \ crossed :
        /\ (credited[c] # None /\ credited[c].status = "CONFIRMED") <=> (noted[c] # None /\ noted[c].personal)
        /\ noted[c] # None /\ noted[c].personal => noted[c].match = "CONFIRMED_BINDING" /\ noted[c].row.recording = "COMPLETE"

\* A batch that is CONFIRMED has no row left to confirm.
ConfirmedIsWhole ==
    \A c \in Cells : noted[c] # None /\ sheet[noted[c].batch] = "CONFIRMED" => noted[c].match = "CONFIRMED_BINDING"

ReadingsSafe == ReadingsTypeOK /\ FactsFollow /\ ConfirmedIsWhole
=============================================================================
