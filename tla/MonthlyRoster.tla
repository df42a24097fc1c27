----------------------------- MODULE MonthlyRoster -----------------------------
(***************************************************************************)
(* To which class and group the study meetings of a month are attributed:  *)
(* a roster per month that is captured before a learner's relations        *)
(* change, refreshed by a job, and frozen on the month's 30th day.         *)
(*                                                                         *)
(* Source: app/services/study_meeting_monthly_roster.py, with the calls    *)
(* that capture: members.py (update_member) and organization_management.py *)
(* (transfer_group_member_relation), by way of study_membership.py.        *)
(*                                                                         *)
(* One month.  A call that changes relations opens its view first and then *)
(* waits for the month's row, which it holds until it commits: what it     *)
(* reads may be older than what it locks (REPEATABLE READ).  The job locks *)
(* first and reads then, so that it is one step.  The catalogue of groups, *)
(* the merging of records and the switching of the feature are left out.   *)
(***************************************************************************)
EXTENDS FiniteSets, StudyUnits

CONSTANTS
    Attendees,   \* learners
    RosterCalls  \* concurrent calls that change relations

VARIABLES
    day,         \* where the clock stands: before the month's 30th day, from then on, in the next month
    month,       \* study_meeting_roster_months.state, or "NONE"
    roll,        \* study_meeting_roster_members of the month
    place,       \* members.status with the study relations in force
    fact,        \* the first attendance of the month: its class and the learner's group
    rosterCall,  \* local state of each call
    origin,      \* for the record: the class in which a learner began the month
    gone         \* for the record: learners that were not in service at some time of the month

rosterVars == <<day, month, roll, place, fact, rosterCall, origin, gone>>

Places == [active : BOOLEAN, class : Classes \cup {None}, groups : SUBSET Groups]
Seats == [class : Classes, group : Groups \cup {None}]
RosterRows == [class : Classes, group : Groups \cup {None}, included : BOOLEAN]
\* Who has no seat has None, and so has who has no row.
ASSUME RosterAssumption == None \notin Seats \cup RosterRows

\* group_roster: class and group of a learner in service
Current(p) ==
    IF ~p.active \/ p.class = None THEN None
    ELSE [class |-> p.class, group |-> Only({g \in p.groups : ClassOf[g] = p.class})]
\* A row of the roster; that a class was preserved is a mark that nothing reads here.
Row(at) == [class |-> at.class, group |-> at.group, included |-> TRUE]

NoRosterCall == [pc |-> "idle", what |-> "edit", who |-> None, to |-> None, group |-> None, view |-> None]

RosterInit ==
    /\ day = "EARLY" /\ month = "NONE"
    /\ roll = [m \in Attendees |-> None] /\ fact = [m \in Attendees |-> None]
    /\ place \in [Attendees -> {[active |-> a, class |-> k, groups |-> G] :
                                   a \in BOOLEAN, k \in Classes \cup {None}, G \in {{}} \cup {{g} : g \in Groups}}]
    /\ \A m \in Attendees : \A g \in place[m].groups : ClassOf[g] = place[m].class
    /\ rosterCall = [c \in RosterCalls |-> NoRosterCall]
    /\ origin = [m \in Attendees |-> IF place[m].active THEN place[m].class ELSE None]
    /\ gone = {m \in Attendees : ~place[m].active}

(***************************************************************************)
(* The projection and the capture.                                         *)
(***************************************************************************)

\* Faulty variant: the class of now counts, and the month's row is only for those who left.
FollowsNow(now, old, first) ==
    CASE now # None -> Row(now)
      [] now = None /\ old # None -> [old EXCEPT !.included = FALSE]
      [] OTHER -> None
\* _projection, of one learner
Projected(now, old, first) ==
    LET before == CASE old # None -> old
                    [] old = None /\ first # None /\ now # None /\ first.class # now.class -> Row(first)
                    [] OTHER -> None
    IN CASE before # None /\ now # None /\ before.class # now.class -> Row(before)
         [] now # None /\ (before = None \/ before.class = now.class) -> Row(now)
         [] now = None /\ before # None -> [before EXCEPT !.included = FALSE]
         [] OTHER -> None

\* What a transaction sees of the roster and of the relations.
Sees(v, m) == Projected(Current(v.place[m]), v.roll[m], v.fact[m])
\* _store_member: a row that the view misses is inserted; if it exists by now, the call fails.
Clashes(v, rows) == \E m \in DOMAIN rows : v.roll[m] = None /\ roll[m] # None
Stored(rows) == [m \in Attendees |-> IF m \in DOMAIN rows THEN rows[m] ELSE roll[m]]

\* _refresh
RefreshRows(v) == [m \in {x \in Attendees : Sees(v, x) # None} |-> Sees(v, m)]
\* capture_before_change before the 30th: the learner's own row, unless it is of another class
OwnRow(v, m) ==
    LET now == Current(v.place[m]) IN
    IF now = None \/ (v.roll[m] # None /\ v.roll[m].class # now.class) THEN <<>>
    ELSE [x \in {m} |-> Row(now)]

\* Faulty variant: only the clock is asked, not the state of the month.
CapturedByClock(v, m) ==
    CASE day = "NEXT" -> <<>>
      [] day = "EARLY" -> OwnRow(v, m)
      [] day = "DUE" -> RefreshRows(v)
\* The rows that capture_before_change writes.  The month's row is read under its lock.
Captured(v, m) ==
    CASE month = "FROZEN" \/ day = "NEXT" -> <<>>
      [] month # "FROZEN" /\ day = "EARLY" -> OwnRow(v, m)
      [] month # "FROZEN" /\ day = "DUE" -> RefreshRows(v)

MonthAfter == CASE month = "FROZEN" \/ day = "DUE" -> "FROZEN"
                [] month # "FROZEN" /\ day = "EARLY" -> "OPEN"
                [] OTHER -> month

\* Edits lock the learner's record before they open their view.
Edited(m) == \E c \in RosterCalls : rosterCall[c].pc = "viewed" /\ rosterCall[c].what = "edit" /\ rosterCall[c].who = m
View == [roll |-> roll, place |-> place, fact |-> fact]

(***************************************************************************)
(* The calls.                                                              *)
(***************************************************************************)

\* update_member with a class and a group: the record is written, and the view opens.
BeginEdit(c, m, k, g, on) ==
    /\ rosterCall[c].pc = "idle" /\ ~Edited(m)
    /\ g # None => k # None /\ ClassOf[g] = k
    /\ rosterCall' = [rosterCall EXCEPT ![c] =
          [pc |-> "viewed", what |-> "edit", who |-> m, to |-> k, group |-> g,
           view |-> [View EXCEPT !.place[m].active = on]]]
    /\ UNCHANGED <<day, month, roll, place, fact, origin, gone>>

\* ... then each of set_formal_relation's calls captures, the later ones in the class that was written.
FinishEdit(c) ==
    LET m == rosterCall[c].who
        k == rosterCall[c].to
        v == rosterCall[c].view
        first == Captured(v, m)
        \* what the call itself sees after the class was written
        own == [v EXCEPT !.place[m].class = k, !.roll = [x \in Attendees |-> IF x \in DOMAIN first THEN first[x] ELSE @[x]]]
        later == IF month # "FROZEN" /\ day = "EARLY" THEN OwnRow(own, m) ELSE <<>>
    IN /\ rosterCall[c].pc = "viewed" /\ rosterCall[c].what = "edit"
       /\ rosterCall' = [rosterCall EXCEPT ![c] = NoRosterCall]
       /\ IF Clashes(v, first) \/ Clashes(own, later)
          THEN UNCHANGED <<month, roll, place, gone>>
          ELSE /\ month' = MonthAfter
               /\ roll' = [m2 \in Attendees |-> IF m2 \in DOMAIN later THEN later[m2] ELSE Stored(first)[m2]]
               /\ place' = [place EXCEPT ![m] = [active |-> v.place[m].active, class |-> k, groups |-> {rosterCall[c].group} \ {None}]]
               /\ gone' = IF v.place[m].active THEN gone ELSE gone \cup {m}
       /\ UNCHANGED <<day, fact, origin>>

\* update_member without relations: no capture
ChangeStatus(m) ==
    /\ ~Edited(m)
    /\ place' = [place EXCEPT ![m].active = ~@]
    /\ gone' = gone \cup {m}
    /\ UNCHANGED <<day, month, roll, fact, rosterCall, origin>>

\* transfer_group_member_relation: the view opens with the first lookup, before any lock.
BeginTransfer(c, m, g) ==
    /\ rosterCall[c].pc = "idle"
    /\ LET now == Current(place[m]) IN now # None /\ now.group # None /\ ClassOf[now.group] = ClassOf[g] /\ now.group # g
    /\ rosterCall' = [rosterCall EXCEPT ![c] =
          [pc |-> "viewed", what |-> "transfer", who |-> m, to |-> ClassOf[g], group |-> g, view |-> View]]
    /\ UNCHANGED <<day, month, roll, place, fact, origin, gone>>

\* It retires the rows that it saw; of those that an edit wrote since, rows that are older stay.
FinishTransfer(c) ==
    LET m == rosterCall[c].who
        v == rosterCall[c].view
        rows == Captured(v, m)
    IN /\ rosterCall[c].pc = "viewed" /\ rosterCall[c].what = "transfer" /\ ~Edited(m)
       /\ rosterCall' = [rosterCall EXCEPT ![c] = NoRosterCall]
       /\ IF Clashes(v, rows)
          THEN UNCHANGED <<month, roll, place>>
          ELSE /\ month' = MonthAfter
               /\ roll' = Stored(rows)
               /\ \E others \in SUBSET (place[m].groups \ v.place[m].groups) :
                    place' = [place EXCEPT ![m].groups = {rosterCall[c].group} \cup others]
       /\ UNCHANGED <<day, fact, origin, gone>>

\* A call fails or its process dies, or it is chosen to end a deadlock: nothing was committed.
FailRosterCall(c) ==
    /\ rosterCall[c].pc = "viewed"
    /\ rosterCall' = [rosterCall EXCEPT ![c] = NoRosterCall]
    /\ UNCHANGED <<day, month, roll, place, fact, origin, gone>>

\* refresh_current_month
RefreshMonth ==
    /\ day # "NEXT" /\ month # "FROZEN"
    /\ roll' = Stored(RefreshRows(View))
    /\ month' = MonthAfter
    /\ UNCHANGED <<day, place, fact, rosterCall, origin, gone>>

\* A submitted meeting of the learner's class is the first of the month that the learner attended.
Attend(m) ==
    LET now == Current(place[m]) IN
    /\ day # "NEXT" /\ fact[m] = None /\ now # None /\ now.group # None
    /\ fact' = [fact EXCEPT ![m] = now]
    /\ UNCHANGED <<day, month, roll, place, rosterCall, origin, gone>>

PassTime ==
    /\ day' = (IF day = "EARLY" THEN "DUE" ELSE "NEXT") /\ day # "NEXT"
    /\ UNCHANGED <<month, roll, place, fact, rosterCall, origin, gone>>

RosterNext ==
    \/ \E c \in RosterCalls, m \in Attendees, k \in Classes \cup {None}, g \in Groups \cup {None}, on \in BOOLEAN :
          BeginEdit(c, m, k, g, on)
    \/ \E c \in RosterCalls, m \in Attendees, g \in Groups : BeginTransfer(c, m, g)
    \/ \E c \in RosterCalls : FinishEdit(c) \/ FinishTransfer(c) \/ FailRosterCall(c)
    \/ \E m \in Attendees : ChangeStatus(m) \/ Attend(m)
    \/ RefreshMonth
    \/ PassTime

RosterSpec == RosterInit /\ [][RosterNext]_rosterVars

(***************************************************************************)
(* Properties.                                                             *)
(***************************************************************************)
RosterTypeOK ==
    /\ day \in {"EARLY", "DUE", "NEXT"} /\ month \in {"NONE", "OPEN", "FROZEN"}
    /\ \A m \in Attendees :
         /\ place[m] \in Places /\ fact[m] \in Seats \cup {None} /\ roll[m] \in RosterRows \cup {None}
         /\ fact[m] # None => fact[m].group # None

\* roster_for_period: what a report of the month says of a learner
Report(m) == IF month = "FROZEN" THEN roll[m] ELSE Projected(Current(place[m]), roll[m], fact[m])

\* A report attributes a learner to the class in which the month began, whatever moves the
\* learner since and however the calls overlap; once the month is over, if it was frozen or has
\* a row of the learner.  Learners that were out of service are another matter.
ReportKeepsClass ==
    \A m \in Attendees \ gone :
        (origin[m] # None /\ (day # "NEXT" \/ month = "FROZEN" \/ roll[m] # None))
            => /\ Current(place[m]) # None => Report(m) # None /\ (month = "FROZEN" \/ Report(m).included)
               /\ Report(m) # None => Report(m).class = origin[m]

\* A row names a group only of the class that it names.
RowsAreWhole == \A m \in Attendees : roll[m] # None /\ roll[m].group # None => ClassOf[roll[m].group] = roll[m].class

RosterSafe == RosterTypeOK /\ ReportKeepsClass /\ RowsAreWhole

\* The month is frozen for good, with its rows; and before that no row goes or changes its class.
RosterKept == [][
    /\ month = "FROZEN" => month' = "FROZEN" /\ roll' = roll
    /\ \A m \in Attendees : roll[m] # None => roll'[m] # None /\ roll'[m].class = roll[m].class]_rosterVars
=============================================================================
