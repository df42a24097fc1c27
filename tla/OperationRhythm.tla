---------------------------- MODULE OperationRhythm ----------------------------
(* services/operation_rhythm.py, update_class_operations and                 *)
(* complete_birthday_care: the month of a class.  Its items are generated    *)
(* from a template, follow the date of the class meeting in the calendar,    *)
(* and are maintained by hand, which a later generation must respect.        *)
EXTENDS Integers, FiniteSets, SqlNull

CONSTANTS
    RhythmCalls,   \* concurrent calls
    Days,          \* dates of the calendar, numbers
    Touched        \* statuses that people give by hand

VARIABLES
    calendar,      \* class_operation_monthly.planned_class_meeting_at
    offset,        \* operation_template_nodes.due_offset_days of the review
    item,          \* operation_items of the cycle, None before the insert
    byHand,        \* for the record: status and date that the last call by hand has left
    cared,         \* birthday_care_completions: is there a row for the year?
    thanked,       \* for the record: answers "created" of complete_birthday_care for that row
    told,          \* for the record: such answers for the birthday's item, since people last opened it
    raced,         \* for the record: has a care completed an item whose status was no longer as read?
    met,           \* for the record: were calls under way at the same time?
    rhythmCall     \* local state of each call

rhythmVars == <<calendar, offset, item, byHand, cared, thanked, told, raced, met, rhythmCall>>
careFacts == <<cared, thanked, told, raced>>

\* The class meeting, an item whose date is relative to it, and the care for one birthday.
Items == {"meeting", "review", "birthday"}
Birthday == 0
NoRhythmCall == [op |-> "none"]
ItemStatuses == {"PENDING", "PLANNED", "COMPLETED"} \cup Touched
Dates == Days \cup {d + 1 : d \in Days} \cup {Birthday, None}
ItemRows == [status : ItemStatuses, due : Dates, manual : BOOLEAN]

ASSUME RhythmAssumption == Days \subseteq Nat /\ None \notin Nat \cup ItemRows \cup (ItemStatuses \X Dates)

RhythmInit ==
    /\ calendar = None /\ offset = 0
    /\ item = [i \in Items |-> None]
    /\ byHand = [i \in Items |-> None]
    /\ cared = FALSE /\ thanked = 0 /\ told = 0 /\ raced = FALSE /\ met = FALSE
    /\ rhythmCall = [c \in RhythmCalls |-> NoRhythmCall]

\* The cycle and its items are inserted together.
HasCycle(items) == items["meeting"] # None
\* _scheduled_node_dates.
DateOf(i, day, days) ==
    CASE i = "birthday" -> Birthday
      [] i = "review" -> IF day = None THEN None ELSE day + days
      [] OTHER -> day
Scheduled(day) == IF day = None THEN "PENDING" ELSE "PLANNED"

Vacant(c) == rhythmCall[c] = NoRhythmCall
AtCall(c, op) == rhythmCall[c].op = op
Sees(c, call) ==
    /\ rhythmCall' = [rhythmCall EXCEPT ![c] = call]
    /\ met' = (met \/ \E d \in RhythmCalls \ {c} : ~Vacant(d))
    /\ UNCHANGED <<calendar, offset, item, byHand, careFacts>>
Returns(c) == rhythmCall' = [rhythmCall EXCEPT ![c] = NoRhythmCall] /\ UNCHANGED met

\* What a view of the items is asked for: id and manual_override.
Seen == [i \in Items |-> IF item[i] = None THEN "none" ELSE IF item[i].manual THEN "manual" ELSE "untouched"]

\* Faulty variant: the update of a row that was found untouched asks for its id only.
ByIdOnly(row, seen, i, day) ==
    IF seen = "untouched" THEN [row EXCEPT !.status = Scheduled(day), !.due = day]
    ELSE IF i = "meeting" THEN [row EXCEPT !.due = day] ELSE row
\* _insert_item and sync_operation_cycle_dates: what was seen decides, and an untouched row is
\* updated WHERE manual_override=0.
Updated(row, seen, i, day) ==
    IF seen = "untouched"
    THEN IF row.manual THEN row ELSE [row EXCEPT !.status = Scheduled(day), !.due = day]
    ELSE IF i = "meeting" THEN [row EXCEPT !.due = day] ELSE row
NewItem(day) == [status |-> Scheduled(day), due |-> day, manual |-> FALSE]

\* generate_rhythm_cycles: the view opens with the template, calendar and nodes are read in it.
StartGeneration(c, celebrated) ==
    /\ Vacant(c)
    /\ Sees(c, [op |-> "generate", day |-> calendar, offset |-> offset, seen |-> Seen,
                of |-> IF celebrated THEN Items ELSE Items \ {"birthday"}])
\* What another one has inserted since the view was opened is refused by the unique keys.
Generate(c) ==
    LET call == rhythmCall[c] IN
    /\ AtCall(c, "generate")
    /\ item' = IF \E i \in call.of : call.seen[i] = "none" /\ item[i] # None THEN item
               ELSE [i \in Items |->
                       IF i \notin call.of THEN item[i]
                       ELSE LET day == DateOf(i, call.day, call.offset) IN
                            IF item[i] = None THEN NewItem(day) ELSE Updated(item[i], call.seen[i], i, day)]
    /\ Returns(c)
    /\ UNCHANGED <<calendar, offset, byHand, careFacts>>

\* update_class_operations writes the calendar and takes the items along; it leaves birthdays alone.
StartCalendar(c, day) ==
    /\ Vacant(c)
    /\ Sees(c, [op |-> "calendar", day |-> day, offset |-> offset, seen |-> Seen])
SetCalendar(c) ==
    LET call == rhythmCall[c] IN
    /\ AtCall(c, "calendar")
    /\ calendar' = call.day
    /\ item' = [i \in Items |-> IF call.seen[i] = "none" \/ i = "birthday" THEN item[i]
                                ELSE Updated(item[i], call.seen[i], i, DateOf(i, call.day, call.offset))]
    /\ Returns(c)
    /\ UNCHANGED <<offset, byHand, careFacts>>

\* update_rhythm_item reads the row, and writes back all of it with what was asked for.
StartEdit(c, i, status, day) ==
    /\ Vacant(c) /\ item[i] # None
    /\ status \in Touched \cup {item[i].status}
    /\ day = item[i].due \/ (i # "meeting" /\ day \in Days)
    /\ Sees(c, [op |-> "edit", id |-> i, status |-> status, day |-> day])
Edit(c) ==
    LET call == rhythmCall[c] IN
    /\ AtCall(c, "edit")
    /\ item' = [item EXCEPT ![call.id] = [status |-> call.status, due |-> call.day, manual |-> TRUE]]
    /\ byHand' = [byHand EXCEPT ![call.id] = <<call.status, call.day>>]
    /\ told' = IF call.id = "birthday" /\ call.status # "COMPLETED" THEN 0 ELSE told
    /\ Returns(c)
    /\ UNCHANGED <<calendar, offset, cared, thanked, raced>>

\* Faulty variant: an item that is completed may be completed again.
NotCancelled == item["birthday"].status # "CANCELLED"
\* complete_birthday_care on the item of the rhythm: its status is read without a lock, and the
\* row is written by its id.
Completable == item["birthday"].status \notin {"CANCELLED", "COMPLETED"}
StartCare(c) ==
    /\ Vacant(c) /\ item["birthday"] # None /\ Completable
    /\ Sees(c, [op |-> "care", status |-> item["birthday"].status])
Care(c) ==
    /\ AtCall(c, "care")
    /\ item' = [item EXCEPT !["birthday"] = [status |-> "COMPLETED", due |-> @.due, manual |-> TRUE]]
    /\ byHand' = [byHand EXCEPT !["birthday"] = <<"COMPLETED", item["birthday"].due>>]
    /\ told' = told + 1
    /\ raced' = (raced \/ item["birthday"].status # rhythmCall[c].status)
    /\ Returns(c)
    /\ UNCHANGED <<calendar, offset, cared, thanked>>
\* A call that names no item, whether there is one or not: the view shows no row, and the insert meets the unique key.
StartFact(c) == Vacant(c) /\ ~cared /\ Sees(c, [op |-> "fact"])
\* Faulty variant: a row that is there counts as one's own.
Always == TRUE
Unrecorded == ~cared
RecordFact(c) ==
    /\ AtCall(c, "fact")
    /\ thanked' = IF Unrecorded THEN thanked + 1 ELSE thanked
    /\ cared' = TRUE
    /\ Returns(c)
    /\ UNCHANGED <<calendar, offset, item, byHand, told, raced>>

\* update_rhythm_template_node.
SetOffset(days) ==
    /\ offset # days /\ offset' = days
    /\ UNCHANGED <<calendar, item, byHand, careFacts, met, rhythmCall>>

RhythmNext ==
    \/ \E days \in {0, 1} : SetOffset(days)
    \/ \E c \in RhythmCalls :
         \/ Generate(c) \/ SetCalendar(c) \/ Edit(c) \/ StartCare(c) \/ Care(c) \/ StartFact(c) \/ RecordFact(c)
         \/ \E celebrated \in BOOLEAN : StartGeneration(c, celebrated)
         \/ \E day \in Days \cup {None} : StartCalendar(c, day)
         \/ \E i \in Items, status \in ItemStatuses, day \in Dates : StartEdit(c, i, status, day)

RhythmSpec == RhythmInit /\ [][RhythmNext]_rhythmVars

-----------------------------------------------------------------------------
\* Every variable ranges over the rows the tables admit; items have a date or are pending, until they are touched.
RhythmTypeOK ==
    /\ calendar \in Days \cup {None} /\ offset \in {0, 1}
    /\ cared \in BOOLEAN /\ thanked \in Nat /\ told \in Nat /\ raced \in BOOLEAN
    /\ item \in [Items -> ItemRows \cup {None}] /\ met \in BOOLEAN
    /\ \A i \in Items : item[i] # None /\ ~item[i].manual =>
         (item[i].status = "PENDING" <=> item[i].due = None) /\ byHand[i] = None

\* What was maintained by hand stays as it was left: generations and changes of
\* the calendar that have seen the row untouched do not write over it, but for
\* the date of the class meeting ("manual_override=0" in their updates).
ManualStands ==
    \A i \in Items : item[i] # None /\ item[i].manual =>
        byHand[i] # None /\ item[i].status = byHand[i][1] /\ (i # "meeting" => item[i].due = byHand[i][2])

\* A birthday is recorded once a year: of all calls that name no item one is told that it has
\* created the row ("The unique key is the last line of defence").  On the item no key guards the
\* answer: until people open it again it is completed, and one call has been told so, unless a
\* care wrote a row whose status others had changed since it was read.
BirthdayOnce ==
    /\ thanked = IF cared THEN 1 ELSE 0
    /\ told > 0 => item["birthday"] # None /\ item["birthday"].manual /\ item["birthday"].status = "COMPLETED"
    /\ told > 1 => raced

\* "班会日期永远来自班级运营日历；状态或备注人工维护不能切断日期联动": once there are
\* items, the meeting has the calendar's date, whatever was maintained by hand.
\* It takes calls that do not overlap: an edit writes back the date it has read.
MeetingFollowsCalendar == ~met /\ HasCycle(item) => item["meeting"].due = calendar

\* The month as a whole: its type and the three properties above.
MonthSafe == RhythmTypeOK /\ ManualStands /\ BirthdayOnce /\ MeetingFollowsCalendar
=============================================================================
