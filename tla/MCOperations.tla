------------------------------ MODULE MCOperations ------------------------------
(* Small instances of the unattended operations: releases of the service   *)
(* and their rehearsals, the monthly workbooks and the reading reports,     *)
(* with the workbooks of readings that are imported by hand.                *)
(* They share no state, so that a behaviour plays one scene of one of them, *)
(* and the others stand still.                                              *)
EXTENDS ReleaseOperations, MonthlyReports, ReadingSync, HqReadings, TLC

CONSTANTS s1, s2, r0, e1, e2, h1, h2

VARIABLE scene

TwoSlots == {s1, s2}

\* Three approvals: two for one action, one of them also for the next action.
SharedGrants ==
    {[op |-> 1, action |-> "create", ref |-> 1], [op |-> 1, action |-> "create", ref |-> 2],
     [op |-> 1, action |-> "target", ref |-> 2]}

\* Two learners of one name, of which one has an account; two groups, of which one is advanced.
Namesakes == [p \in {e1, e2} |-> "n"]
Accounts == [p \in {e1, e2} |-> IF p = e1 THEN {"a"} ELSE {}]
TwoTypes == [g \in {h1, h2} |-> IF g = h1 THEN "CLASS_REGULAR" ELSE "CLASS_ADVANCED"]
Written == [g \in {"1", "2"} |-> IF g = "1" THEN h1 ELSE h2]
RowOf(account, g, day, recording) ==
    [look |-> [name |-> "n", account |-> account, group |-> g], day |-> day, recording |-> recording, learns |-> TRUE]
\* One day of both; two days of the one with the account, whose first is not complete any more; that one in the other group.
ThreeBooks ==
    <<{RowOf("a", "1", 1, "COMPLETE"), RowOf(None, "1", 1, "COMPLETE")},
      {RowOf("a", "1", 1, "NOT_COMPLETE"), RowOf("a", "1", 2, "COMPLETE")},
      {RowOf("a", "2", 1, "COMPLETE")}>>
\* All in the first group; the second learner not in the class; the first one in the other group.
Home == [p \in {e1, e2} |-> [d \in {1, 2} |-> {h1}]]
ThreeHomes == {Home, [Home EXCEPT ![e2] = [d \in {1, 2} |-> None]], [Home EXCEPT ![e1] = [d \in {1, 2} |-> {h2}]]}

opsVars == <<scene, releaseVars, reportVars, syncVars, rehearsalVars, readingVars>>

\* Which of the files are imported: overlapping days of learners who stay, or another group and learners who move.
OnlyBooks(F) == \A t \in ReadingCalls : readingCall'[t].f \in F \cup {None}
Overlapping == OnlyBooks({1, 2}) /\ UNCHANGED placed

\* The chain goes through all tasks in one line of events; or the last task's events are doubled by lost answers.
Line == scene = "line" => \E s \in Slots : chain'[s] = None
OpsInit ==
    /\ scene \in {"release", "reports", "line", "doubled", "rehearsal", "transport", "readings", "regrouped", "moves"}
    /\ ReleaseInit /\ ReportsInit /\ SyncInit /\ RehearsalInit /\ ReadingsInit
    /\ scene \notin {"readings", "regrouped", "moves"} => placed = Home
    /\ first = (IF scene = "doubled" THEN Tasks ELSE 1)
    /\ scene = "doubled" => report[1] = "empty"
    /\ scene = "line" => <<report[1], report[2]>> \in {<<"partial", "full">>, <<"empty", "partial">>, <<"full", "empty">>}
    /\ scene \notin {"line", "doubled"} => \A i \in Task : report[i] = "full"
    /\ chain[s1] # None

OpsNext ==
    /\ UNCHANGED scene
    /\ \/ scene = "release" /\ ReleaseNext
       \/ UNCHANGED releaseVars /\ scene # "release"
    /\ \/ scene = "reports" /\ ReportsNext
       \/ UNCHANGED reportVars /\ scene # "reports"
    /\ \/ scene \in {"line", "doubled"} /\ SyncNext /\ Line
       \/ UNCHANGED syncVars /\ scene \notin {"line", "doubled"}
    /\ \/ scene = "rehearsal" /\ Rehearse
       \/ scene = "transport" /\ Transport
       \/ UNCHANGED rehearsalVars /\ scene \notin {"rehearsal", "transport"}
    /\ \/ scene = "readings" /\ ReadingsNext /\ Overlapping
       \/ scene = "regrouped" /\ ReadingsNext /\ OnlyBooks({2, 3})
       \/ scene = "moves" /\ ReadingsNext /\ OnlyBooks({1, 3})
       \/ UNCHANGED readingVars /\ scene \notin {"readings", "regrouped", "moves"}

\* The fairness of MonthlyReports, in its scene.
OpsFairness ==
    /\ \A w \in Workers :
         WF_opsVars(scene = "reports" /\ Work(w) /\ OpsNext) /\ WF_opsVars(scene = "reports" /\ StartSweep(w) /\ OpsNext)
    /\ \A c \in Center : WF_opsVars(scene = "reports" /\ Expire(c) /\ OpsNext)

\* The scheduler gets every centre's report published or gives up (MonthlyReports!SweepSettles), in its scene.
ReportsSettle == scene = "reports" => SweepSettles

Scenes == OpsInit /\ [][OpsNext]_opsVars /\ OpsFairness
=============================================================================
