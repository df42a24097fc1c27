------------------------------- MODULE MCImports -------------------------------
(* Small instances of what the staff enter from files and registers:      *)
(* imports of confirmed credits, the workbook of historical credits, the  *)
(* relations of learners, and the roster of a month.  They share no       *)
(* state, so that a behaviour plays one scene of one of them, which is    *)
(* chosen at the start, and the others stand still.                       *)
EXTENDS MCOpeningBalances, MemberRelations, MonthlyRoster, HistoricalCredits

CONSTANTS c1, c2, k1, k2, g1, g2, p1, p2, b1, b2, r1, r2, x1, x2, u1, u2

VARIABLE scene

Scene == {"imports", "tree", "posts", "merges", "overlaps", "refreshes", "reviewed", "periods", "bulks"}
People == {"tree", "posts", "merges"}
Workbook == {"reviewed", "periods", "bulks"}

TwoGroups == (g1 :> k1) @@ (g2 :> k1)
TwoCenters == (k1 :> c1) @@ (k2 :> c2)

InFirst == [active |-> TRUE, class |-> k1, groups |-> {g1}]
\* Two rows of the workbook with a cell each, and two learners: a name may be of either, or of both.
RowEach == (x1 :> r1) @@ (x2 :> r2)
Names == (k1 :> ((r1 :> {p1}) @@ (r2 :> {p2}))) @@ (k2 :> ((r1 :> {p2}) @@ (r2 :> {p1, p2})))

Nowhere == [active |-> FALSE, class |-> None, groups |-> {}]

SceneInit ==
    /\ scene \in Scene
    /\ Init /\ RelationInit /\ RosterInit /\ HistoryInit
    /\ parent = TwoCenters
    /\ place = [x \in Attendees |-> IF x = p2 /\ scene # "refreshes" THEN Nowhere ELSE InFirst]
    /\ \A c \in Cells :
         sourceCell[c].of = IF scene # "periods" THEN "MONTH" ELSE IF c = x1 THEN "SEPTEMBER" ELSE "YEAR"

\* One learner is moved, and so are the class and its groups; a post is set with the record.
SetWithRecord == \A i \in PostIds : post'[i] # None => post'[i].kind = "current"
OneLearner == student'[p2] = None
Tree ==
    /\ OneLearner /\ SetWithRecord
    /\ \A i \in PostIds : post'[i] # None => post'[i].status = "ACTIVE"

\* Every page appoints, while the classes stand.
EveryPage == OneLearner /\ unit' = unit

\* The second record is entered once and then merged; the first one is not withdrawn before.
\* No groups here.
Merges ==
    /\ SetWithRecord /\ unit' = unit /\ parent' = parent
    /\ \A w \in Students : student'[w] # None => student'[w].home \cap Groups = {}
    /\ \A i \in PostIds : post'[i] # None => post'[i].status = "ACTIVE" /\ post'[i].level = "CENTER"
    /\ student'[p2] # student[p2] => student[p2] = None \/ merged' # merged
    /\ student'[p1] # None /\ student'[p1].left => p1 \in merged'

\* An edit and a transfer of one learner overlap.
Overlaps ==
    /\ place'[p2] = Nowhere
    /\ \A c \in RosterCalls : rosterCall'[c].pc = "viewed" =>
         /\ rosterCall'[c].who = p1 /\ rosterCall'[c].to # None /\ rosterCall'[c].group # g1
         /\ rosterCall'[c].what = IF c = b1 THEN "edit" ELSE "transfer"

\* Edits of two learners overlap, of which the one may freeze the month for the other.
Refreshes ==
    /\ day' # "NEXT" /\ fact' = fact /\ gone' = gone
    /\ \A c \in RosterCalls : rosterCall'[c].pc = "viewed" =>
         /\ rosterCall'[c].who = IF c = b1 THEN p1 ELSE p2
         /\ rosterCall'[c].what = "edit" /\ rosterCall'[c].to # None /\ rosterCall'[c].view.place[rosterCall'[c].who].active
         /\ c = b2 => rosterCall'[c].to = k2

SomeFrozen == DOMAIN frozen' # {}
Freezes(n) == Cardinality(DOMAIN frozen') <= n /\ \A b \in DOMAIN frozen' : frozen'[b].maker = u1
AllMonths == \A c \in Cells : sourceCell'[c].period = "READY"

\* The rows are matched, a batch is frozen, and then the review goes on beside its posting.
Reviewed ==
    /\ AllMonths /\ serving' = Persons /\ bulk' = None /\ Freezes(2)
    /\ Cardinality(decided') <= 3
    /\ ~SomeFrozen => decided' \subseteq {<<"APPROVED", r2>>}
    /\ mapped'.status # "PENDING_REVIEW"
    /\ (mapped'.status = "EXACT" /\ mapped' # mapped) => (~SomeFrozen /\ mapped'.class = k1)

\* September and a year, of learners who stay or leave; the label is one class's.
Periods ==
    /\ p2 \in serving' /\ bulk' = None /\ Freezes(4)
    /\ decided' \subseteq {<<"APPROVED", r2>>, <<"NEEDS_SOURCE_CORRECTION", r2>>, <<"CLASS_MAPPING_CONFIRM", k1, "roster">>}
    /\ mapped'.class # k2 /\ (mapped' # mapped => mapped.status # "CONFIRMED_ALIAS")

\* Many rows are confirmed at once, while others are matched.
Bulks ==
    /\ AllMonths /\ serving' = Persons /\ ~SomeFrozen
    /\ sourceRow'[r2].credit = sourceRow[r2].credit
    /\ Cardinality(decided') <= 4

SceneNext ==
    /\ UNCHANGED scene
    /\ \/ scene = "imports" /\ Next
       \/ UNCHANGED vars /\ scene # "imports"
    /\ \/ scene = "tree" /\ RelationNext /\ Tree
       \/ scene = "posts" /\ RelationNext /\ EveryPage
       \/ scene = "merges" /\ RelationNext /\ Merges
       \/ UNCHANGED relationVars /\ scene \notin People
    /\ \/ scene = "overlaps" /\ RosterNext /\ Overlaps
       \/ scene = "refreshes" /\ RosterNext /\ Refreshes
       \/ UNCHANGED rosterVars /\ scene \notin {"overlaps", "refreshes"}
    /\ \/ scene = "reviewed" /\ HistoryNext /\ Reviewed
       \/ scene = "periods" /\ HistoryNext /\ Periods
       \/ scene = "bulks" /\ HistoryNext /\ Bulks
       \/ UNCHANGED historyVars /\ scene \notin Workbook

Scenes == SceneInit /\ [][SceneNext]_<<scene, vars, relationVars, rosterVars, historyVars>>
=============================================================================
