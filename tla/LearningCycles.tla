---------------------------- MODULE LearningCycles ----------------------------
(***************************************************************************)
(* The learning rounds of a class: the binding of a published plan, the    *)
(* monthly cycles that run under it, their correction, the confirmation of *)
(* the class meeting that closes a cycle and opens the next, and the       *)
(* credits that are posted meanwhile.                                      *)
(*                                                                         *)
(* Source: app/services/learning_cycles.py; _advance_source_learning_cycle *)
(* (credit_settlement_batches.py) and _insert_entry (learning_credits.py)  *)
(* as the other sides.                                                     *)
(*                                                                         *)
(* One class.  Every writer locks the row of the class first.  Dates are   *)
(* left out but for whether a cycle's formal start has come; schedule      *)
(* overrides, the tasks of the groups and cohort tracks are left out too.  *)
(***************************************************************************)
EXTENDS Integers, FiniteSets, SqlNull

CONSTANTS
    Plans,       \* learning_plan_versions
    Duration,    \* duration_cycles of each
    Rounds,      \* bound on class_learning_bindings
    Periods,     \* bound on class_learning_cycles
    PlanCalls,   \* concurrent calls
    Legacy       \* may the class start with what earlier programs left: a cycle closed without a meeting, or one to come?

ASSUME LearningAssumption ==
    /\ Duration \in Nat \ {0} /\ Rounds \in Nat \ {0} /\ Periods \in Nat /\ Legacy \in BOOLEAN
    /\ None \notin Plans \cup PlanCalls

VARIABLES
    plan,        \* status of each plan
    round,       \* class_learning_bindings by id, None before the insert
    period,      \* class_learning_cycles by id; ids follow opened_at
    entry,       \* learning_credit_entries: the round and the plan whose rules they follow
    planCall     \* local state of each call

learningVars == <<plan, round, period, entry, planCall>>

Index == 1 .. Duration
RoundIds == {b \in DOMAIN round : round[b] # None}
PeriodIds == {p \in DOMAIN period : period[p] # None}
NoPlanCall == [op |-> "none", plan |-> None, index |-> 0, latest |-> 0, of |-> None, period |-> None]
NewPeriod(b, i, begun) == [round |-> b, index |-> i, status |-> "OPEN", held |-> FALSE, begun |-> begun]

LearningInit ==
    /\ plan = [v \in Plans |-> "PUBLISHED"]
    /\ entry = {}
    /\ planCall = [c \in PlanCalls |-> NoPlanCall]
    /\ \/ round = [b \in 1 .. Rounds |-> None] /\ period = [p \in 1 .. Periods |-> None]
       \/ /\ Legacy /\ Periods > 1 /\ Duration > 1
          /\ \E v \in Plans : round = [b \in 1 .. Rounds |-> IF b = 1 THEN [no |-> 1, plan |-> v, status |-> "ACTIVE"] ELSE None]
          /\ \E first, second \in {"OPEN", "CLOSED", "UPCOMING"} :
               /\ <<first, second>> \in {<<"CLOSED", "OPEN">>, <<"OPEN", "UPCOMING">>}
               /\ period = [p \in 1 .. Periods |->
                     CASE p = 1 -> [NewPeriod(1, 1, TRUE) EXCEPT !.status = first]
                       [] p = 2 -> [NewPeriod(1, 2, second = "OPEN") EXCEPT !.status = second]
                       [] OTHER -> None]

\* Faulty variant: nobody locks the class.
ClassNeverLocked == FALSE
\* _lock_class_for_update: calls that hold the row between their checks and their commit.
ClassLocked == \E c \in PlanCalls : planCall[c].op \in {"bind", "restart", "correct"}

PlanCallEnds(c) == planCall' = [planCall EXCEPT ![c] = NoPlanCall]
\* _active_binding, _cycle_at
ActiveRounds == {b \in RoundIds : round[b].status = "ACTIVE"}
IsCurrent(p) ==
    /\ p \in PeriodIds /\ period[p].round \in ActiveRounds /\ period[p].begun
    /\ \A q \in PeriodIds : period[q].round = period[p].round /\ period[q].begun => q <= p
At(b, i) == {p \in PeriodIds : period[p].round = b /\ period[p].index = i}

\* The formal start of a cycle comes.
FormalStart(p) ==
    /\ p \in PeriodIds /\ ~period[p].begun /\ period[p].status # "UPCOMING"
    /\ period' = [period EXCEPT ![p].begun = TRUE]
    /\ UNCHANGED <<plan, round, entry, planCall>>

(***************************************************************************)
(* Rounds.                                                                 *)
(***************************************************************************)
\* retire_learning_plan, which locks no class.
RetirePlan(v) ==
    /\ plan[v] = "PUBLISHED" /\ plan' = [plan EXCEPT ![v] = "ARCHIVED"]
    /\ UNCHANGED <<round, period, entry, planCall>>

\* bind_class_learning_plan takes a class without history, restart_ and resume_class_learning_plan any;
\* the plan and the latest round are read under the lock.
StartRound(c, op, v, i) ==
    /\ planCall[c].op = "none" /\ ~ClassLocked
    /\ op = "bind" => RoundIds = {}
    /\ plan[v] = "PUBLISHED"
    /\ planCall' = [planCall EXCEPT ![c] = [NoPlanCall EXCEPT !.op = op, !.plan = v, !.index = i,
                      !.latest = Cardinality(RoundIds), !.of = IF ActiveRounds = {} THEN None ELSE CHOOSE b \in ActiveRounds : TRUE]]
    /\ UNCHANGED <<plan, round, period, entry>>

\* _create_learning_binding: the active round is ended, the new one gets its number and its first cycle.
CreateRound(c, b, p, begun) ==
    LET C == planCall[c] IN
    /\ C.op \in {"bind", "restart"} /\ round[b] = None /\ \A d \in 1 .. b - 1 : round[d] # None
    /\ period[p] = None /\ \A q \in 1 .. p - 1 : period[q] # None
    /\ round' = [d \in DOMAIN round |->
                   CASE d = b -> [no |-> C.latest + 1, plan |-> C.plan, status |-> "ACTIVE"]
                     [] d = C.of /\ round[d].status = "ACTIVE" -> [round[d] EXCEPT !.status = "ENDED"]
                     [] OTHER -> round[d]]
    /\ period' = [period EXCEPT ![p] = NewPeriod(b, C.index, begun)]
    /\ PlanCallEnds(c)
    /\ UNCHANGED <<plan, entry>>

(***************************************************************************)
(* Correction.                                                             *)
(***************************************************************************)
\* Faulty variant: whatever cycle is the current one is corrected.
AnyCurrent(p) == TRUE
Correctable(p) == period[p].status = "OPEN" /\ ~period[p].held

\* correct_class_learning_plan: a plan is exchanged only while the round has no credits.
StartCorrection(c, p, v, i) ==
    /\ planCall[c].op = "none" /\ ~ClassLocked
    /\ IsCurrent(p) /\ Correctable(p) /\ At(period[p].round, i) \subseteq {p}
    /\ v # round[period[p].round].plan => plan[v] = "PUBLISHED" /\ \A e \in entry : e.round # period[p].round
    /\ planCall' = [planCall EXCEPT ![c] = [NoPlanCall EXCEPT !.op = "correct", !.plan = v, !.index = i, !.of = p]]
    /\ UNCHANGED <<plan, round, period, entry>>
Correct(c) ==
    LET C == planCall[c] IN
    /\ C.op = "correct"
    /\ round' = [round EXCEPT ![period[C.of].round].plan = C.plan]
    /\ period' = [period EXCEPT ![C.of].index = C.index]
    /\ PlanCallEnds(c)
    /\ UNCHANGED <<plan, entry>>

(***************************************************************************)
(* The class meeting.                                                      *)
(***************************************************************************)
\* Faulty variant: the cycle stays open.
LeftOpen(P) == [P EXCEPT !.held = TRUE]
Closed(P) == [P EXCEPT !.held = TRUE, !.status = "CLOSED"]

\* Faulty variant: the next cycle is opened whether or not there is one.
NeverThere(b, i) == FALSE
\* Those of that index that the repair of the calendar has left to come, and that have no facts (can_activate_upcoming).
Upcoming(b, i) == {q \in At(b, i) : period[q].status = "UPCOMING" /\ ~period[q].held}
\* Another cycle of that index is there: the code refuses it, or uq_class_learning_cycle.
There(b, i) == At(b, i) \ Upcoming(b, i) # {}
\* confirm_class_meeting, on the cycle P as it was read.
ConfirmAs(p, P, begun) ==
    LET b == P.round
        next == P.index + 1
    IN  IF next <= Duration
        THEN /\ ~There(b, next)
             /\ \E q \in DOMAIN period :
                  /\ IF Upcoming(b, next) # {} THEN q \in Upcoming(b, next)
                     ELSE period[q] = None /\ \A r \in 1 .. q - 1 : period[r] # None
                  /\ period' = [period EXCEPT ![p] = Closed(@), ![q] = NewPeriod(b, next, begun)]
             /\ UNCHANGED round
        ELSE /\ period' = [period EXCEPT ![p] = Closed(@)]
             /\ round' = [round EXCEPT ![b].status = "COMPLETED"]

\* The staff confirm the current cycle; a meeting may be entered that is still to come.
ConfirmMeeting(p, begun) ==
    /\ ~ClassLocked /\ IsCurrent(p) /\ period[p].status = "OPEN" /\ ~period[p].held
    /\ ConfirmAs(p, period[p], begun)
    /\ UNCHANGED <<plan, entry, planCall>>

\* A month that was closed without a meeting gets one, and nothing moves.
ConfirmHistorical(p) ==
    /\ ~ClassLocked /\ p \in PeriodIds /\ period[p].round \in ActiveRounds
    /\ period[p].status = "CLOSED" /\ ~period[p].held
    /\ period' = [period EXCEPT ![p].held = TRUE]
    /\ UNCHANGED <<plan, round, entry, planCall>>

\* _advance_source_learning_cycle in the last transaction of a settlement, whose view is opened before the class is
\* locked; only the cycle's own row is read again.
ViewSettled(c, p) ==
    /\ planCall[c].op = "none" /\ p \in PeriodIds
    /\ planCall' = [planCall EXCEPT ![c] = [NoPlanCall EXCEPT !.op = "settle", !.of = p,
                      !.plan = CASE IsCurrent(p) -> "current" [] period[p].round \in ActiveRounds -> "active" [] OTHER -> None,
                      !.period = period[p]]]
    /\ UNCHANGED <<plan, round, period, entry>>
AdvanceSettled(c) ==
    LET C == planCall[c] IN
    /\ C.op = "settle" /\ ~ClassLocked
    /\ ~(period[C.of].status = "CLOSED" /\ period[C.of].held)
    /\ \/ C.plan = "current" /\ C.period.status = "OPEN" /\ ConfirmAs(C.of, C.period, TRUE)
       \/ C.plan # None /\ C.period.status = "CLOSED" /\ period' = [period EXCEPT ![C.of].held = TRUE] /\ UNCHANGED round
    /\ PlanCallEnds(c)
    /\ UNCHANGED <<plan, entry>>

(***************************************************************************)
(* Credits.                                                                *)
(***************************************************************************)
\* _insert_entry: a credit of the cycle by the rules of the plan that its transaction sees; the class is not locked.
ViewCredit(c, p) ==
    /\ planCall[c].op = "none" /\ p \in PeriodIds /\ period[p].status # "UPCOMING"
    /\ planCall' = [planCall EXCEPT ![c] = [NoPlanCall EXCEPT !.op = "credit", !.of = p, !.plan = round[period[p].round].plan]]
    /\ UNCHANGED <<plan, round, period, entry>>
PostCredit(c) ==
    LET C == planCall[c] IN
    /\ C.op = "credit"
    /\ entry' = entry \cup {[round |-> period[C.of].round, plan |-> C.plan]}
    /\ PlanCallEnds(c)
    /\ UNCHANGED <<plan, round, period>>

\* A later check or the database refuses, and the transaction is rolled back.
FailPlanCall(c) ==
    /\ planCall[c].op # "none" /\ PlanCallEnds(c)
    /\ UNCHANGED <<plan, round, period, entry>>

LearningNext ==
    \/ \E v \in Plans : RetirePlan(v)
    \/ \E p \in DOMAIN period :
         FormalStart(p) \/ ConfirmHistorical(p) \/ \E begun \in BOOLEAN : ConfirmMeeting(p, begun)
    \/ \E c \in PlanCalls :
         \/ \E op \in {"bind", "restart"}, v \in Plans, i \in Index : StartRound(c, op, v, i)
         \/ \E b \in DOMAIN round, p \in DOMAIN period, begun \in BOOLEAN : CreateRound(c, b, p, begun)
         \/ \E p \in DOMAIN period :
              ViewSettled(c, p) \/ ViewCredit(c, p) \/ \E v \in Plans, i \in Index : StartCorrection(c, p, v, i)
         \/ Correct(c) \/ AdvanceSettled(c) \/ PostCredit(c) \/ FailPlanCall(c)

LearningSpec == LearningInit /\ [][LearningNext]_learningVars
(***************************************************************************)
(* Properties.                                                             *)
(***************************************************************************)
\* Rows are numbered without gaps, one cycle of a round and an index, and calls are at a step the code has.
LearningTypeOK ==
    /\ plan \in [Plans -> {"PUBLISHED", "ARCHIVED"}]
    /\ \A b \in RoundIds : /\ 1 .. b \subseteq RoundIds
                           /\ round[b].plan \in Plans /\ round[b].status \in {"ACTIVE", "ENDED", "COMPLETED"}
    /\ \A p \in PeriodIds : 1 .. p \subseteq PeriodIds /\ period[p].round \in RoundIds /\ At(period[p].round, period[p].index) = {p}
    /\ entry \subseteq [round : RoundIds, plan : Plans]
    /\ \A c \in PlanCalls : planCall[c].op \in {"none", "bind", "restart", "correct", "settle", "credit"}

\* A class runs under one round at a time, and rounds are numbered one by one ("The active-binding invariant is
\* enforced in the service layer").
OneActiveRound ==
    /\ Cardinality(ActiveRounds) <= 1
    /\ \A b \in RoundIds : round[b].no = b

\* A round has one open cycle at most, whatever a settlement has seen when it comes to close its own.
OneOpenPeriod ==
    \A p, q \in PeriodIds : period[p].round = period[q].round /\ period[p].status = "OPEN" /\ period[q].status = "OPEN" => p = q

\* A cycle whose meeting was held keeps its place in the round for ever ("Meeting, attendance, completion and credit
\* facts are never rewritten"; 已确认实际班会的学习周期不可修正).
HeldIsForGood ==
    [][\A p \in PeriodIds : period[p].held => period'[p] = period[p]]_learningVars

\* "The ledger is the historical fact": credits of a round follow the plan that the round has.
CreditsFollowThePlan == \A e \in entry : round[e.round].plan = e.plan

\* Together: rounds and cycles are numbered, one round is active and one cycle open, and what was held stays.
LearningSafe == [](LearningTypeOK /\ OneActiveRound /\ OneOpenPeriod) /\ HeldIsForGood
=============================================================================
