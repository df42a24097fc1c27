---------------------------- MODULE MemberRenewals ----------------------------
(***************************************************************************)
(* Yearly renewal cycles and the status of the member they decide about:   *)
(* the import of a year's list and its rollback, cycles from the member's  *)
(* record, the staff's decisions, the maintenance of the renewal month,    *)
(* the merge of two records and the monthly sweep that lapses members.     *)
(*                                                                         *)
(* Source: app/services/renewals.py, renewal_expiry.py, members.py         *)
(* (update_member, merge_members), wechat_operations_v2.py.                *)
(*                                                                         *)
(* Months are counted from the first year's first, MonthsPerYear to a      *)
(* year.  OPEN stands for the three statuses of a cycle at work, DECLINED  *)
(* for NOT_RENEWING and EXITED.  The organisation scopes are left out.     *)
(***************************************************************************)
EXTENDS Integers, FiniteSets, SqlNull

CONSTANTS
    Members, RenewalCalls,
    MonthsPerYear,   \* 12
    LastMonth,       \* bound on the calendar
    FirstMonths,     \* values of renewal_month: the first month that is due
    CycleIds,        \* bound on the cycles that are ever created
    Proposed,        \* proposed_status of the import's rows
    Choices,         \* statuses that decisions choose from
    Records          \* statuses that maintenance writes, None where it leaves the status

ASSUME RenewalAssumption ==
    /\ MonthsPerYear \in Nat \ {0} /\ LastMonth \in Nat /\ FirstMonths \subseteq 0 .. LastMonth
    /\ CycleIds \in Nat /\ Proposed \in {"OPEN", "RENEWED", "DECLINED", "DEFERRED"}
    /\ Choices \subseteq {"OPEN", "RENEWED", "DECLINED", "DEFERRED"}
    /\ Records \ {None} \subseteq {"ACTIVE", "INACTIVE", "SUSPENDED"}
    /\ None \notin Members

VARIABLES
    month,        \* the calendar
    member,       \* members: status, the first due month, whether it was merged into another
    cycle,        \* renewal_cycles by id, None before the insert and after the delete
    nextCycle,    \* ids used so far
    import,       \* renewal_import_batches: one list for the first year
    renewalCall   \* local state of each call

renewalVars == <<month, member, cycle, nextCycle, import, renewalCall>>

Decisions == {"OPEN", "RENEWED", "DECLINED", "DEFERRED"}
NoRenewalCall == [op |-> "none", member |-> None, id |-> None, status |-> None, seen |-> None, due |-> None]

RenewalInit ==
    /\ month = 0
    /\ member \in [Members -> [status : {"ACTIVE"}, due : FirstMonths, merged : {FALSE}]]
    /\ cycle = [i \in 1 .. CycleIds |-> None] /\ nextCycle = 0
    /\ import = "PREVIEWED"
    /\ renewalCall = [c \in RenewalCalls |-> NoRenewalCall]

Year(t) == t \div MonthsPerYear
MonthOf(t) == t % MonthsPerYear
Live == {i \in 1 .. nextCycle : cycle[i] # None}
CyclesOf(m, y) == {i \in Live : cycle[i].member = m /\ cycle[i].year = y}

Enter(c, op, rest) ==
    /\ renewalCall[c].op = "none"
    /\ renewalCall' = [renewalCall EXCEPT ![c] = [rest EXCEPT !.op = op]]
Advance(c, op) == renewalCall' = [renewalCall EXCEPT ![c].op = op]
Return(c) == renewalCall' = [renewalCall EXCEPT ![c] = NoRenewalCall]

\* Row locks that calls hold between their statements.
CycleLocked(i) == \E c \in RenewalCalls : renewalCall[c].op = "deciding" /\ renewalCall[c].id = i
MemberLocked(m) == \E c \in RenewalCalls : renewalCall[c].op = "maintaining" /\ renewalCall[c].member = m

NewMonth ==
    /\ month < LastMonth /\ month' = month + 1
    /\ UNCHANGED <<member, cycle, nextCycle, import, renewalCall>>

(***************************************************************************)
(* Cycles are created: from the member's record, by the import.            *)
(***************************************************************************)
\* _initial_cycle_status
Initially(due, y) == IF y = Year(month) /\ MonthOf(due) < MonthOf(month) THEN "RENEWED" ELSE "OPEN"

\* Whether a cycle is as it was created, was updated, or has follow-ups, which matter whatever else was done.
Touch(mark) == IF mark = "FOLLOWED" THEN mark ELSE "TOUCHED"
NewCycle(m, y, due, status, imported) ==
    [member |-> m, year |-> y, due |-> MonthOf(due), status |-> status, imported |-> imported,
     mark |-> "NONE"]

\* create_cycle_from_member: the checks, before the transaction ...
StartCreate(c, m, y) ==
    /\ member[m].status = "ACTIVE" /\ y >= Year(member[m].due) /\ CyclesOf(m, y) = {}
    /\ Enter(c, "create", [NoRenewalCall EXCEPT !.member = m, !.seen = y, !.due = member[m].due])
    /\ UNCHANGED <<month, member, cycle, nextCycle, import>>

\* ... and the insert, which the unique key of member and year may refuse.
Create(c) ==
    LET C == renewalCall[c] IN
    /\ C.op = "create" /\ CyclesOf(C.member, C.seen) = {} /\ nextCycle < CycleIds
    /\ cycle' = [cycle EXCEPT ![nextCycle + 1] = NewCycle(C.member, C.seen, C.due, Initially(C.due, C.seen), FALSE)]
    /\ nextCycle' = nextCycle + 1
    /\ Return(c)
    /\ UNCHANGED <<month, member, import>>

\* apply_preview, for a list of the first year with a row for one member.
StartApply(c, m) ==
    /\ import = "PREVIEWED" /\ CyclesOf(m, 0) = {}
    /\ Enter(c, "apply", [NoRenewalCall EXCEPT !.member = m])
    /\ UNCHANGED <<month, member, cycle, nextCycle, import>>
Apply(c) ==
    LET C == renewalCall[c] IN
    /\ C.op = "apply" /\ CyclesOf(C.member, 0) = {} /\ nextCycle < CycleIds
    /\ cycle' = [cycle EXCEPT ![nextCycle + 1] = NewCycle(C.member, 0, member[C.member].due, Proposed, TRUE)]
    /\ nextCycle' = nextCycle + 1
    /\ import' = "APPLIED"
    /\ Return(c)
    /\ UNCHANGED <<month, member>>

Imported == {i \in Live : cycle[i].imported}

\* rollback_import: only what nobody has touched; the cycles are then deleted by id, and the foreign keys of
\* follow-ups and of a history that is written meanwhile refuse it.
StartRollback(c) ==
    /\ import = "APPLIED"
    /\ \A i \in Imported : cycle[i].mark = "NONE"
    /\ Enter(c, "rollback", [NoRenewalCall EXCEPT !.seen = Imported])
    /\ UNCHANGED <<month, member, cycle, nextCycle, import>>
Rollback(c) ==
    LET C == renewalCall[c] IN
    /\ C.op = "rollback"
    /\ \A i \in C.seen : ~CycleLocked(i) /\ (cycle[i] # None => cycle[i].mark # "FOLLOWED")
    /\ cycle' = [i \in DOMAIN cycle |-> IF i \in C.seen THEN None ELSE cycle[i]]
    /\ import' = "ROLLED_BACK"
    /\ Return(c)
    /\ UNCHANGED <<month, member, nextCycle>>

(***************************************************************************)
(* Decisions about a cycle.                                                *)
(***************************************************************************)
\* update_cycle: the cycle is read before the transaction ...
StartDecision(c, i, status) ==
    /\ i \in Live
    /\ Enter(c, "decide", [NoRenewalCall EXCEPT !.member = cycle[i].member, !.id = i, !.status = status,
                                                !.seen = cycle[i].status])
    /\ UNCHANGED <<month, member, cycle, nextCycle, import>>

\* ... and updated; a transition into RENEWED then looks at the member of the read, with the row locked.
Confirms(C) == C.status = "RENEWED" /\ C.seen # "RENEWED"
Decide(c) ==
    LET C == renewalCall[c] IN
    /\ C.op = "decide" /\ cycle[C.id] # None /\ ~CycleLocked(C.id)
    /\ cycle' = [cycle EXCEPT ![C.id].status = C.status, ![C.id].mark = Touch(@)]
    /\ renewalCall' = [renewalCall EXCEPT ![c] = IF Confirms(C) THEN [C EXCEPT !.op = "deciding", !.seen = member[C.member].status]
                                                 ELSE NoRenewalCall]
    /\ UNCHANGED <<month, member, nextCycle, import>>

\* wechat_operations_v2.renewal_update: the same decision, under a lock from its first read on.
DecideChecked(c, i, status) ==
    /\ i \in Live /\ ~CycleLocked(i)
    /\ cycle' = [cycle EXCEPT ![i].status = status, ![i].mark = Touch(@)]
    /\ IF status = "RENEWED" /\ cycle[i].status # "RENEWED"
       THEN Enter(c, "deciding", [NoRenewalCall EXCEPT !.member = cycle[i].member, !.id = i, !.status = status,
                                                       !.seen = member[cycle[i].member].status])
       ELSE renewalCall[c].op = "none" /\ UNCHANGED renewalCall
    /\ UNCHANGED <<month, member, nextCycle, import>>

\* _sync_member_status_from_renewal, and the commit.
SyncMember(c) ==
    LET C == renewalCall[c] IN
    /\ C.op = "deciding" /\ ~MemberLocked(C.member)
    /\ member' = IF C.seen = "INACTIVE" THEN [member EXCEPT ![C.member].status = "ACTIVE"] ELSE member
    /\ Return(c)
    /\ UNCHANGED <<month, cycle, nextCycle, import>>

\* add_followup
Follow(i) ==
    /\ i \in Live /\ ~CycleLocked(i) /\ cycle[i].mark # "FOLLOWED"
    /\ cycle' = [cycle EXCEPT ![i].mark = "FOLLOWED"]
    /\ UNCHANGED <<month, member, nextCycle, import, renewalCall>>

(***************************************************************************)
(* The member's record.                                                    *)
(***************************************************************************)
\* update_member: the record is read before the transaction; then it is updated and, if the renewal month
\* was touched, this year's cycle looked up (maybe_create_historical_cycle) ...
StartMaintenance(c, m, status, due) ==
    /\ Enter(c, "maintain", [NoRenewalCall EXCEPT !.member = m, !.due = due,
                                !.status = IF status = None THEN member[m].status ELSE status, !.seen = status])
    /\ UNCHANGED <<month, member, cycle, nextCycle, import>>
Maintain(c) ==
    LET C == renewalCall[c]
        m == C.member
        found == CyclesOf(m, Year(month))
        reconciles == /\ C.status = "ACTIVE" /\ Year(month) >= Year(C.due)
                      /\ Initially(C.due, Year(month)) = "RENEWED"
                      /\ \A i \in found : cycle[i].status = "OPEN"
    IN  /\ C.op = "maintain" /\ ~MemberLocked(m)
        /\ member' = [member EXCEPT ![m].due = C.due, ![m].status = IF C.seen = None THEN @ ELSE C.seen]
        /\ IF reconciles
           THEN renewalCall' = [renewalCall EXCEPT ![c] = [C EXCEPT !.op = "maintaining", !.seen = found]]
           ELSE Return(c)
        /\ UNCHANGED <<month, cycle, nextCycle, import>>

\* ... and closed as renewed, or inserted.
CloseHistorical(c) ==
    LET C == renewalCall[c]
        y == Year(month)
    IN  /\ C.op = "maintaining"
        /\ IF C.seen # {}
           THEN /\ \A i \in C.seen : ~CycleLocked(i)
                /\ cycle' = [i \in DOMAIN cycle |-> IF i \in C.seen /\ cycle[i] # None
                       THEN [cycle[i] EXCEPT !.status = "RENEWED", !.due = MonthOf(C.due), !.mark = Touch(@)] ELSE cycle[i]]
                /\ UNCHANGED nextCycle
           ELSE /\ CyclesOf(C.member, y) = {} /\ nextCycle < CycleIds
                /\ cycle' = [cycle EXCEPT ![nextCycle + 1] = NewCycle(C.member, y, C.due, "RENEWED", FALSE)]
                /\ nextCycle' = nextCycle + 1
        /\ Return(c)
        /\ UNCHANGED <<month, member, import>>

\* Faulty variant: cycles are moved without a look at the survivor's, and the table has no key.
AnyTwo(m, d) == TRUE
\* Both have no cycle of the same year; the unique key of member and year says so again at the end.
Apart(m, d) == \A i, j \in Live : ~(cycle[i].member = m /\ cycle[j].member = d /\ cycle[i].year = cycle[j].year)
\* merge_members: a duplicate's cycles move to the survivor unless both have one of a year.
StartMerge(c, m, d) ==
    /\ m # d /\ Apart(m, d)
    /\ Enter(c, "merge", [NoRenewalCall EXCEPT !.member = m, !.seen = d])
    /\ UNCHANGED <<month, member, cycle, nextCycle, import>>
Merge(c) ==
    LET C == renewalCall[c]
        d == C.seen
        moved == {i \in Live : cycle[i].member = d}
    IN  /\ C.op = "merge" /\ ~MemberLocked(d) /\ \A i \in moved : ~CycleLocked(i)
        /\ Apart(C.member, d)
        /\ cycle' = [i \in DOMAIN cycle |-> IF i \in moved THEN [cycle[i] EXCEPT !.member = C.member] ELSE cycle[i]]
        /\ member' = [member EXCEPT ![d].status = "INACTIVE", ![d].merged = TRUE]
        /\ Return(c)
        /\ UNCHANGED <<month, nextCycle, import>>

(***************************************************************************)
(* The sweep.                                                              *)
(***************************************************************************)
\* In the month `today`, the last year whose month m is over.
TargetYear(m, today) == IF m < MonthOf(today) THEN Year(today) ELSE Year(today) - 1

\* eligible, of the rows as they are.
Unpaid(i) == cycle[i].status \in {"OPEN", "DECLINED"}
Eligible(i, today) ==
    LET m == cycle[i].member
    IN  /\ member[m].status = "ACTIVE"
        /\ cycle[i].due = MonthOf(member[m].due) /\ cycle[i].year >= Year(member[m].due)
        /\ cycle[i].year = TargetYear(cycle[i].due, today)
        /\ Unpaid(i)
PaidLater(i) == \E j \in Live : cycle[j].member = cycle[i].member /\ cycle[j].status = "RENEWED" /\ cycle[j].year >= cycle[i].year

\* sync_expired_members takes its month once, in `seen` ...
StartSweep(c) ==
    /\ Enter(c, "sweep", [NoRenewalCall EXCEPT !.seen = month])
    /\ UNCHANGED <<month, member, cycle, nextCycle, import>>
\* ... lists the candidates, of which one is taken; its transaction opens its view ...
Find(c, i) ==
    /\ renewalCall[c].op = "sweep" /\ i \in Live /\ Eligible(i, renewalCall[c].seen) /\ ~PaidLater(i)
    /\ renewalCall' = [renewalCall EXCEPT ![c].op = "found", ![c].id = i]
    /\ UNCHANGED <<month, member, cycle, nextCycle, import>>
ViewPaid(c) ==
    LET C == renewalCall[c] IN
    /\ C.op = "found"
    /\ IF cycle[C.id] # None /\ ~PaidLater(C.id) THEN Advance(c, "viewed") ELSE Return(c)
    /\ UNCHANGED <<month, member, cycle, nextCycle, import>>

\* Faulty variant: the candidate is not checked again.
AsFound(i, today) == TRUE
\* The recheck, on rows that are now locked but for the month of the listing.
Rechecked(i, today) == Eligible(i, today)
\* ... and lapses the member.
Lapse(c) ==
    LET i == renewalCall[c].id IN
    /\ renewalCall[c].op = "viewed" /\ ~CycleLocked(i)
    /\ cycle[i] # None => ~MemberLocked(cycle[i].member)
    /\ member' = IF cycle[i] # None /\ Rechecked(i, renewalCall[c].seen)
                  THEN [member EXCEPT ![cycle[i].member].status = "INACTIVE"] ELSE member
    /\ Return(c)
    /\ UNCHANGED <<month, cycle, nextCycle, import>>

\* A statement fails on a key, a deleted row or a lost connection, and the transaction is rolled back; only
\* calls that have written nothing yet are let fail.
FailRenewal(c) ==
    /\ renewalCall[c].op \in {"create", "apply", "rollback", "decide", "maintain", "merge", "sweep", "found", "viewed"}
    /\ Return(c)
    /\ UNCHANGED <<month, member, cycle, nextCycle, import>>

RenewalNext ==
    \/ NewMonth
    \/ \E i \in Live : Follow(i)
    \/ \E c \in RenewalCalls :
         \/ \E m \in Members :
              \/ \E y \in 0 .. Year(LastMonth) : StartCreate(c, m, y)
              \/ StartApply(c, m)
              \/ \E s \in Records, d \in FirstMonths : StartMaintenance(c, m, s, d)
              \/ \E d \in Members : StartMerge(c, m, d)
         \/ StartRollback(c) \/ StartSweep(c)
         \/ \E i \in Live : Find(c, i) \/ \E s \in Choices : StartDecision(c, i, s) \/ DecideChecked(c, i, s)
         \/ Create(c) \/ Apply(c) \/ Rollback(c) \/ Decide(c) \/ SyncMember(c) \/ Maintain(c) \/ CloseHistorical(c)
         \/ Merge(c) \/ ViewPaid(c) \/ Lapse(c) \/ FailRenewal(c)

RenewalSpec == RenewalInit /\ [][RenewalNext]_renewalVars

(***************************************************************************)
(* Properties.                                                             *)
(***************************************************************************)
\* Cycles are numbered without gaps, one of a member and a year, and the list's status is one of three.
RenewalTypeOK ==
    /\ month \in 0 .. LastMonth /\ nextCycle \in 0 .. CycleIds
    /\ member \in [Members -> [status : {"ACTIVE", "INACTIVE", "SUSPENDED"}, due : FirstMonths, merged : BOOLEAN]]
    /\ \A i \in DOMAIN cycle : cycle[i] # None =>
          i <= nextCycle /\ cycle[i].member \in Members /\ cycle[i].status \in Decisions /\ cycle[i].due \in 0 .. MonthsPerYear - 1
    /\ \A m \in Members : \A y \in 0 .. Year(LastMonth) : Cardinality(CyclesOf(m, y)) <= 1
    /\ import \in {"PREVIEWED", "APPLIED", "ROLLED_BACK"}

\* The sweep lapses a member only for a cycle that is unpaid when the status is written, whatever was decided since
\* the candidates were listed ("Recheck the cycle and master under row locks against concurrent payment
\* confirmation"), and whose month is over, however long the call has taken.
LapseOnlyUnpaid ==
    [][\A c \in RenewalCalls : \A m \in Members :
         (renewalCall[c].op = "viewed" /\ renewalCall'[c].op = "none" /\ member'[m].status # member[m].status) =>
            /\ member[m].status = "ACTIVE"
            /\ \E i \in Live : /\ cycle[i].member = m /\ Unpaid(i)
                               /\ cycle[i].year * MonthsPerYear + MonthOf(member[m].due) < month]_renewalVars

\* A rollback deletes no cycle about which a decision or a contact was recorded ("批次中的续费周期已被修改，
\* 必须先人工生成联合回滚清单").
DecidedIsNotRolledBack ==
    [][\A i \in DOMAIN cycle : cycle[i] # None /\ cycle'[i] = None => cycle[i].mark = "NONE"]_renewalVars

\* Together: one cycle of a member and a year, and a sweep that lapses only who has not paid.
RenewalsSafe == []RenewalTypeOK /\ LapseOnlyUnpaid
=============================================================================
