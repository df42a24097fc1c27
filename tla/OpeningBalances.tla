---------------------------- MODULE OpeningBalances ----------------------------
(***************************************************************************)
(* Confirmed credits from before the system: an opening import gives each  *)
(* learner one cumulative balance up to a cutoff date, a classifying year  *)
(* import assigns part of a balance to one learning year, a deficit year   *)
(* import assigns a year's total and adds what the balance lacks.  Regular *)
(* entries may only be posted for dates after a learner's cutoff.          *)
(*                                                                         *)
(* Source: app/services/credit_opening_balances.py,                        *)
(* credit_year_allocations.py and credit_year_reconciliation.py.  Every    *)
(* operation runs as `with transaction() as c, _operation(c)': under one   *)
(* named lock that is never waited for, which _operation releases before   *)
(* transaction() commits.  Between the two the next operation may start    *)
(* and reads what was committed so far (READ COMMITTED); only row locks    *)
(* make it wait.                                                           *)
(*                                                                         *)
(* One class, so one binding and one class progress.  Names, roster and    *)
(* permissions do not change; a source stands for a file with its cutoff,  *)
(* year and note, and thereby for its fingerprint.                         *)
(***************************************************************************)
EXTENDS Integers, FiniteSets, SqlNull

CONSTANTS
    Members,
    Sources,
    Kind,      \* [Sources -> {"OPENING", "CLASSIFY_ONLY", "DEFICIT"}]
    Rows,      \* Rows[s]: points of each learner listed in source s
    Year,      \* [Sources -> 1..3], of year imports
    Cutoff,    \* [Sources -> Dates]
    Dates,     \* days, in order
    Ops,       \* concurrent requests of the import pages
    Batchers,  \* concurrent transactions that post batch items
    Confirmers \* concurrent transactions that confirm attendance

Writers == Batchers \cup Confirmers

ASSUME SourceAssumption ==
    /\ IsFiniteSet(Sources) /\ IsFiniteSet(Members) /\ Dates \subseteq Nat
    /\ Kind \in [Sources -> {"OPENING", "CLASSIFY_ONLY", "DEFICIT"}]
    /\ \A s \in Sources : DOMAIN Rows[s] \subseteq Members /\ \A m \in DOMAIN Rows[s] : Rows[s][m] \in Nat
    /\ Year \in [Sources -> 1..3] /\ Cutoff \in [Sources -> Dates]
BalanceRow == [import : Sources, points : Nat, cutoff : Dates]
ASSUME DistinctAssumption == None \notin Sources \cup Ops \cup Writers \cup BalanceRow /\ Batchers \cap Confirmers = {}

VARIABLES
    status,     \* status of each source's own header, in *_opening_imports or *_year_imports
    deficit,    \* status of the ':deficit' header that a DEFICIT source has in *_opening_imports
    prior,      \* what a year import's rows say of each learner's balance when it was registered
    balance,    \* learning_credit_opening_balances
    added,      \* learning_credit_opening_adjustments
    allocated,  \* learning_credit_year_allocations
    progress,   \* learning_credit_class_progress of the class: year, or None
    entries,    \* learning_credit_entries, POSTED or REVERSED
    op,         \* local state of each request
    writer      \* local state of each transaction that posts a regular entry

stored == <<status, deficit, prior, balance, added, allocated, progress>>
vars == <<status, deficit, prior, balance, added, allocated, progress, entries, op, writer>>

Statuses == {"NONE", "PENDING_APPROVAL", "APPROVED", "POSTED", "CANCELLED"}
Free == [pc |-> "idle", what |-> "cancel", src |-> None, read |-> <<>>]
Quiet == [pc |-> "idle", member |-> None, date |-> 0, seen |-> None]

Listed(s) == DOMAIN Rows[s]

Init ==
    /\ status = [s \in Sources |-> "NONE"]
    /\ deficit = [s \in Sources |-> "NONE"]
    /\ prior = [s \in Sources |-> <<>>]
    /\ balance = [m \in Members |-> None]
    /\ added = {} /\ allocated = {} /\ progress = None /\ entries = {}
    /\ op = [o \in Ops |-> Free]
    /\ writer = [w \in Writers |-> Quiet]

(***************************************************************************)
(* What a request reads.                                                   *)
(***************************************************************************)
\* _validate: entries up to the cutoff would be counted twice.
Overlap(m, cutoff) == \E e \in entries : e.member = m /\ e.date <= cutoff

\* The header a balance was posted under.
Header(i) == IF Kind[i] = "DEFICIT" THEN deficit[i] ELSE status[i]

\* The points of some rows: each row counts as often as it has points.
PointsOf(S) == Cardinality(UNION {{a} \X (1 .. a.points) : a \in S})

\* Adjustments count only under two POSTED headers, balances under any.
Confirmed(m) == {a \in added : a.member = m /\ status[a.by] = "POSTED" /\ deficit[a.by] = "POSTED"}
OpeningTotal(m) ==
    (IF balance[m] = None THEN 0 ELSE balance[m].points) + PointsOf(Confirmed(m))

\* _balance raises unless the learner has no balance, or one of a POSTED import with this cutoff.
Sound(m, cutoff) ==
    balance[m] = None \/ (Header(balance[m].import) = "POSTED" /\ balance[m].cutoff = cutoff)

\* _progress
SameProgress(s) == progress = None \/ progress = [year |-> Year[s], cutoff |-> Cutoff[s]]

AllocationsOf(m, i) == {a \in allocated : a.member = m /\ a.opening = i}

\* The rows of _validate: neither a balance nor an overlapping entry.
OpeningHolds(s) == \A m \in Listed(s) : balance[m] = None /\ ~Overlap(m, Cutoff[s])

\* Faulty variant: the sum of what is allocated is not compared with the balance.
FitsYear(s, m, i) ==
    /\ balance[m] # None /\ balance[m].import = i /\ balance[m].cutoff = Cutoff[s]
    /\ \A a \in AllocationsOf(m, i) : a.year # Year[s]

\* A classifying row fits what is left of the learner's balance of import i.
Fits(s, m, i) ==
    /\ balance[m] # None /\ balance[m].import = i /\ balance[m].cutoff = Cutoff[s]
    /\ \A a \in AllocationsOf(m, i) : a.year # Year[s]
    /\ Rows[s][m] + PointsOf(AllocationsOf(m, i)) <= balance[m].points

ClassifyHolds(s, p) == SameProgress(s) /\ \A m \in Listed(s) : Fits(s, m, p[m].import)

\* A deficit row still adds to what the learner's balance was.
DeficitHolds(s, p) ==
    /\ SameProgress(s)
    /\ \A m \in Listed(s) :
         /\ Sound(m, Cutoff[s]) /\ ~Overlap(m, Cutoff[s])
         /\ p[m].points = OpeningTotal(m) /\ OpeningTotal(m) <= Rows[s][m]
         /\ p[m].import = IF balance[m] = None THEN None ELSE balance[m].import
         /\ \A a \in allocated : a.member # m

Holds(s, p) ==
    CASE Kind[s] = "OPENING" -> OpeningHolds(s)
      [] Kind[s] = "CLASSIFY_ONLY" -> ClassifyHolds(s, p)
      [] Kind[s] = "DEFICIT" -> DeficitHolds(s, p)

\* The reference to each learner's balance that a year import's rows keep.
Reference(s) ==
    IF Kind[s] = "OPENING" THEN <<>>
    ELSE [m \in Listed(s) |->
            [import |-> IF balance[m] = None THEN None ELSE balance[m].import,
             points |-> IF Kind[s] = "DEFICIT" THEN OpeningTotal(m) ELSE 0]]

(***************************************************************************)
(* Locks.  A request holds the named lock until its statements are done    *)
(* ("written"), its row locks until it commits.                            *)
(***************************************************************************)
LockFree == \A o \in Ops : op[o].pc \notin {"open", "checked"}

\* Faulty variant: the rows of the listed learners are not locked.
LocksNobody(o) == FALSE
LocksMembers(o) == op[o].what = "post" \/ (op[o].what = "approve" /\ Kind[op[o].src] # "OPENING")
HeldBy(o) == IF op[o].pc \in {"checked", "written"} /\ LocksMembers(o) THEN Listed(op[o].src) ELSE {}
LockedByOps(o) == UNION {HeldBy(p) : p \in Ops \ {o}}
LockedByWriters(w) == {writer[v].member : v \in {u \in Writers \ {w} : writer[u].pc = "guarded"}}

\* Another request's uncommitted update of the same header, or uncommitted class progress.
Written(o) == {p \in Ops \ {o} : op[p].pc = "written"}
HeaderBusy(o) == \E p \in Written(o) : op[p].src = op[o].src
ProgressBusy(o) == \E p \in Written(o) : op[p].what = "post" /\ Kind[op[p].src] # "OPENING"

(***************************************************************************)
(* A request: begin, check, write, commit; or fail anywhere before.        *)
(***************************************************************************)
\* Faulty variant: a source may be posted without approval.
ProceedsUnapproved(what, s) ==
    CASE what = "register" -> status[s] = "NONE"
      [] what = "approve" -> status[s] = "PENDING_APPROVAL"
      [] OTHER -> status[s] \in {"PENDING_APPROVAL", "APPROVED"}

\* Whether the header that was read leads past the early returns of action and register.
Proceeds(what, s) ==
    /\ Kind[s] = "DEFICIT" => deficit[s] = status[s]
    /\ CASE what = "register" -> status[s] = "NONE"
         [] what = "approve" -> status[s] = "PENDING_APPROVAL"
         [] what = "post" -> status[s] = "APPROVED"
         [] what = "cancel" -> status[s] \in {"PENDING_APPROVAL", "APPROVED"}

Begin(o, what, s) ==
    /\ op[o].pc = "idle" /\ LockFree /\ Proceeds(what, s)
    /\ op' = [op EXCEPT ![o] = [pc |-> "open", what |-> what, src |-> s, read |-> <<>>]]
    /\ UNCHANGED <<stored, entries, writer>>

\* The checks, under the row locks of the listed learners where the code takes them.
Check(o) ==
    LET s == op[o].src
        p == IF op[o].what = "register" THEN Reference(s) ELSE prior[s]
    IN  /\ op[o].pc = "open" /\ op[o].what # "cancel"
        /\ LocksMembers(o) =>
             Listed(s) \cap (LockedByOps(o) \cup LockedByWriters(None)) = {}
        /\ op' = [op EXCEPT ![o] = IF Holds(s, p) THEN [@ EXCEPT !.pc = "checked", !.read = p] ELSE Free]
        /\ UNCHANGED <<stored, entries, writer>>

\* The last statement: the named lock is released, the rows stay locked.
Write(o) ==
    /\ op[o].pc = IF op[o].what = "cancel" THEN "open" ELSE "checked"
    /\ ~HeaderBusy(o)
    /\ op[o].what = "register" => status[op[o].src] = "NONE"
    /\ op[o].what = "post" /\ Kind[op[o].src] # "OPENING" => ~ProgressBusy(o)
    /\ op' = [op EXCEPT ![o].pc = "written"]
    /\ UNCHANGED <<stored, entries, writer>>

\* Faulty variant: the update names no old status.
ReplaceAny(s, old, new) == new

\* Updates of an opening import name the status they replace, those of a year import do not.
Replace(s, old, new) == IF Kind[s] = "OPENING" /\ status[s] # old THEN status[s] ELSE new
NewStatus(what, s) ==
    CASE what = "register" -> "PENDING_APPROVAL"
      [] what = "cancel" -> "CANCELLED"
      [] what = "approve" -> Replace(s, "PENDING_APPROVAL", "APPROVED")
      [] what = "post" -> Replace(s, "APPROVED", "POSTED")

\* A deficit import's second header gets the same value in the same transaction.
NewDeficit(what, s) == IF Kind[s] = "DEFICIT" THEN NewStatus(what, s) ELSE deficit[s]

NewBalances(s) ==
    [m \in Members |->
       IF m \in Listed(s) /\ (Kind[s] = "OPENING" \/ (Kind[s] = "DEFICIT" /\ prior[s][m].import = None))
       THEN [import |-> s, points |-> Rows[s][m], cutoff |-> Cutoff[s]]
       ELSE balance[m]]
\* Faulty variant: where a balance is found, the year's total is added to it instead of what it lacks.
NewAdjustmentsInFull(s) ==
    {[member |-> m, by |-> s, points |-> Rows[s][m]] :
       m \in {n \in Listed(s) : prior[s][n].import # None /\ Rows[s][n] > prior[s][n].points}}

\* What the earlier balance lacks.
NewAdjustments(s) ==
    {[member |-> m, by |-> s, points |-> Rows[s][m] - prior[s][m].points] :
       m \in {n \in Listed(s) : prior[s][n].import # None /\ Rows[s][n] > prior[s][n].points}}

\* Faulty variant: an allocation refers to the earlier balance also when there was none.
NewAllocationsOfPrior(s) ==
    {[member |-> m, opening |-> prior[s][m].import, year |-> Year[s], points |-> Rows[s][m], by |-> s] :
       m \in Listed(s)}

NewAllocations(s) ==
    {[member |-> m, opening |-> IF Kind[s] = "DEFICIT" THEN s ELSE prior[s][m].import,
      year |-> Year[s], points |-> Rows[s][m], by |-> s] : m \in Listed(s)}

\* The rows a post inserts.
Insert(s) ==
    /\ balance' = NewBalances(s)
    /\ added' = IF Kind[s] = "DEFICIT" THEN added \cup NewAdjustments(s) ELSE added
    /\ allocated' = IF Kind[s] = "OPENING" THEN allocated ELSE allocated \cup NewAllocations(s)
    /\ progress' = IF Kind[s] = "OPENING" \/ progress # None THEN progress
                   ELSE [year |-> Year[s], cutoff |-> Cutoff[s]]

Commit(o) ==
    LET s == op[o].src
    IN  /\ op[o].pc = "written"
        /\ status' = [status EXCEPT ![s] = NewStatus(op[o].what, s)]
        /\ deficit' = [deficit EXCEPT ![s] = NewDeficit(op[o].what, s)]
        /\ prior' = IF op[o].what = "register" THEN [prior EXCEPT ![s] = op[o].read] ELSE prior
        /\ IF op[o].what = "post" THEN Insert(s) ELSE UNCHANGED <<balance, added, allocated, progress>>
        /\ op' = [op EXCEPT ![o] = Free]
        /\ UNCHANGED <<entries, writer>>

\* An error, a lock wait that is too long, a duplicate key, a lost connection: all is rolled back.
Abort(o) ==
    /\ op[o].pc # "idle"
    /\ op' = [op EXCEPT ![o] = Free]
    /\ UNCHANGED <<stored, entries, writer>>

(***************************************************************************)
(* Regular entries.  A batch locks the learner before it reads anything; a *)
(* confirmation of attendance has read before, so its later reads show the *)
(* database as it was then (REPEATABLE READ).                              *)
(***************************************************************************)
\* _guard_cutoff
After(date, b) == b # None => date > b.cutoff

BatchGuard(w, m, d) ==
    /\ writer[w].pc = "idle" /\ m \notin LockedByOps(None) \cup LockedByWriters(w)
    /\ After(d, balance[m])
    /\ writer' = [writer EXCEPT ![w] = [pc |-> "guarded", member |-> m, date |-> d, seen |-> None]]
    /\ UNCHANGED <<stored, entries, op>>

ConfirmRead(w, m, d) ==
    /\ writer[w].pc = "idle"
    /\ writer' = [writer EXCEPT ![w] = [pc |-> "read", member |-> m, date |-> d, seen |-> balance[m]]]
    /\ UNCHANGED <<stored, entries, op>>

ConfirmGuard(w) ==
    /\ writer[w].pc = "read"
    /\ writer[w].member \notin LockedByOps(None) \cup LockedByWriters(w)
    /\ After(writer[w].date, writer[w].seen)
    /\ writer' = [writer EXCEPT ![w].pc = "guarded"]
    /\ UNCHANGED <<stored, entries, op>>

PostRegular(w) ==
    /\ writer[w].pc = "guarded"
    /\ entries' = entries \cup {[member |-> writer[w].member, date |-> writer[w].date,
                                 via |-> IF w \in Batchers THEN "BATCH" ELSE "CONFIRMATION"]}
    /\ writer' = [writer EXCEPT ![w] = Quiet]
    /\ UNCHANGED <<stored, op>>

GiveUp(w) ==
    /\ writer[w].pc # "idle"
    /\ writer' = [writer EXCEPT ![w] = Quiet]
    /\ UNCHANGED <<stored, entries, op>>

Next ==
    \/ \E o \in Ops :
         \/ \E what \in {"register", "approve", "post", "cancel"}, s \in Sources : Begin(o, what, s)
         \/ Check(o) \/ Write(o) \/ Commit(o) \/ Abort(o)
    \/ \E w \in Batchers, m \in Members, d \in Dates : BatchGuard(w, m, d)
    \/ \E w \in Confirmers, m \in Members, d \in Dates : ConfirmRead(w, m, d)
    \/ \E w \in Confirmers : ConfirmGuard(w)
    \/ \E w \in Writers : PostRegular(w) \/ GiveUp(w)

Spec == Init /\ [][Next]_vars

(***************************************************************************)
(* Properties.                                                             *)
(***************************************************************************)
\* Every variable keeps its shape; a balance, adjustment or allocation has a registered source.
TypeOK ==
    /\ status \in [Sources -> Statuses] /\ deficit \in [Sources -> Statuses]
    /\ \A s \in Sources : prior[s] = <<>> \/ prior[s] \in [Listed(s) -> [import : Sources \cup {None}, points : Nat]]
    /\ balance \in [Members -> BalanceRow \cup {None}]
    /\ added \subseteq [member : Members, by : Sources, points : Nat]
    /\ allocated \subseteq [member : Members, opening : Sources, year : 1..3, points : Nat, by : Sources]
    /\ progress \in [year : 1..3, cutoff : Dates] \cup {None}
    /\ entries \subseteq [member : Members, date : Dates, via : {"BATCH", "CONFIRMATION"}]
    /\ \A o \in Ops : op[o] = Free \/
         (op[o].pc \in {"open", "checked", "written"} /\ op[o].src \in Sources
            /\ op[o].what \in {"register", "approve", "post", "cancel"})
    /\ \A w \in Writers : writer[w] = Quiet \/
         (writer[w].pc \in {"read", "guarded"} /\ writer[w].member \in Members /\ writer[w].date \in Dates)

\* A credit is never counted twice: an entry that a batch posts for a learner with an opening
\* balance lies after the cutoff of that balance, whichever of the two was written first.
BatchEntriesAreLater ==
    \A e \in entries : e.via = "BATCH" /\ balance[e.member] # None => e.date > balance[e.member].cutoff

\* A POSTED import has taken effect for all of its learners, an import that was never approved
\* for none, and what it has recorded is what its rows say.
WholeImports ==
    \A s \in Sources :
        /\ status[s] = "POSTED" =>
             \A m \in Listed(s) :
               IF Kind[s] = "OPENING"
               THEN balance[m] = [import |-> s, points |-> Rows[s][m], cutoff |-> Cutoff[s]]
               ELSE \E a \in allocated : a.member = m /\ a.by = s /\ a.points = Rows[s][m]
        /\ status[s] \in {"NONE", "PENDING_APPROVAL"} =>
             (\A m \in Members : balance[m] # None => balance[m].import # s)
               /\ \A a \in allocated : a.by # s

\* Nothing that runs beside a cancellation brings a cancelled opening import back.
CancelledOpeningStays ==
    [][\A s \in Sources : Kind[s] = "OPENING" /\ status[s] = "CANCELLED" => status'[s] = "CANCELLED"]_vars

\* What a learner is shown as confirmed is at any moment the figure of exactly one approved file: never the sum of two,
\* also when a deficit import is cancelled behind its posting, or the balance it was compared with came after it.
TotalsStated ==
    \A m \in Members : OpeningTotal(m) # 0 =>
        \E s \in Sources :
            /\ m \in Listed(s) /\ Kind[s] # "CLASSIFY_ONLY" /\ OpeningTotal(m) = Rows[s][m]
            /\ status[s] \notin {"NONE", "PENDING_APPROVAL"}

\* A POSTED deficit import has brought each of its learners' totals to exactly the year's total,
\* whatever was registered, posted or cancelled between its registration and its posting.
TotalsReconciled ==
    \A s \in Sources : Kind[s] = "DEFICIT" /\ status[s] = "POSTED" =>
        \A m \in Listed(s) : OpeningTotal(m) = Rows[s][m]

\* What is classified out of one import's balance never exceeds that balance.
ClassifiedWithinBalance ==
    \A m \in Members : balance[m] # None =>
        PointsOf(AllocationsOf(m, balance[m].import)) <= balance[m].points

\* _checked, line 244: a year that is allocated is not imported again ("这一年度已归属，不可重复导入").
YearAllocatedOnce ==
    \A a, b \in allocated : a.member = b.member /\ a.year = b.year => a = b

\* What every register of confirmed credits promises, as one property.
ImportsSafe == TypeOK /\ TotalsReconciled /\ WholeImports /\ ClassifiedWithinBalance
=============================================================================
