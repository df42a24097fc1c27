----------------------------- MODULE MonthlyReports -----------------------------
(***************************************************************************)
(* The monthly workbooks of the centres: prepared on request or by the     *)
(* scheduler, generated under a lease and published in an object store     *)
(* whose only means of order are conditional writes.                       *)
(*                                                                         *)
(* Source: app/services/monthly_core_reports.py,                           *)
(* cloudfunctions/study-evidence-cleanup/report-dispatch.js and            *)
(* report-storage.js.                                                      *)
(*                                                                         *)
(* One month.  An etag is the number of a state's write, an attempt's      *)
(* name the number of the write that began it.  No two exports are alike:  *)
(* what a workbook holds is the number of the lease it was made under.     *)
(***************************************************************************)
EXTENDS Integers, SqlNull

CONSTANTS
    Centers,    \* the scheduler looks at 1 .. Centers in order
    Workers,    \* invocations of the function and requests of the page
    Tries,      \* attempts after which the scheduler gives up: 3 in the code
    ByHand,   \* bound on attempts that are begun by hand
    Events,     \* bound on dispatched events of a centre
    Faults      \* bound on crashes and on requests to the store that fail or whose answer is lost

ASSUME ReportsAssumption ==
    {Centers, Tries, ByHand, Events} \subseteq Nat \ {0} /\ Faults \in Nat

VARIABLES
    state,    \* state.json of each centre, None before the first attempt
    stale,    \* whether it is older than LEASE
    book,     \* <attempt>.xlsx of each centre: pairs of an attempt and what was written
    events,   \* dispatched events that are not delivered
    call,     \* local state of each worker
    faults

reportVars == <<state, stale, book, events, call, faults>>

Center == 1 .. Centers
\* state.json; a centre without one has None.
ReportRow == [status : {"PENDING", "RUNNING", "READY", "FAILED"}, attempt : Nat, count : Nat, etag : Nat, sha : Nat \cup {None}]
ASSUME NoReportAssumption == None \notin Nat \cup ReportRow

Resting == [pc |-> "idle", center |-> 1, seen |-> None, holds |-> 0]

ReportsInit ==
    /\ state = [c \in Center |-> None] /\ stale = [c \in Center |-> FALSE]
    /\ book = [c \in Center |-> {}] /\ events = [c \in Center |-> 0]
    /\ call = [w \in Workers |-> Resting] /\ faults = 0

\* What was read is only kept by a worker that has the lease.
Leased == {"generate", "put", "publish", "failing"}
Step(w, pc) ==
    call' = [call EXCEPT ![w] = CASE pc = "idle" -> Resting
                                  [] pc \in Leased -> [@ EXCEPT !.pc = pc]
                                  [] OTHER -> [Resting EXCEPT !.pc = pc, !.center = call[w].center]]

\* _public
Shown(c) ==
    CASE state[c] = None -> "MISSING"
      [] state[c] # None /\ state[c].status \in {"PENDING", "RUNNING"} /\ stale[c] -> "EXPIRED"
      [] OTHER -> state[c].status

(***************************************************************************)
(* The store.                                                              *)
(***************************************************************************)
\* Faulty variant: the state is written whatever it has become.
Unconditional(c, seen) == TRUE
\* A state is written with if-match and the etag that was seen, or with if-none-match.
Matches(c, seen) == state[c] = seen

\* _save: it is written, refused because another was faster, or fails; what failed may have been written.
Write(w, c, new) ==
    /\ state' = [state EXCEPT ![c] = [new EXCEPT !.etag = IF state[c] = None THEN 1 ELSE state[c].etag + 1]]
    /\ stale' = [stale EXCEPT ![c] = FALSE]
Save(w, new, done, conflict, failed) ==
    LET c == call[w].center
        matches == Matches(c, call[w].seen)
    IN  /\ \/ matches /\ Write(w, c, new) /\ faults' = faults
              /\ IF done = "generate" THEN call' = [call EXCEPT ![w].pc = done, ![w].seen = state'[c]] ELSE Step(w, done)
           \/ ~matches /\ Step(w, conflict) /\ UNCHANGED <<state, stale, faults>>
           \/ faults < Faults /\ faults' = faults + 1 /\ Step(w, failed)
              /\ (UNCHANGED <<state, stale>> \/ (matches /\ Write(w, c, new)))
        /\ UNCHANGED <<book, events>>

\* Faulty variant: a count that is not there yet is written back as it was read.
SameCount(seen) == IF seen = None THEN 0 ELSE seen.count
NextCount(seen) == IF seen = None THEN 1 ELSE seen.count + 1
\* A new attempt.
Pending(seen) == [status |-> "PENDING", attempt |-> IF seen = None THEN 1 ELSE seen.etag + 1,
                  count |-> NextCount(seen), etag |-> 0, sha |-> None]

(***************************************************************************)
(* prepare                                                                 *)
(***************************************************************************)
StartPrepare(w, c, refresh) ==
    /\ call[w].pc = "idle"
    /\ Shown(c) \in {"MISSING", "EXPIRED", "FAILED"} \/ (Shown(c) = "READY" /\ refresh)
    /\ NextCount(state[c]) <= ByHand
    /\ call' = [call EXCEPT ![w] = [@ EXCEPT !.pc = "prepare", !.center = c, !.seen = state[c]]]
    /\ UNCHANGED <<state, stale, book, events, faults>>
Prepare(w) == call[w].pc = "prepare" /\ Save(w, Pending(call[w].seen), "dispatch", "idle", "idle")

\* _dispatch: "Keep an uncertain dispatch pending: a worker may already be running."
SendEvent(w, accepted) ==
    /\ call[w].pc = "dispatch" /\ Step(w, "idle")
    /\ events' = [events EXCEPT ![call[w].center] = IF accepted /\ @ < Events THEN @ + 1 ELSE @]
    /\ UNCHANGED <<state, stale, book, faults>>

(***************************************************************************)
(* sweep                                                                   *)
(***************************************************************************)
StartSweep(w) ==
    /\ call[w].pc = "idle" /\ Step(w, "scan")
    /\ UNCHANGED <<state, stale, book, events, faults>>

ScanOn(w) == call' = [call EXCEPT ![w] = IF @.center = Centers THEN Resting ELSE [Resting EXCEPT !.pc = "scan", !.center = call[w].center + 1]]
\* Faulty variant: an attempt whose worker is gone is left alone.
WithoutExpired == {"MISSING", "FAILED"}
Retried == {"MISSING", "EXPIRED", "FAILED"}
Scan(w) ==
    LET status == Shown(call[w].center) IN
    /\ call[w].pc = "scan"
    /\ CASE status \in Retried -> Step(w, "again")
         [] status = "PENDING" -> Step(w, "read")
         [] OTHER -> ScanOn(w)
    /\ UNCHANGED <<state, stale, book, events, faults>>

\* The state is read once more: what the scan has seen may be over.
ScanAgain(w) ==
    LET seen == state[call[w].center] IN
    /\ call[w].pc = "again"
    /\ IF seen # None /\ seen.count >= Tries THEN ScanOn(w)
       ELSE call' = [call EXCEPT ![w].pc = "claim", ![w].seen = seen]
    /\ UNCHANGED <<state, stale, book, events, faults>>
Claim(w) == call[w].pc = "claim" /\ Save(w, Pending(call[w].seen), "read", "read", "idle")

(***************************************************************************)
(* run                                                                     *)
(***************************************************************************)
Deliver(w, c) ==
    /\ call[w].pc = "idle" /\ events[c] > 0
    /\ events' = [events EXCEPT ![c] = @ - 1]
    /\ call' = [call EXCEPT ![w] = [@ EXCEPT !.pc = "read", !.center = c]]
    /\ UNCHANGED <<state, stale, book, faults>>

Read(w) ==
    LET c == call[w].center IN
    /\ call[w].pc = "read"
    /\ IF state[c] # None /\ Shown(c) \in {"PENDING", "EXPIRED"}
       THEN call' = [call EXCEPT ![w].pc = "lease", ![w].seen = state[c]]
       ELSE Step(w, "idle")
    /\ UNCHANGED <<state, stale, book, events, faults>>
Lease(w) == call[w].pc = "lease" /\ Save(w, [call[w].seen EXCEPT !.status = "RUNNING"], "generate", "idle", "idle")

\* export_monthly; or the operator's scope or the period has changed, or the export fails.
Generate(w) ==
    /\ call[w].pc = "generate"
    /\ \/ call' = [call EXCEPT ![w].pc = "put", ![w].holds = call[w].seen.etag]
       \/ Step(w, "failing")
    /\ UNCHANGED <<state, stale, book, events, faults>>

\* Faulty variant: the workbook is written without a condition.
Overwrite(c, a) == TRUE
\* if-none-match '*'
Absent(c, a) == \A b \in book[c] : b[1] # a
\* The object appears at once, or another has it already; a failed request may have written it.
Put(w) ==
    LET c == call[w].center
        a == call[w].seen.attempt
        written == book' = [book EXCEPT ![c] = {b \in @ : b[1] # a} \cup {<<a, call[w].holds>>}]
    IN  /\ call[w].pc = "put"
        /\ \/ Absent(c, a) /\ written /\ Step(w, "publish") /\ faults' = faults
           \/ ~Absent(c, a) /\ book' = book /\ Step(w, "failing") /\ faults' = faults
           \/ faults < Faults /\ faults' = faults + 1 /\ Step(w, "failing") /\ (book' = book \/ (Absent(c, a) /\ written))
        /\ UNCHANGED <<state, stale, events>>

Publish(w) ==
    /\ call[w].pc = "publish"
    /\ Save(w, [call[w].seen EXCEPT !.status = "READY", !.sha = call[w].holds], "idle", "failing", "failing")
RecordFailure(w) == call[w].pc = "failing" /\ Save(w, [call[w].seen EXCEPT !.status = "FAILED"], "idle", "idle", "idle")

(***************************************************************************)
(* The world.                                                              *)
(***************************************************************************)
Expire(c) ==
    /\ state[c] # None /\ state[c].status \in {"PENDING", "RUNNING"} /\ ~stale[c]
    /\ stale' = [stale EXCEPT ![c] = TRUE]
    /\ UNCHANGED <<state, book, events, call, faults>>
Crash(w) ==
    /\ call[w].pc # "idle" /\ faults < Faults /\ faults' = faults + 1 /\ Step(w, "idle")
    /\ UNCHANGED <<state, stale, book, events>>

Work(w) ==
    \/ Prepare(w) \/ Scan(w) \/ ScanAgain(w) \/ Claim(w) \/ Read(w) \/ Lease(w)
    \/ Generate(w) \/ Put(w) \/ Publish(w) \/ RecordFailure(w) \/ (\E accepted \in BOOLEAN : SendEvent(w, accepted))

ReportsNext ==
    \/ \E w \in Workers :
         \/ Work(w) \/ StartSweep(w) \/ Crash(w)
         \/ \E c \in Center : Deliver(w, c) \/ \E refresh \in BOOLEAN : StartPrepare(w, c, refresh)
    \/ \E c \in Center : Expire(c)

\* The timer sweeps again and again, an invocation goes on until it ends or dies, and time passes.
ReportsFairness ==
    /\ \A w \in Workers : WF_reportVars(Work(w)) /\ WF_reportVars(StartSweep(w))
    /\ \A c \in Center : WF_reportVars(Expire(c))

ReportsSpec == ReportsInit /\ [][ReportsNext]_reportVars /\ ReportsFairness

(***************************************************************************)
(* Properties.                                                             *)
(***************************************************************************)
ReportsTypeOK ==
    /\ \A c \in Center :
         /\ state[c] # None =>
               /\ state[c] \in ReportRow /\ state[c].count >= 1 /\ state[c].attempt \in 1 .. state[c].etag
               /\ (state[c].sha # None) <=> (state[c].status = "READY")
         /\ events[c] \in 0 .. Events
    /\ faults \in 0 .. Faults
    /\ \A w \in Workers : call[w].center \in Center

\* A report that is READY can be downloaded: its attempt's workbook is the one whose digest was published ("报表文件校验失败"
\* is never told), also when a worker comes back after its lease was given to another one of the same attempt.
ReadyIsWhole == \A c \in Center : state[c] # None /\ state[c].status = "READY" => <<state[c].attempt, state[c].sha>> \in book[c]

\* A published report is only withdrawn by a new attempt: a worker that has lost its lease neither fails nor replaces it.
ReadyIsKept ==
    [][\A c \in Center : state[c] # None /\ state[c].status = "READY" /\ state'[c] # state[c] =>
          state'[c].status = "PENDING" /\ state'[c].count = state[c].count + 1]_reportVars

\* The scheduler gets every centre's report published, or gives up after three attempts, however requests, events and
\* workers are lost.
SweepSettles == \A c \in Center : <>(state[c] # None /\ (state[c].status = "READY" \/ state[c].count >= Tries))

\* Together: a report that is READY can be downloaded and is only withdrawn by a new attempt.
ReportsSafe == [](ReportsTypeOK /\ ReadyIsWhole) /\ ReadyIsKept
=============================================================================
