--------------------------- MODULE CreditPostingJobs ---------------------------
(***************************************************************************)
(* Background posting of one source import: a confirmation is stored as a  *)
(* job, an event starts a bounded run of it, a run claims the job with a   *)
(* ten-minute lease, posts one step of one batch and finishes the claim    *)
(* with an outcome, twice at most, before it asks for the next event.      *)
(*                                                                         *)
(* Source: app/services/credit_posting_jobs.py, with process, _receipt and *)
(* create_batches of credit_source_imports.py and the event function of    *)
(* cloudfunctions/study-evidence-cleanup.  Each database transaction (and  *)
(* each read on a connection of its own) is one step.  A batch's items are *)
(* posted in order, one per step; how one step is posted under locks is    *)
(* the subject of CreditSettlement.                                        *)
(***************************************************************************)
EXTENDS Integers, FiniteSets

CONSTANTS
    Batches,   \* settlement batches of the import, by id
    First,     \* those linked when the import is first confirmed
    Size,      \* [Batches -> Nat]: proposed_entry_count
    Clients,   \* users at the import's page
    Runs,      \* concurrent calls of run_job or of process
    None,      \* SQL NULL
    Faults     \* what may happen: "CRASH", "SLOW", "LOSS", "ERROR", "PAUSE", "PREVIEW", "DIRECT"

ASSUME BatchAssumption == Batches \subseteq Nat /\ IsFiniteSet(Batches) /\ First \subseteq Batches
ASSUME SizeAssumption == Size \in [Batches -> Nat]
ASSUME NoneAssumption == None \notin Runs \cup Batches

VARIABLES
    job,      \* learning_credit_posting_jobs: the import's only row
    linked,   \* learning_credit_source_batches: the batches of the import
    batch,    \* learning_credit_settlement_batches
    events,   \* confirmations an event is on its way for
    client,   \* local state of each user's request
    run       \* local state of each run

vars == <<job, linked, batch, events, client, run>>

(***************************************************************************)
(* Rows.  A settlement fingerprint stands for the batches it was computed  *)
(* from.  job.live says that lease_until lies ahead; batch[b].n counts the *)
(* items that are POSTED, batch[b].posted is the stored total.             *)
(***************************************************************************)
NoJob == [st |-> "NONE", fp |-> {}, resume |-> FALSE, pause |-> FALSE,
          holder |-> None, live |-> FALSE]
Away == [pc |-> "idle", fp |-> {}, state |-> "READY", posted |-> 0]
Idle == [pc |-> "idle", direct |-> FALSE, fp |-> {}, left |-> 0, resume |-> FALSE, b |-> None,
         at |-> 0, ok |-> TRUE, seen |-> 0, count |-> 0, out |-> "NEEDS_REVIEW"]

Active == {b \in linked : Size[b] > 0}
Shown(b) == IF batch[b].st = "POSTING" THEN batch[b].n ELSE batch[b].posted

\* posting_progress of the receipt.
PostedEntries == Cardinality(UNION {{b} \X (1..Shown(b)) : b \in Active})
Progress ==
    CASE \E b \in Active : batch[b].st = "POSTING" -> "POSTING"
      [] \A b \in Active : batch[b].st # "POSTING" /\ \E c \in Active : batch[c].st = "PARTIAL_FAILED"
           -> "PARTIAL_FAILED"
      [] \A b \in Active : batch[b].st = "POSTED" -> "COMPLETE"
      [] OTHER -> "READY"
Completed == Progress = "COMPLETE"

\* public: an expired lease is shown as NEEDS_REVIEW before anybody writes that down.
Expired == job.st = "RUNNING" /\ ~job.live
ShownStatus == IF Expired THEN "NEEDS_REVIEW" ELSE job.st
Working(st) == st \in {"PENDING", "RUNNING"}

Stopped(st) == [job EXCEPT !.st = st, !.holder = None, !.live = FALSE]

Init ==
    /\ job = NoJob
    /\ linked = First
    /\ batch = [b \in Batches |->
                  [st |-> IF b \in First THEN "DRY_RUN" ELSE "NONE",
                   n |-> 0, posted |-> 0, beat |-> FALSE]]
    /\ events = {}
    /\ client = [c \in Clients |-> Away]
    /\ run = [r \in Runs |-> Idle]

(***************************************************************************)
(* A user's requests.                                                      *)
(***************************************************************************)
\* get_import: every request reads the receipt before its own transaction.
ReadReceipt(c) ==
    /\ client[c].pc = "idle" /\ linked # {}
    /\ client' = [client EXCEPT ![c] =
                    [pc |-> "read", fp |-> linked, state |-> Progress, posted |-> PostedEntries]]
    /\ UNCHANGED <<job, linked, batch, events, run>>

LeaveReceipt(c) ==
    /\ client[c].pc = "read"
    /\ client' = [client EXCEPT ![c] = Away]
    /\ UNCHANGED <<job, linked, batch, events, run>>

\* submit: a job that waits or runs is left alone; any other is replaced by this confirmation.
Submit(c, resume) ==
    LET C == client[c]
        working == Working(ShownStatus)
        st == IF C.state = "COMPLETE" THEN "SUCCEEDED" ELSE "PENDING"
    IN  /\ C.pc = "read"
        /\ IF working THEN job.fp = C.fp
           ELSE C.state # "POSTING" /\ (C.state = "PARTIAL_FAILED" => resume)
        /\ job' = IF working THEN job
                  ELSE [NoJob EXCEPT !.st = st, !.fp = C.fp, !.resume = resume]
        /\ client' = [client EXCEPT ![c] =
                        IF job'.st = "PENDING" THEN [Away EXCEPT !.pc = "trigger", !.fp = C.fp]
                        ELSE Away]
        /\ UNCHANGED <<linked, batch, events, run>>

\* _trigger: the event was accepted ...
Trigger(c) ==
    /\ client[c].pc = "trigger"
    /\ events' = events \cup {client[c].fp}
    /\ client' = [client EXCEPT ![c] = Away]
    /\ UNCHANGED <<job, linked, batch, run>>

\* ... or no usable reply came back, whether or not an event was sent.
TriggerUncertain(c) ==
    /\ "LOSS" \in Faults /\ client[c].pc = "trigger"
    /\ events' \in {events, events \cup {client[c].fp}}
    /\ client' = [client EXCEPT ![c].pc = "uncertain"]
    /\ UNCHANGED <<job, linked, batch, run>>

\* submit_and_dispatch: work nobody has claimed waits for another confirmation.
DispatchUncertain(c) ==
    /\ client[c].pc = "uncertain"
    /\ job' = IF job.st = "PENDING" /\ job.fp = client[c].fp
              THEN [job EXCEPT !.st = "NEEDS_REVIEW"] ELSE job
    /\ client' = [client EXCEPT ![c] = Away]
    /\ UNCHANGED <<linked, batch, events, run>>

\* pause
Pause ==
    /\ "PAUSE" \in Faults
    /\ Working(job.st)
    /\ job' = [job EXCEPT !.pause = TRUE, !.st = IF @ = "PENDING" THEN "PAUSED" ELSE @]
    /\ UNCHANGED <<linked, batch, events, client, run>>

\* Faulty variant: a stored total of zero is taken for "no entry".
NothingTotalled(fp, new) == \A b \in fp : batch[b].posted = 0
\* create_batches reads the linked rows again under lock, and what it replaces must
\* still be waiting.
Replaceable(fp, new) ==
    /\ \A b \in fp : batch[b].st \notin {"POSTING", "PARTIAL_FAILED", "POSTED"} /\ batch[b].posted = 0
    /\ \A b \in fp \ new : batch[b].st = "DRY_RUN"

\* create_batches: the previews of the source, regenerated, replace those linked.
CreateBatches(c, new) ==
    LET C == client[c]
        old == C.fp \ new
    IN  /\ "PREVIEW" \in Faults
        /\ C.pc = "read" /\ C.state = "READY" /\ C.posted = 0
        /\ new # {} /\ \A b \in new : b \in C.fp \/ batch[b].st = "NONE"
        /\ Replaceable(C.fp, new)
        /\ linked' = (linked \cup new) \ old
        /\ batch' = [b \in Batches |->
                       [batch[b] EXCEPT !.st = IF b \in old THEN "CANCELLED"
                                               ELSE IF b \in new /\ @ = "NONE" THEN "DRY_RUN" ELSE @]]
        /\ client' = [client EXCEPT ![c] = Away]
        /\ UNCHANGED <<job, events, run>>

\* reconcile: a batch left POSTING without a heartbeat gets a status of its own.
Reconcile(b) ==
    /\ b \in linked /\ batch[b].st = "POSTING" /\ ~batch[b].beat
    /\ batch' = [batch EXCEPT ![b].st = IF batch[b].n = Size[b] THEN "POSTED" ELSE "PARTIAL_FAILED",
                              ![b].posted = batch[b].n]
    /\ UNCHANGED <<job, linked, events, client, run>>

(***************************************************************************)
(* A run: run_job for an event, or process called from the page.           *)
(***************************************************************************)
Set(r, f) == run' = [run EXCEPT ![r] = f]
ToResult(r) == Set(r, [Idle EXCEPT !.pc = "result", !.direct = run[r].direct, !.fp = run[r].fp,
                                   !.left = run[r].left, !.seen = run[r].seen])
Finish(r, out) == Set(r, [Idle EXCEPT !.pc = "finish", !.fp = run[r].fp, !.left = run[r].left,
                                      !.out = out])
\* A call from the page just returns its error; a run of the job records an outcome.
Fail(r) == IF run[r].direct THEN Set(r, Idle) ELSE Finish(r, "NEEDS_REVIEW")

\* An event may be delivered more than once.
Deliver(r, e) ==
    /\ run[r].pc = "idle" /\ e \in events
    /\ events' \in (IF "LOSS" \in Faults THEN {events, events \ {e}} ELSE {events \ {e}})
    /\ Set(r, [Idle EXCEPT !.pc = "claim", !.fp = e, !.left = 2])
    /\ UNCHANGED <<job, linked, batch, client>>

Claimable(r) == job.fp = run[r].fp /\ job.st = "PENDING" /\ ~job.pause

\* _claim: an expired lease is put up for review, a waiting job is leased.
Claim(r) ==
    /\ run[r].pc = "claim" /\ run[r].left > 0
    /\ \/ /\ Claimable(r)
          /\ job' = [job EXCEPT !.st = "RUNNING", !.holder = r, !.live = TRUE]
          /\ Set(r, [run[r] EXCEPT !.pc = "check", !.resume = job.resume])
       \/ /\ ~Claimable(r)
          /\ job' = IF Expired /\ job.fp = run[r].fp THEN Stopped("NEEDS_REVIEW") ELSE job
          /\ Set(r, [run[r] EXCEPT !.pc = "report"])
    /\ UNCHANGED <<linked, batch, events, client>>

\* run_job reads the receipt: a pause or a changed preview stops it here.
Check(r) ==
    /\ run[r].pc = "check"
    /\ IF job.pause THEN Finish(r, "PAUSED")
       ELSE IF linked # run[r].fp THEN Finish(r, "NEEDS_REVIEW")
       ELSE Set(r, [run[r] EXCEPT !.pc = "process", !.seen = PostedEntries])
    /\ UNCHANGED <<job, linked, batch, events, client>>

\* The page's own call is refused while a job of the source waits or runs.
StartDirect(r) ==
    /\ "DIRECT" \in Faults /\ run[r].pc = "idle"
    /\ ~Working(ShownStatus) /\ linked # {}
    /\ \E resume \in BOOLEAN :
         Set(r, [Idle EXCEPT !.pc = "process", !.direct = TRUE, !.fp = linked, !.resume = resume])
    /\ UNCHANGED <<job, linked, batch, events, client>>

Unposted == {b \in Active : batch[b].st # "POSTED"}
NextBatch == CHOOSE b \in Unposted : \A c \in Unposted : b <= c

\* process: the confirmed preview must still be the current one; one step of its
\* first batch that is not posted yet.
Process(r) ==
    /\ run[r].pc = "process"
    /\ IF linked # run[r].fp THEN Fail(r)
       ELSE IF Unposted = {} THEN ToResult(r)
       ELSE IF batch[NextBatch].st \notin {"DRY_RUN", "PARTIAL_FAILED"} THEN Fail(r)
       ELSE Set(r, [run[r] EXCEPT !.pc = "begin", !.b = NextBatch])
    /\ UNCHANGED <<job, linked, batch, events, client>>

\* _post_batch claims the batch, if it still belongs to the import.
Postable(r) ==
    LET b == run[r].b
    IN  b \in linked /\ batch[b].st \in {"DRY_RUN"} \cup (IF run[r].resume THEN {"PARTIAL_FAILED"} ELSE {})
BeginBatch(r) ==
    LET b == run[r].b
    IN  /\ run[r].pc = "begin"
        /\ \/ /\ Postable(r)
              /\ batch' = [batch EXCEPT ![b].st = "POSTING", ![b].beat = TRUE]
              /\ Set(r, [run[r] EXCEPT !.pc = "step", !.at = batch[b].n, !.resume = FALSE])
           \/ /\ b \in linked /\ batch[b].st = "POSTED"
              /\ ToResult(r)
              /\ UNCHANGED batch
           \/ /\ ~Postable(r) /\ ~(b \in linked /\ batch[b].st = "POSTED")
              /\ Fail(r)
              /\ UNCHANGED batch
        /\ UNCHANGED <<job, linked, events, client>>

\* The step's transaction posts the next item, unless the batch or the item is
\* no longer as it was, or the database refuses.
StepPosts(r) == batch[run[r].b].st = "POSTING" /\ batch[run[r].b].n = run[r].at
Step(r) ==
    LET b == run[r].b
    IN  /\ run[r].pc = "step"
        /\ \/ /\ StepPosts(r) /\ run[r].at < Size[b]
              /\ batch' = [batch EXCEPT ![b].n = @ + 1, ![b].beat = TRUE]
              /\ Set(r, [run[r] EXCEPT !.pc = "total", !.at = 0])
           \/ /\ ~StepPosts(r) \/ "ERROR" \in Faults
              /\ batch' = [batch EXCEPT ![b].beat = @ \/ batch[b].st = "POSTING"]
              /\ Set(r, [run[r] EXCEPT !.pc = "total", !.at = 0, !.ok = FALSE])
        /\ UNCHANGED <<job, linked, events, client>>

\* The last transaction of _post_batch: a snapshot read, then the batch's status.
ReadTotal(r) ==
    /\ run[r].pc = "total"
    /\ IF batch[run[r].b].st # "POSTING" THEN Fail(r)
       ELSE Set(r, [run[r] EXCEPT !.pc = "close", !.count = batch[run[r].b].n])
    /\ UNCHANGED <<job, linked, batch, events, client>>

FinalStatus(r) ==
    IF run[r].count = Size[run[r].b] THEN "POSTED"
    ELSE IF run[r].ok THEN "DRY_RUN" ELSE "PARTIAL_FAILED"
CloseStep(r) ==
    LET b == run[r].b
        st == FinalStatus(r)
    IN  /\ run[r].pc = "close"
        /\ IF batch[b].st = "POSTING"
           THEN /\ batch' = [batch EXCEPT ![b].st = st, ![b].posted = run[r].count, ![b].beat = FALSE]
                /\ IF st = "PARTIAL_FAILED" THEN Fail(r)
                   ELSE ToResult(r)
           ELSE Fail(r) /\ UNCHANGED batch
        /\ UNCHANGED <<job, linked, events, client>>

\* Faulty variant: posted entries are taken for the end of the work.
OutcomeOfStep(r) == IF PostedEntries > run[r].seen THEN "SUCCEEDED" ELSE "NEEDS_REVIEW"
\* Faulty variant: the state of the batches is stored as the state of the job.
OutcomeIsProgress(r) == IF Completed THEN Progress ELSE "NEEDS_REVIEW"
\* process returns a new receipt, and run_job takes the job's outcome from it.
Outcome(r) ==
    IF Completed THEN "SUCCEEDED"
    ELSE IF Progress = "READY" /\ PostedEntries > run[r].seen THEN "PENDING"
    ELSE "NEEDS_REVIEW"
Result(r) ==
    /\ run[r].pc = "result"
    /\ IF run[r].direct THEN Set(r, Idle) ELSE Finish(r, Outcome(r))
    /\ UNCHANGED <<job, linked, batch, events, client>>

\* _finish reads pause_requested ...
ReadPause(r) ==
    /\ run[r].pc = "finish"
    /\ Set(r, [run[r] EXCEPT !.pc = "release",
                             !.out = IF @ = "PENDING" /\ job.pause THEN "PAUSED" ELSE @])
    /\ UNCHANGED <<job, linked, batch, events, client>>

\* Faulty variant: the outcome is written whoever holds the lease now.
AnyRunHolds(r) == job.st # "NONE"
Holds(r) == job.st = "RUNNING" /\ job.holder = r

\* ... and writes the outcome if the lease is still its own.
Release(r) ==
    /\ run[r].pc = "release"
    /\ job' = IF Holds(r) THEN Stopped(run[r].out) ELSE job
    /\ Set(r, [Idle EXCEPT !.pc = "claim", !.fp = run[r].fp, !.left = run[r].left - 1])
    /\ UNCHANGED <<linked, batch, events, client>>

\* Faulty variant: the event function does not ask for a continuation.
NoContinuation(r) == FALSE
More(r) == Claimable(r)
Busy(r) == job.fp = run[r].fp /\ job.st = "RUNNING"

\* The report of run_job: more work is enqueued, a busy job's event is retried.
Report(r) ==
    /\ run[r].pc = "report" \/ (run[r].pc = "claim" /\ run[r].left = 0)
    /\ LET next == IF More(r) \/ Busy(r) THEN events \cup {run[r].fp} ELSE events
       IN  events' \in (IF "LOSS" \in Faults THEN {events, next} ELSE {next})
    /\ Set(r, Idle)
    /\ UNCHANGED <<job, linked, batch, client>>

\* The process dies; its event may be delivered again.
Crash(r) ==
    /\ "CRASH" \in Faults /\ run[r].pc # "idle"
    /\ events' \in {events, IF run[r].direct THEN events ELSE events \cup {run[r].fp}}
    /\ Set(r, Idle)
    /\ UNCHANGED <<job, linked, batch, client>>

(***************************************************************************)
(* Time.                                                                   *)
(***************************************************************************)
\* A run budgeted for twenty seconds is stalled past its lease of ten minutes.
LeaseExpires ==
    /\ "SLOW" \in Faults \/ "CRASH" \in Faults
    /\ job.st = "RUNNING" /\ job.live
    /\ job' = [job EXCEPT !.live = FALSE]
    /\ UNCHANGED <<linked, batch, events, client, run>>

HeartbeatAges(b) ==
    /\ batch[b].st = "POSTING" /\ batch[b].beat
    /\ batch' = [batch EXCEPT ![b].beat = FALSE]
    /\ UNCHANGED <<job, linked, events, client, run>>

Request(c) ==
    \/ ReadReceipt(c) \/ LeaveReceipt(c)
    \/ \E resume \in BOOLEAN : Submit(c, resume)
    \/ \E new \in SUBSET Batches : CreateBatches(c, new)
Dispatch(c) == Trigger(c) \/ TriggerUncertain(c) \/ DispatchUncertain(c)

Execute(r) ==
    \/ Claim(r) \/ Check(r) \/ Process(r) \/ BeginBatch(r) \/ Step(r) \/ ReadTotal(r)
    \/ CloseStep(r) \/ Result(r) \/ ReadPause(r) \/ Release(r) \/ Report(r)
Start(r) == \E e \in events : Deliver(r, e)

Next ==
    \/ \E c \in Clients : Request(c) \/ Dispatch(c)
    \/ Pause
    \/ \E r \in Runs : Start(r) \/ Execute(r) \/ StartDirect(r) \/ Crash(r)
    \/ LeaseExpires
    \/ \E b \in Batches : HeartbeatAges(b) \/ Reconcile(b)

Spec == Init /\ [][Next]_vars

-----------------------------------------------------------------------------
JobStatuses == {"PENDING", "RUNNING", "PAUSED", "SUCCEEDED", "NEEDS_REVIEW"}
BatchStatuses == {"NONE", "DRY_RUN", "POSTING", "POSTED", "PARTIAL_FAILED", "CANCELLED"}

\* Every variable ranges over the rows the tables and the code admit.
TypeOK ==
    /\ job \in [st : JobStatuses \cup {"NONE"}, fp : SUBSET Batches, resume : BOOLEAN,
                pause : BOOLEAN, holder : Runs \cup {None}, live : BOOLEAN]
    /\ linked \subseteq Batches
    /\ batch \in [Batches -> [st : BatchStatuses, n : Nat, posted : Nat, beat : BOOLEAN]]
    /\ events \subseteq SUBSET Batches
    /\ client \in [Clients -> [pc : {"idle", "read", "trigger", "uncertain"}, fp : SUBSET Batches,
                               state : {"POSTING", "PARTIAL_FAILED", "COMPLETE", "READY"},
                               posted : Nat]]
    /\ run \in [Runs -> [pc : {"idle", "claim", "check", "process", "begin", "step", "total",
                               "close", "result", "finish", "release", "report"},
                         direct : BOOLEAN, fp : SUBSET Batches, left : Nat, resume : BOOLEAN,
                         b : Batches \cup {None}, at : Nat, ok : BOOLEAN, seen : Nat, count : Nat,
                         out : JobStatuses]]

\* Entries are posted for what was confirmed: a job that reports success has all
\* entries of the preview its confirmation named in the ledger, whatever runs,
\* expired runs and calls from the page posted them, except for batches that a
\* newer preview has cancelled meanwhile.
SuccessIsPosted ==
    job.st = "SUCCEEDED" => \A b \in job.fp : batch[b].n = Size[b] \/ batch[b].st = "CANCELLED"

\* "Regenerating a preview here would detach the receipt from already-posted
\* entries": the import never loses a batch that has entries, even when a step of
\* it is committed between the receipt and the transaction of create_batches.
PostedStaysLinked ==
    \A b \in Batches : batch[b].n > 0 => b \in linked /\ batch[b].st # "CANCELLED"

\* The job and its batches as a whole: their type and the two properties above.
JobsSafe == TypeOK /\ SuccessIsPosted /\ PostedStaysLinked

\* "Do not infer whether an expired owner committed its last ledger step": what
\* has stopped starts again only with the confirmation of a user who has read the
\* receipt; a run whose lease has expired cannot change the job any more.
StartsByConfirmation ==
    [][job.st \in {"NONE", "PAUSED", "SUCCEEDED", "NEEDS_REVIEW"} /\ job' # job =>
         \E c \in Clients : client[c].pc = "read" /\ client'[c].pc # "read" /\ job'.fp = client[c].fp]_vars

\* A call that is running goes on, and an event that was accepted is delivered.
Fairness ==
    /\ \A r \in Runs : WF_vars(Execute(r)) /\ WF_vars(Start(r))
    /\ \A c \in Clients : WF_vars(Dispatch(c))
FairSpec == Spec /\ Fairness

\* A confirmed job comes to an outcome with no further help from a page.
ConfirmedWorkEnds == Working(job.st) ~> ~Working(job.st)

\* Together: a confirmed job comes to an outcome, and one that says success is one.
ConfirmedWorkIsDone == []SuccessIsPosted /\ ConfirmedWorkEnds
=============================================================================
