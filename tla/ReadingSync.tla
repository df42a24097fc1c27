------------------------------ MODULE ReadingSync ------------------------------
(***************************************************************************)
(* The unattended import of reading reports: a function that handles one   *)
(* class and interval per event and dispatches the next event itself, a    *)
(* worker that collects one workbook at a time, and the platform's         *)
(* interface that saves, posts and keeps the receipts.                     *)
(*                                                                         *)
(* Source: cloudfunctions/reading-sync-dispatch/index.js,                  *)
(* apps/reading-sync-worker/server.mjs,                                    *)
(* app/services/reading_sync_automation.py, credit_source_imports.py.      *)
(*                                                                         *)
(* Any request may fail, before or after it has had its effect.  An        *)
(* invocation that fails is delivered again a few times, then dropped;     *)
(* one whose dispatch was carried out without an answer goes on twice.     *)
(* A paused posting job counts as one that takes long.                     *)
(***************************************************************************)
EXTENDS Integers, SqlNull

CONSTANTS
    Tasks,      \* 1 .. Tasks are the classes and intervals of the plan
    Slots,      \* bound on events and invocations at a time
    Reports,    \* what exports may hold: no rows, or rows that are all or not all identified, or not creditable
    Attempts,   \* retries of a task: 2 in the code
    Polls,      \* looks at a posting that is not complete: 30 in the code
    Retries     \* deliveries of a failed invocation by the cloud

ASSUME SyncAssumption ==
    /\ Tasks \in Nat \ {0} /\ {Attempts, Polls, Retries} \subseteq Nat
    /\ None \notin Slots /\ Reports \subseteq {"empty", "full", "partial", "blocked"}

VARIABLES
    report,     \* what the reading platform exports for a task
    source,     \* how far its rows have come: source import, batches, posting job
    receipt,    \* the newest audit row of learning.reading_sync.machine: FAILED or not, and whether it names an import
    active,     \* the worker's flag: the slot it collects for
    chain,      \* events that wait and invocations that run, None when the slot is free
    concluded,  \* tasks after which the chain went on
    first,      \* where it began: a manual recovery may begin anywhere
    dropped     \* whether the cloud has given up an event

syncVars == <<report, source, receipt, active, chain, concluded, first, dropped>>

Task == 1 .. Tasks
Steps == {"queued", "status", "lookup", "collect", "collecting", "import", "resume", "poll", "catch", "next"}
ChainEvent == [pc : Steps, index : Task, attempt : 0 .. Attempts, polls : 0 .. Polls, import : BOOLEAN, digest : BOOLEAN,
               collected : BOOLEAN, retry : 0 .. Retries]
\* A slot that is free has no event.
ASSUME EventAssumption == None \notin ChainEvent

Rank == [none |-> 0, saved |-> 1, batched |-> 2, submitted |-> 3, review |-> 4, posted |-> 5]
Event(i) == [pc |-> "queued", index |-> i, attempt |-> 0, polls |-> 0, import |-> FALSE, digest |-> FALSE,
             collected |-> FALSE, retry |-> 0]

SyncInit ==
    /\ report \in [Task -> Reports] /\ source = [i \in Task |-> "none"] /\ receipt = [i \in Task |-> "NONE"]
    /\ active = None /\ concluded = {} /\ dropped = FALSE /\ first \in Task
    /\ \E s \in Slots : chain = [t \in Slots |-> IF t = s THEN Event(first) ELSE None]

At(s, pc) == chain[s] # None /\ chain[s].pc = pc
Go(s, pc) == chain' = [chain EXCEPT ![s].pc = pc]

(***************************************************************************)
(* The platform's interface.                                               *)
(***************************************************************************)
\* Faulty variant: rows that nobody was identified for are forgotten.
AsIfIdentified(i) == report[i] \in {"full", "partial"}
Identified(i) == report[i] = "full"
\* posting_progress: what has no entry to post is complete.
Completed(i) == source[i] = "posted" \/ (report[i] = "blocked" /\ source[i] = "batched")
\* _status_report
Status(i) ==
    CASE source[i] = "review" -> "NEEDS_REVIEW"
      [] source[i] # "review" /\ ~Identified(i) /\ report[i] = "partial" -> "PARTIAL_PENDING_IDENTITY"
      [] OTHER -> IF source[i] = "saved" THEN "SOURCE_SAVED_POSTING_NOT_CREATED"
                  ELSE IF Completed(i) THEN "SUCCESS" ELSE "POSTING_PENDING"

\* plan: a receipt that names an import is refreshed; an empty report's is believed.
Skips(i) == receipt[i] = "EMPTY" \/ (receipt[i] = "IMPORT" /\ Status(i) = "SUCCESS")

\* ingest and resume: register, create_batches, submit_and_dispatch and the receipt, each of which is there for good when
\* a later one fails; what is blocked is left to a review.
Saving(i, reached, audited) ==
    LET limit == CASE report[i] = "empty" -> "none" [] report[i] = "blocked" -> "batched" [] OTHER -> "submitted" IN
    /\ Rank[reached] <= Rank[limit] /\ (audited => reached = limit)
    /\ source' = [source EXCEPT ![i] = IF Rank[reached] > Rank[@] THEN reached ELSE @]
    /\ receipt' = IF audited THEN [receipt EXCEPT ![i] = IF report[i] = "empty" THEN "EMPTY" ELSE "IMPORT"] ELSE receipt

\* The posting job goes on by itself.
Posting(i) ==
    /\ source[i] = "submitted" /\ \E end \in {"posted", "review"} : source' = [source EXCEPT ![i] = end]
    /\ UNCHANGED <<report, first, receipt, active, chain, concluded, dropped>>

(***************************************************************************)
(* The dispatching function.                                               *)
(***************************************************************************)
\* "Let SCF record a failed invocation and apply its retry policy."
Redelivered(s) ==
    IF chain[s].retry < Retries THEN [chain[s] EXCEPT !.pc = "queued", !.collected = FALSE, !.retry = @ + 1] ELSE None
Throw(s) ==
    /\ chain' = [chain EXCEPT ![s] = Redelivered(s)]
    /\ dropped' = (dropped \/ Redelivered(s) = None)

\* enqueue: the event is accepted, which ends this one, or refused, or accepted without an answer.
Dispatch(s, event, through) ==
    /\ \/ chain' = [chain EXCEPT ![s] = event] /\ dropped' = dropped /\ concluded' = concluded \cup through
       \/ Throw(s) /\ concluded' = concluded
       \/ \E t \in Slots \ {s} :
            /\ event # None /\ chain[t] = None
            /\ chain' = [chain EXCEPT ![t] = event, ![s] = Redelivered(s)]
            /\ dropped' = (dropped \/ Redelivered(s) = None) /\ concluded' = concluded \cup through
    /\ UNCHANGED <<report, first, source, receipt, active>>

Plan(s) ==
    /\ At(s, "queued")
    /\ \/ /\ Go(s, CASE Skips(chain[s].index) -> "next"
                     [] ~Skips(chain[s].index) /\ chain[s].import -> "status"
                     [] ~Skips(chain[s].index) /\ ~chain[s].import /\ chain[s].digest -> "lookup"
                     [] OTHER -> "collect")
          /\ dropped' = dropped
       \/ Throw(s)
    /\ UNCHANGED <<report, first, source, receipt, active, concluded>>

\* Faulty variant: one look too many.
OneMore(s, posted, review) ==
    CASE posted \/ review -> "next"
      [] ~(posted \/ review) /\ chain[s].polls <= Polls -> "poll"
      [] OTHER -> "next"
\* What becomes of an answer.
Decided(s, posted, review) ==
    CASE posted \/ review -> "next"
      [] ~(posted \/ review) /\ chain[s].polls < Polls -> "poll"
      [] OTHER -> "next"
Answered(s) ==
    LET i == chain[s].index IN
    IF Status(i) = "SOURCE_SAVED_POSTING_NOT_CREATED" THEN "resume"
    ELSE Decided(s, Completed(i), source[i] = "review")

AskStatus(s) ==
    /\ At(s, "status") /\ (Go(s, Answered(s)) \/ Go(s, "catch"))
    /\ UNCHANGED <<report, first, source, receipt, active, concluded, dropped>>
\* After a lost answer the digest tells whether the workbook was saved.
Lookup(s) ==
    /\ At(s, "lookup")
    /\ Go(s, IF source[chain[s].index] = "none" THEN "collect" ELSE Answered(s)) \/ Go(s, "catch")
    /\ UNCHANGED <<report, first, source, receipt, active, concluded, dropped>>

\* Faulty variant: the worker forgets that it is busy.
NeverBusy == FALSE
Busy == active # None
\* The worker refuses while it is active; it answers, fails, or is not waited for.
StartCollection(s) ==
    /\ At(s, "collect")
    /\ IF Busy THEN Go(s, "catch") /\ active' = active ELSE Go(s, "collecting") /\ active' = s
    /\ UNCHANGED <<report, first, source, receipt, concluded, dropped>>
Collected(s) ==
    /\ At(s, "collecting") /\ active = s
    /\ chain' = [chain EXCEPT ![s].pc = "import", ![s].collected = TRUE]
    /\ UNCHANGED <<report, first, source, receipt, active, concluded, dropped>>
NotWaitedFor(s) ==
    /\ At(s, "collecting") /\ Go(s, "catch")
    /\ UNCHANGED <<report, first, source, receipt, active, concluded, dropped>>
\* The browser is closed and the flag taken back; whoever still waits has got an error.
CollectionEnds ==
    /\ active # None /\ active' = None
    /\ IF At(active, "collecting") THEN Go(active, "catch") ELSE chain' = chain
    /\ UNCHANGED <<report, first, source, receipt, concluded, dropped>>

Import(s, reached, audited, answered) ==
    LET i == chain[s].index IN
    /\ At(s, "import") /\ (answered => audited)
    /\ Saving(i, reached, audited)
    /\ IF ~answered THEN Go(s, "catch")
       ELSE Go(s, Decided(s, report[i] = "empty" \/ source[i] = "posted", source[i] = "review"))
    /\ UNCHANGED <<report, first, active, concluded, dropped>>
\* Batches that are already there are not looked at again; where rows are blocked the answer is NEEDS_REVIEW, without a receipt.
Resume(s, reached, audited, answered) ==
    LET i == chain[s].index IN
    /\ At(s, "resume")
    /\ \/ source[i] # "saved" /\ UNCHANGED <<source, receipt>>
       \/ /\ source[i] = "saved" /\ Saving(i, reached, audited)
          /\ IF report[i] = "blocked" THEN ~audited /\ (answered => reached = "batched") ELSE answered => audited
    /\ Go(s, IF answered THEN Decided(s, source[i] = "posted", source[i] = "review") ELSE "catch")
    /\ UNCHANGED <<report, first, active, concluded, dropped>>

Poll(s) ==
    LET i == chain[s].index IN
    At(s, "poll") /\ Dispatch(s, [Event(i) EXCEPT !.import = source[i] # "none", !.polls = chain[s].polls + 1], {})

\* The catch clause: another attempt, or the outcome is recorded.
Retry(s) ==
    LET E == chain[s] IN
    /\ At(s, "catch") /\ E.attempt < Attempts
    /\ Dispatch(s, [Event(E.index) EXCEPT !.attempt = E.attempt + 1, !.import = E.import, !.digest = E.digest \/ E.collected,
                                          !.polls = E.polls], {})
Outcome(s) ==
    /\ At(s, "catch") /\ chain[s].attempt = Attempts
    /\ \/ /\ receipt' = [receipt EXCEPT ![chain[s].index] = "FAILED"]
          /\ \/ Go(s, "next") /\ dropped' = dropped
             \/ Throw(s)
       \/ Throw(s) /\ receipt' = receipt
    /\ UNCHANGED <<report, first, source, active, concluded>>

\* Faulty variant: the last task is taken for the end of the plan one too early.
EndsEarly(i) == IF i + 1 < Tasks THEN Event(i + 1) ELSE None
Following(i) == IF i < Tasks THEN Event(i + 1) ELSE None
Next(s) == At(s, "next") /\ Dispatch(s, Following(chain[s].index), {chain[s].index})

Invocation(s) ==
    \/ Plan(s) \/ AskStatus(s) \/ Lookup(s) \/ StartCollection(s) \/ Collected(s) \/ NotWaitedFor(s)
    \/ Poll(s) \/ Retry(s) \/ Outcome(s) \/ Next(s)
    \/ \E reached \in {"none", "saved", "batched", "submitted"}, audited, answered \in BOOLEAN :
          Import(s, reached, audited, answered) \/ Resume(s, reached, audited, answered)

SyncNext ==
    \/ \E s \in Slots : Invocation(s)
    \/ \E i \in Task : Posting(i)
    \/ CollectionEnds

SyncSpec == SyncInit /\ [][SyncNext]_syncVars

(***************************************************************************)
(* Properties.                                                             *)
(***************************************************************************)
SyncTypeOK ==
    /\ \A i \in Task : source[i] \in DOMAIN Rank /\ receipt[i] \in {"NONE", "EMPTY", "IMPORT", "FAILED"}
    /\ active # None => active \in Slots
    /\ \A s \in Slots : chain[s] # None =>
          chain[s] \in ChainEvent /\ (chain[s].import => source[chain[s].index] # "none")

\* One browser at a time: a collection that is not waited for any more still keeps others out.
OneCollection == \A s, t \in Slots : At(s, "collecting") /\ At(t, "collecting") => s = t

\* 只跳过同班级、同精确区间已经完整 SUCCESS 的收据: whatever failed, was repeated or went on twice, a task is only left out
\* when nobody's rows are missing and all are posted.
SkipsOnlyComplete == \A i \in Task : Skips(i) => report[i] = "empty" \/ (report[i] = "full" /\ source[i] = "posted")

\* Unless the cloud gives an event up, no class is forgotten: the chain ends when it has been through all
\* that come after its beginning.
ChainVisitsAll == (\A s \in Slots : chain[s] = None) /\ ~dropped => concluded = first .. Tasks

\* 有效来源自动保存和自动确认入账: where the chain went on without having recorded a failure, what was saved is being posted.
SavedIsSubmitted ==
    \A i \in concluded : source[i] \in {"saved", "batched"} => report[i] = "blocked" \/ receipt[i] = "FAILED"

\* Together: events within their bounds, one collection at a time, and no class that is skipped or forgotten.
SyncSafe == SyncTypeOK /\ OneCollection /\ SkipsOnlyComplete /\ ChainVisitsAll
=============================================================================
