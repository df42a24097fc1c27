---------------------------- MODULE CreditSettlement ----------------------------
(***************************************************************************)
(* Settlement of learning credits: freezing a batch of proposals from the  *)
(* live learning facts, approving or confirming it, posting it item by     *)
(* item (or reading group by reading group) to the append-only ledger, and *)
(* recovering when a posting run dies half way.                            *)
(*                                                                         *)
(* Source: app/services/credit_settlement_batches.py, with the ledger      *)
(* insert of learning_credits.py and the previews of                       *)
(* learning_activity_credits.py.  The database is MySQL InnoDB: a          *)
(* transaction that runs under row locks is two steps here (take the locks *)
(* and read, then write and commit), every other transaction is one step.  *)
(* Every entry is worth one point, so points are counted as entries.       *)
(***************************************************************************)
EXTENDS Integers, FiniteSets

CONSTANTS
    Keys,       \* learning facts; a fact's number orders it and is its idempotency key
    Members,    \* learners
    Recorded,   \* the facts already recorded when the first batch is cut
    Owner,      \* [Keys -> Members]: whose fact it is
    Windows,    \* selections of facts a batch can be cut from
    Span,       \* [Windows -> SUBSET Keys]
    Kind,       \* [Windows -> {"READING", "SHARE", "STUDY"}]
    Cap,        \* monthly cap of EXCELLENT_SHARE entries per learner
    StepLimit,  \* max_items of an incremental posting step
    Batches, Users,
    Posters,    \* concurrent runs of _post_batch
    None,       \* SQL NULL: no user, no poster, no batch, no window
    Faults      \* what may go wrong: "CRASH", "ERROR", "REVERSAL", "CONTEXT"

ASSUME KeyAssumption == Keys \subseteq Nat /\ IsFiniteSet(Keys) /\ Recorded \subseteq Keys
ASSUME OwnerAssumption == Owner \in [Keys -> Members]
ASSUME WindowAssumption ==
    /\ Span \in [Windows -> SUBSET Keys]
    /\ Kind \in [Windows -> {"READING", "SHARE", "STUDY"}]
    \* a fact has one activity type, and a selection of shares no other
    /\ \A v, w \in Windows : Kind[v] = "SHARE" /\ Kind[w] # "SHARE" => Span[v] \cap Span[w] = {}
ASSUME LimitAssumption == Cap \in Nat /\ StepLimit \in Nat \ {0}
ASSUME NoneAssumption == None \notin Users \cup Posters \cup Batches \cup Windows

VARIABLES
    facts,       \* learning_credit_activity_facts recorded so far
    held,        \* facts whose context (relation, binding, calendar) blocks a credit now
    batch,       \* learning_credit_settlement_batches
    item,        \* item[b][k]: status of the batch's row for fact k
    link,        \* link[b][k]: ledger_entry_id of that row
    ledger,      \* learning_credit_entries
    memberLock, batchLock,  \* row locks held across the two steps of a transaction
    poster       \* local state of each run of _post_batch

vars == <<facts, held, batch, item, link, ledger, memberLock, batchLock, poster>>

(***************************************************************************)
(* Rows.  batch[b].beat says whether a POSTING batch had a heartbeat in the *)
(* last 30 minutes; batch[b].confirmed is the audit row of a confirmation. *)
(* The batch and the run that inserted an entry stand for its id, and a    *)
(* reversal names the entry it reverses by the same three fields.          *)
(***************************************************************************)
NoEntry == [type |-> "NONE"]
Credit(k, b, p) == [type |-> "CREDIT", key |-> k, batch |-> b, by |-> p]
Reversal(e) == [type |-> "REVERSAL", key |-> e.key, batch |-> e.batch, by |-> e.by]

Credits == {Credit(k, b, p) : k \in Keys, b \in Batches, p \in Posters}
Reversals == {Reversal(e) : e \in Credits}

Statuses == {"NONE", "DRY_RUN", "PENDING_APPROVAL", "APPROVED", "POSTING",
             "POSTED", "PARTIAL_FAILED", "CLOSED"}
Pending == {"PROPOSED", "APPROVED", "FAILED"}
ItemStatuses == Pending \cup {"NONE", "BLOCKED", "POSTED"}

Unused == [st |-> "NONE", win |-> None, src |-> {}, rules |-> {},
           n |-> 0, posted |-> 0, maker |-> None, approver |-> None,
           confirmed |-> FALSE, beat |-> FALSE]

Idle == [pc |-> "idle", b |-> None, mode |-> "approval",
         limit |-> 0, pend |-> {}, done |-> 0, failed |-> FALSE, step |-> {},
         ok |-> FALSE, seen |-> 0, final |-> "PARTIAL_FAILED"]

(***************************************************************************)
(* The ledger as the previews read it.                                     *)
(***************************************************************************)
\* Faulty variant: a reversed entry no longer holds its idempotency key.
EntriesNotReversed(k) ==
    {e \in ledger : e.type = "CREDIT" /\ e.key = k /\ Reversal(e) \notin ledger}
EntriesOf(k) == {e \in ledger : e.type = "CREDIT" /\ e.key = k}
Posted(k) == EntriesOf(k) # {}

\* _existing_month_points: credits of the learner's shares, less their reversals.
\* One calendar month is modelled, so the learner stands for (learner, month).
ShareKeys == UNION {Span[w] : w \in {v \in Windows : Kind[v] = "SHARE"}}
ShareEntries(m, t) == {e \in ledger : e.type = t /\ e.key \in ShareKeys /\ Owner[e.key] = m}
MonthPoints(m) ==
    Cardinality(ShareEntries(m, "CREDIT")) - Cardinality(ShareEntries(m, "REVERSAL"))

Live(w) == facts \cap Span[w]

\* _daily_entries, _excellent_entries: a fact is READY when no entry has its
\* key, nothing in its context blocks it and, for shares, the month still has
\* room after the READY shares before it.
Candidate(w, k) == k \in Live(w) /\ k \notin held /\ ~Posted(k)
Ready(w) ==
    {k \in Live(w) :
        /\ Candidate(w, k)
        /\ Kind[w] = "SHARE" =>
             MonthPoints(Owner[k])
               + Cardinality({j \in Live(w) : Candidate(w, j) /\ Owner[j] = Owner[k] /\ j <= k})
             <= Cap}
Blocked(w) == {k \in Live(w) \cap held : ~Posted(k)}

\* The rule snapshot of a fact is empty while its context blocks it.
RuleSnapshot(w) == Live(w) \ held

(***************************************************************************)
(* Items of a batch.                                                       *)
(***************************************************************************)
Intended(b) == {k \in Keys : item[b][k] \in Pending \cup {"POSTED"}}
PostedItems(b) == {k \in Keys : item[b][k] = "POSTED"}

\* Faulty variant: only the facts are compared, not what the ledger says of them.
PreviewOfFacts(b) == Live(batch[b].win) = batch[b].src

\* _assert_current_preview: same facts, same rules, nothing of the selection
\* credited by somebody else, and as many READY facts as were frozen.
PreviewHolds(b) ==
    LET w == batch[b].win
        active == Live(w) \ PostedItems(b)
        mine == IF Kind[w] = "STUDY" THEN active \cap Intended(b) ELSE active
    IN  /\ Live(w) = batch[b].src
        /\ RuleSnapshot(w) = batch[b].rules
        /\ Cardinality(Blocked(w)) = Cardinality({k \in Keys : item[b][k] = "BLOCKED"})
        /\ \A k \in mine : ~Posted(k)
        /\ \A k \in PostedItems(b) : Posted(k)
        /\ Cardinality(Ready(w) \ PostedItems(b)) + Cardinality(PostedItems(b)) = batch[b].n

\* _reconcile_posted_items: every POSTED item is linked to the entry of its own
\* fact, no other item is linked.
Reconciles(b) ==
    /\ Cardinality(Intended(b)) = batch[b].n
    /\ \A k \in Intended(b) :
         IF item[b][k] = "POSTED"
         THEN link[b][k] \in ledger /\ link[b][k].type = "CREDIT" /\ link[b][k].key = k
         ELSE link[b][k] = NoEntry

\* Faulty variant: complete when no item failed, as if all had been tried.
CompleteUnlessFailed(b) == \A k \in Keys : item[b][k] # "FAILED"
Complete(b) == Cardinality(PostedItems(b)) = batch[b].n

SetBatch(b, f) == batch' = [batch EXCEPT ![b] = f]
BatchFree(b) == batchLock[b] = None

Init ==
    /\ facts = Recorded /\ held = {} /\ ledger = {}
    /\ batch = [b \in Batches |-> Unused]
    /\ item = [b \in Batches |-> [k \in Keys |-> "NONE"]]
    /\ link = [b \in Batches |-> [k \in Keys |-> NoEntry]]
    /\ memberLock = [m \in Members |-> None]
    /\ batchLock = [b \in Batches |-> None]
    /\ poster = [p \in Posters |-> Idle]

(***************************************************************************)
(* Facts and their context.                                                *)
(***************************************************************************)
\* record_learning_activity_fact: facts are only ever inserted.
RecordFact(k) ==
    /\ k \notin facts
    /\ facts' = facts \cup {k}
    /\ UNCHANGED <<held, batch, item, link, ledger, memberLock, batchLock, poster>>

\* What _fact_context reads (relation, binding, rule, calendar) is edited elsewhere.
ContextChanges(k) ==
    /\ "CONTEXT" \in Faults
    /\ held' = (held \ {k}) \cup ({k} \ held)
    /\ UNCHANGED <<facts, batch, item, link, ledger, memberLock, batchLock, poster>>

(***************************************************************************)
(* The life of a batch outside posting.                                    *)
(***************************************************************************)
\* _dry_run_activity_batch, dry_run_study_meeting_batch: freeze the READY
\* proposals.  A selection already frozen from the same facts returns its batch.
DryRun(u, b, w) ==
    /\ batch[b].st = "NONE"
    /\ \A c \in Batches : batch[c].st = "NONE" \/ batch[c].win # w \/ batch[c].src # Live(w)
    /\ SetBatch(b, [Unused EXCEPT !.st = "DRY_RUN", !.win = w, !.src = Live(w),
                                  !.rules = RuleSnapshot(w),
                                  !.n = Cardinality(Ready(w)), !.maker = u])
    /\ item' = [item EXCEPT ![b] =
                  [k \in Keys |-> IF k \in Ready(w) THEN "PROPOSED"
                                  ELSE IF k \in Blocked(w) THEN "BLOCKED" ELSE "NONE"]]
    /\ UNCHANGED <<facts, held, link, ledger, memberLock, batchLock, poster>>

AllProposed(b) == Cardinality({k \in Keys : item[b][k] = "PROPOSED"}) = batch[b].n

\* _submit_batch_for_approval
Submit(b) ==
    /\ batch[b].st = "DRY_RUN" /\ BatchFree(b)
    /\ batch[b].n > 0 /\ PostedItems(b) = {}
    /\ PreviewHolds(b) /\ AllProposed(b)
    /\ SetBatch(b, [batch[b] EXCEPT !.st = "PENDING_APPROVAL"])
    /\ UNCHANGED <<facts, held, item, link, ledger, memberLock, batchLock, poster>>

\* Faulty variant: the maker check is missing.
MayApproveOwn(u, b) == batch[b].approver = None
MayApprove(u, b) == u # batch[b].maker /\ batch[b].approver = None

\* _approve_batch: the maker cannot approve, and a batch is approved once.
Approve(u, b) ==
    /\ batch[b].st = "PENDING_APPROVAL" /\ BatchFree(b)
    /\ MayApprove(u, b)
    /\ batch[b].n > 0 /\ PostedItems(b) = {}
    /\ PreviewHolds(b) /\ AllProposed(b)
    /\ SetBatch(b, [batch[b] EXCEPT !.st = "APPROVED", !.approver = u])
    /\ item' = [item EXCEPT ![b] =
                  [k \in Keys |-> IF @[k] = "PROPOSED" THEN "APPROVED" ELSE @[k]]]
    /\ UNCHANGED <<facts, held, link, ledger, memberLock, batchLock, poster>>

\* Half an hour passes without a heartbeat of the posting run.
HeartbeatAges(b) ==
    /\ batch[b].st = "POSTING" /\ batch[b].beat
    /\ SetBatch(b, [batch[b] EXCEPT !.beat = FALSE])
    /\ UNCHANGED <<facts, held, item, link, ledger, memberLock, batchLock, poster>>

\* reconcile_stale_posting_batch accepts: the ledger agrees with the items, and
\* no fact still to be posted has an entry already.
Recoverable(b) ==
    /\ Reconciles(b)
    /\ \A k \in Intended(b) \ PostedItems(b) : ~Posted(k)

Reconcile(b) ==
    /\ batch[b].st = "POSTING" /\ ~batch[b].beat /\ BatchFree(b)
    /\ Recoverable(b)
    /\ SetBatch(b, [batch[b] EXCEPT
          !.st = IF Complete(b) THEN "POSTED" ELSE "PARTIAL_FAILED",
          !.posted = Cardinality(PostedItems(b)), !.beat = FALSE])
    /\ UNCHANGED <<facts, held, item, link, ledger, memberLock, batchLock, poster>>

\* close_settlement_batch
Close(b) ==
    /\ batch[b].st = "POSTED" /\ BatchFree(b)
    /\ Reconciles(b) /\ Complete(b)
    /\ batch[b].posted = Cardinality(PostedItems(b))
    /\ SetBatch(b, [batch[b] EXCEPT !.st = "CLOSED"])
    /\ UNCHANGED <<facts, held, item, link, ledger, memberLock, batchLock, poster>>

\* reverse_credit_entry: a negative entry beside the original, at most once.
Reverse(e) ==
    /\ "REVERSAL" \in Faults
    /\ e \in ledger /\ e.type = "CREDIT" /\ Reversal(e) \notin ledger
    /\ memberLock[Owner[e.key]] = None
    /\ ledger' = ledger \cup {Reversal(e)}
    /\ UNCHANGED <<facts, held, batch, item, link, memberLock, batchLock, poster>>

(***************************************************************************)
(* A posting run: _post_batch from its claim of the batch to its final     *)
(* status.                                                                 *)
(***************************************************************************)
Set(p, f) == poster' = [poster EXCEPT ![p] = f]

\* A run confirmed against its source takes any unposted item, an approved run
\* only what was approved.
Takes(mode) == IF mode = "confirm" THEN Pending ELSE {"APPROVED", "FAILED"}

Claimable(b, mode, resume) ==
    LET open == IF resume THEN {"PARTIAL_FAILED"} ELSE {}
    IN  IF mode = "confirm"
        THEN batch[b].st \in {"DRY_RUN", "PENDING_APPROVAL", "APPROVED"} \cup open
        ELSE /\ batch[b].st \in {"APPROVED"} \cup open
             /\ batch[b].approver # None

\* The first transaction: claim the batch and list what is pending.
BeginPost(p, b, mode, limit, resume) ==
    /\ poster[p].pc = "idle"
    /\ batch[b].st # "NONE" /\ BatchFree(b)
    /\ limit > 0 => mode = "confirm" /\ Kind[batch[b].win] # "STUDY"
    /\ Claimable(b, mode, resume)
    /\ PreviewHolds(b) /\ Reconciles(b)
    /\ SetBatch(b, [batch[b] EXCEPT !.st = "POSTING", !.beat = TRUE,
                                    !.confirmed = @ \/ mode = "confirm"])
    /\ Set(p, [Idle EXCEPT !.pc = "loop", !.b = b, !.mode = mode, !.limit = limit,
                           !.pend = {k \in Keys : item[b][k] \in Takes(mode)}])
    /\ UNCHANGED <<facts, held, item, link, ledger, memberLock, batchLock>>

\* Confirmed reading is posted in one locked group, anything else item by item.
Grouped(p) == poster[p].limit > 0 /\ Kind[batch[poster[p].b].win] = "READING"

NextStep(p) ==
    {k \in poster[p].pend :
        Cardinality({j \in poster[p].pend : j < k})
          < (IF Grouped(p) THEN poster[p].limit ELSE 1)}

\* Faulty variant: the learner rows are not locked.
NobodyLocked(S) == {}
LockedMembers(S) == {Owner[k] : k \in S}

ItemsOpen(p, S) ==
    \A k \in S : /\ item[poster[p].b][k] \in Takes(poster[p].mode)
                 /\ link[poster[p].b][k] = NoEntry
\* Faulty variant: a step does not look at the batch status again.
PreviewAndItems(p, S) == PreviewHolds(poster[p].b) /\ ItemsOpen(p, S)
StepAllowed(p, S) ==
    batch[poster[p].b].st = "POSTING" /\ PreviewHolds(poster[p].b) /\ ItemsOpen(p, S)

\* An item transaction (or _post_reading_step) takes the learners' rows, then the
\* batch row, and only then reads: batch status, frozen items, live preview, item.
LockStep(p) ==
    LET P == poster[p]
        S == NextStep(p)
        ms == LockedMembers(S)
    IN  /\ P.pc = "loop" /\ ~P.failed /\ P.pend # {}
        /\ P.limit = 0 \/ P.done < P.limit
        /\ \A m \in ms : memberLock[m] = None
        /\ BatchFree(P.b)
        /\ memberLock' = [m \in Members |-> IF m \in ms THEN p ELSE memberLock[m]]
        /\ batchLock' = [batchLock EXCEPT ![P.b] = p]
        /\ Set(p, [P EXCEPT !.pc = "step", !.step = S, !.ok = StepAllowed(p, S)])
        /\ UNCHANGED <<facts, held, batch, item, link, ledger>>

ReleaseLocks(p) ==
    /\ memberLock' = [m \in Members |-> IF memberLock[m] = p THEN None ELSE memberLock[m]]
    /\ batchLock' = [b \in Batches |-> IF batchLock[b] = p THEN None ELSE batchLock[b]]

\* _insert_entry: the unique key admits one entry, a second insert returns it.
Inserted(p, S) == {Credit(k, poster[p].b, p) : k \in {j \in S : ~Posted(j)}}
EntryFor(k, entries) == CHOOSE e \in entries : e.type = "CREDIT" /\ e.key = k

CommitStep(p) ==
    LET P == poster[p]
        entries == ledger \cup Inserted(p, P.step)
    IN  /\ P.pc = "step" /\ P.ok
        /\ ledger' = entries
        /\ item' = [item EXCEPT ![P.b] =
                      [k \in Keys |-> IF k \in P.step THEN "POSTED" ELSE @[k]]]
        /\ link' = [link EXCEPT ![P.b] =
                      [k \in Keys |-> IF k \in P.step THEN EntryFor(k, entries) ELSE @[k]]]
        /\ SetBatch(P.b, [batch[P.b] EXCEPT !.beat = TRUE])
        /\ Set(p, [P EXCEPT !.pc = "loop", !.done = @ + Cardinality(P.step), !.step = {},
                            !.ok = FALSE, !.pend = IF Grouped(p) THEN {} ELSE @ \ P.step])
        /\ ReleaseLocks(p)
        /\ UNCHANGED <<facts, held>>

\* A check failed, or the database refused: the transaction rolls back.
RollBackStep(p) ==
    /\ poster[p].pc = "step"
    /\ ~poster[p].ok \/ "ERROR" \in Faults
    /\ Set(p, [poster[p] EXCEPT !.pc = "fail", !.ok = FALSE])
    /\ ReleaseLocks(p)
    /\ UNCHANGED <<facts, held, batch, item, link, ledger>>

\* Faulty variant: the failure mark does not spare an item posted meanwhile.
FailedAnyhow(s) == "FAILED"
FailedStatus(s) == IF s \in Pending THEN "FAILED" ELSE s

\* The exception handler's own transaction: mark the item, unless it is posted.
MarkFailed(p, k) ==
    LET b == poster[p].b
    IN  /\ poster[p].pc = "fail" /\ k \in poster[p].step /\ BatchFree(b)
        /\ item' = [item EXCEPT ![b][k] = FailedStatus(@)]
        /\ SetBatch(b, IF batch[b].st = "POSTING"
                       THEN [batch[b] EXCEPT !.beat = TRUE] ELSE batch[b])
        /\ Set(p, [poster[p] EXCEPT !.pc = "loop", !.failed = TRUE, !.step = {}])
        /\ UNCHANGED <<facts, held, link, ledger, memberLock, batchLock>>

\* Faulty variant: an unfinished run hands its batch back as POSTING.
BoundaryStaysPosting(p) == IF Complete(poster[p].b) THEN "POSTED" ELSE "POSTING"
\* Faulty variant: an incremental run goes back to DRY_RUN after a failure too.
BoundaryForgivesFailure(p) ==
    IF Complete(poster[p].b) THEN "POSTED"
    ELSE IF poster[p].limit > 0 THEN "DRY_RUN" ELSE "PARTIAL_FAILED"
\* An incremental run that stops at a step boundary has not failed.
FinalStatus(p) ==
    IF Complete(poster[p].b) THEN "POSTED"
    ELSE IF poster[p].limit > 0 /\ ~poster[p].failed THEN "DRY_RUN"
    ELSE "PARTIAL_FAILED"

\* The last transaction reads a snapshot without locking the batch ...
ReadFinal(p) ==
    LET P == poster[p]
    IN  /\ P.pc = "loop"
        /\ P.failed \/ P.pend = {} \/ (P.limit > 0 /\ P.done > 0)
        /\ Set(p, IF batch[P.b].st = "POSTING" /\ Reconciles(P.b)
                  THEN [P EXCEPT !.pc = "final", !.seen = Cardinality(PostedItems(P.b)),
                                 !.final = FinalStatus(p)]
                  ELSE Idle)
        /\ UNCHANGED <<facts, held, batch, item, link, ledger, memberLock, batchLock>>

\* ... and writes what it saw if the batch is still POSTING.
CommitFinal(p) ==
    LET P == poster[p]
    IN  /\ P.pc = "final" /\ BatchFree(P.b)
        /\ SetBatch(P.b, IF batch[P.b].st = "POSTING"
                         THEN [batch[P.b] EXCEPT !.st = P.final, !.posted = P.seen, !.beat = FALSE]
                         ELSE batch[P.b])
        /\ Set(p, Idle)
        /\ UNCHANGED <<facts, held, item, link, ledger, memberLock, batchLock>>

\* The process dies; MySQL rolls back whatever transaction it was in.
Crash(p) ==
    /\ "CRASH" \in Faults /\ poster[p].pc # "idle"
    /\ Set(p, Idle)
    /\ ReleaseLocks(p)
    /\ UNCHANGED <<facts, held, batch, item, link, ledger>>

Run(p) ==
    \/ LockStep(p) \/ CommitStep(p) \/ RollBackStep(p)
    \/ \E k \in Keys : MarkFailed(p, k)
    \/ ReadFinal(p) \/ CommitFinal(p)

Begin(p) ==
    \E b \in Batches, mode \in {"approval", "confirm"}, limit \in {0, StepLimit},
       resume \in BOOLEAN : BeginPost(p, b, mode, limit, resume)

Manage ==
    \/ \E u \in Users, b \in Batches, w \in Windows : DryRun(u, b, w)
    \/ \E b \in Batches : Submit(b) \/ Reconcile(b) \/ Close(b)
    \/ \E u \in Users, b \in Batches : Approve(u, b)
    \/ \E e \in ledger : Reverse(e)

Environment ==
    \/ \E k \in Keys : RecordFact(k) \/ ContextChanges(k)
    \/ \E b \in Batches : HeartbeatAges(b)
    \/ \E p \in Posters : Crash(p)

Next == Manage \/ Environment \/ \E p \in Posters : Begin(p) \/ Run(p)

Spec == Init /\ [][Next]_vars

-----------------------------------------------------------------------------
BatchRows ==
    [st : Statuses, win : Windows \cup {None}, src : SUBSET Keys, rules : SUBSET Keys,
     n : Nat, posted : Nat, maker : Users \cup {None}, approver : Users \cup {None},
     confirmed : BOOLEAN, beat : BOOLEAN]

PosterStates ==
    [pc : {"idle", "loop", "step", "fail", "final"}, b : Batches \cup {None},
     mode : {"approval", "confirm"}, limit : Nat, pend : SUBSET Keys, done : Nat,
     failed : BOOLEAN, step : SUBSET Keys, ok : BOOLEAN, seen : Nat,
     final : {"POSTED", "DRY_RUN", "PARTIAL_FAILED"}]

\* Every variable ranges over the rows the tables and the code admit.
TypeOK ==
    /\ facts \subseteq Keys /\ held \subseteq Keys
    /\ ledger \subseteq Credits \cup Reversals
    /\ batch \in [Batches -> BatchRows]
    /\ item \in [Batches -> [Keys -> ItemStatuses]]
    /\ link \in [Batches -> [Keys -> Credits \cup {NoEntry}]]
    /\ memberLock \in [Members -> Posters \cup {None}]
    /\ batchLock \in [Batches -> Posters \cup {None}]
    /\ poster \in [Posters -> PosterStates]

\* "The unique idempotency key is the concurrency boundary" and the row locks
\* keep it so: however many batches cover a fact and however many runs post
\* them, every credit entry is claimed by exactly one POSTED item of one batch.
ClaimedOnce ==
    \A e \in ledger : e.type = "CREDIT" =>
        \E b \in Batches :
            /\ item[b][e.key] = "POSTED" /\ link[b][e.key] = e
            /\ \A c \in Batches \ {b} : link[c][e.key] # e

\* No fact is ever credited by two entries.
CreditedOnce ==
    \A d, e \in ledger : d.type = "CREDIT" /\ e.type = "CREDIT" /\ d.key = e.key => d = e

\* A batch shown as POSTED or CLOSED is wholly in the ledger, and its total is
\* the number of its items: _reconcile_posted_items before the final status.
FinalTotalsExact ==
    \A b \in Batches : batch[b].st \in {"POSTED", "CLOSED"} =>
        /\ PostedItems(b) = Intended(b)
        /\ batch[b].posted = Cardinality(PostedItems(b))
        /\ \A k \in PostedItems(b) : link[b][k] \in ledger /\ link[b][k].key = k

\* A batch never reports more posted entries than the ledger holds for it, even
\* when a run that lost its batch writes a total read before the other's commits.
TotalsNeverOverstated ==
    \A b \in Batches : batch[b].posted <= Cardinality(PostedItems(b))

\* create_batches takes a zero total of a batch that is not being posted for "no
\* entry yet" and cancels it for a new preview: so an incremental run that stops
\* at a step boundary must leave a total that shows its entries.
PausedStepIsVisible ==
    \A b \in Batches :
        batch[b].st \in {"DRY_RUN", "PENDING_APPROVAL", "APPROVED"} /\ PostedItems(b) # {}
            => batch[b].posted > 0

\* Together: what the rows of batches and items say of the ledger, at rest, after failures and between two steps.
TotalsAgree == FinalTotalsExact /\ TotalsNeverOverstated /\ PausedStepIsVisible

\* Nothing reaches the ledger unless somebody other than the maker approved the
\* batch or an operator explicitly confirmed it against its source.
Sanctioned(b) ==
    batch[b].confirmed \/ batch[b].approver \notin {None, batch[b].maker}
OnlySanctionedCredits ==
    \A e \in ledger : e.type = "CREDIT" => Sanctioned(e.batch)

\* docs/verification/2026-09-07-C7每日读书与优秀分享DRY-RUN.md:19: at most Cap points
\* of excellent shares per learner and month, over all batches.
MonthlyCap == \A m \in Members : MonthPoints(m) <= Cap

\* Reconciliation can always end an abandoned POSTING state, except when another
\* batch has meanwhile posted one of the facts this one still had to post.
StaleIsRecoverable ==
    \A b \in Batches :
        batch[b].st = "POSTING" /\ ~Recoverable(b) =>
            \E k \in Intended(b) \ PostedItems(b) :
                \E c \in Batches \ {b} : item[c][k] = "POSTED"

\* Entries are only appended, and credits only under a batch that is POSTING: a
\* run that wakes up after its batch was recovered, finished or closed posts nothing.
AppendsOnlyWhilePosting ==
    [][/\ ledger \subseteq ledger'
       /\ \A e \in ledger' \ ledger : e.type = "CREDIT" => batch[e.batch].st = "POSTING"]_vars

\* A posted item keeps its entry for ever, and a closed batch and its items never
\* change again, whatever runs of it are still in flight.
PostedIsForGood ==
    [][\A b \in Batches :
         /\ \A k \in PostedItems(b) : item'[b][k] = "POSTED" /\ link'[b][k] = link[b][k]
         /\ batch[b].st = "CLOSED" =>
              batch'[b] = batch[b] /\ item'[b] = item[b] /\ link'[b] = link[b]]_vars

\* InnoDB serves row locks in the order of the requests and a run that does not
\* die keeps executing.
RunFairness == \A p \in Posters : SF_vars(Run(p))
FairSpec == Spec /\ RunFairness

\* As long as no process dies, every claim of a batch ends in a status of its own.
PostingEnds ==
    \A b \in Batches : batch[b].st = "POSTING" ~> batch[b].st # "POSTING"
(***************************************************************************)
(* The ledger as its readers see it: a fact is sanctioned when a batch that *)
(* holds it was approved or confirmed.                                     *)
(***************************************************************************)
SanctionedFacts == UNION {Intended(b) : b \in {c \in Batches : Sanctioned(c)}}
ReversalsOf(k) == {e \in EntriesOf(k) : Reversal(e) \in ledger}

Promised == INSTANCE CreditLedger
    WITH Facts <- Keys, Receipts <- Credits,
         recorded <- facts, sanctioned <- SanctionedFacts,
         credits <- [k \in Keys |-> EntriesOf(k)],
         reversals <- [k \in Keys |-> ReversalsOf(k)]

\* Whatever batches overlap, runs race, previews age or processes die, settlement
\* does to the ledger what CreditLedger allows: every change of it is one payment of
\* sanctioned, unpaid facts or one reversal (docstrings of _insert_entry, _post_batch).
KeepsTheLedgersPromise == Promised!LedgerSpec
=============================================================================
