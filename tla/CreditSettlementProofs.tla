------------------------ MODULE CreditSettlementProofs ------------------------
(***************************************************************************)
(* Theorems about CreditSettlement for every set of facts, learners,       *)
(* batches, users and posting runs, whatever faults are allowed.           *)
(***************************************************************************)
EXTENDS CreditSettlement, FiniteSetTheorems, TLAPS

(***************************************************************************)
(* Typing.                                                                 *)
(***************************************************************************)
\* Any set of facts has a natural number of elements.
LEMMA KeySetsFinite ==
    ASSUME NEW S \in SUBSET Keys
    PROVE  IsFiniteSet(S) /\ Cardinality(S) \in Nat
BY KeyAssumption, FS_Subset, FS_CardinalityType

\* A credit of the ledger is one of the rows the tables admit.
LEMMA CreditRows ==
    ASSUME TypeOK, NEW e \in ledger, e.type = "CREDIT"
    PROVE  /\ e \in Credits /\ e.key \in Keys /\ e.batch \in Batches /\ e.by \in Posters
           /\ Reversal(e) \in Reversals
BY DEF TypeOK, Credits, Reversals, Reversal, Credit

\* The entry an insert returns for a fact of the step exists and is its fact's.
LEMMA InsertReturnsEntry ==
    ASSUME TypeOK, NEW p \in Posters, poster[p].b \in Batches,
           NEW S \in SUBSET Keys, NEW k \in S
    PROVE  /\ EntryFor(k, ledger \cup Inserted(p, S)) \in ledger \cup Inserted(p, S)
           /\ EntryFor(k, ledger \cup Inserted(p, S)).type = "CREDIT"
           /\ EntryFor(k, ledger \cup Inserted(p, S)).key = k
           /\ EntryFor(k, ledger \cup Inserted(p, S)) \in Credits
<1> DEFINE entries == ledger \cup Inserted(p, S)
<1>1. \E e \in entries : e.type = "CREDIT" /\ e.key = k
  <2>1. CASE Posted(k)
    BY <2>1 DEF Posted, EntriesOf
  <2>2. CASE ~Posted(k)
    <3>1. Credit(k, poster[p].b, p) \in entries
      BY <2>2 DEF Inserted
    <3> QED BY <3>1 DEF Credit
  <2> QED BY <2>1, <2>2
<1>2. /\ EntryFor(k, entries) \in entries
      /\ EntryFor(k, entries).type = "CREDIT" /\ EntryFor(k, entries).key = k
  BY <1>1 DEF EntryFor
<1>3. Inserted(p, S) \subseteq Credits
  BY DEF Inserted, Credits
<1> QED BY <1>2, <1>3, CreditRows

\* A run past its claim works on a batch.
Claimed == \A p \in Posters : poster[p].pc # "idle" => poster[p].b \in Batches

\* Writing a well-typed row keeps the tables well typed.
LEMMA SetBatchTyped ==
    ASSUME TypeOK, NEW b \in Batches, NEW r \in BatchRows, SetBatch(b, r)
    PROVE  batch' \in [Batches -> BatchRows]
BY DEF TypeOK, SetBatch

LEMMA SetPosterTyped ==
    ASSUME TypeOK, Claimed, NEW p \in Posters, NEW r \in PosterStates,
           r.pc # "idle" => r.b \in Batches, Set(p, r)
    PROVE  poster' \in [Posters -> PosterStates] /\ Claimed'
BY DEF TypeOK, Claimed, Set

LEMMA IdleTyped == Idle \in PosterStates /\ Idle.pc = "idle"
BY DEF Idle, PosterStates

THEOREM TypeCorrect == Spec => [](TypeOK /\ Claimed)
<1>1. Init => TypeOK /\ Claimed
  <2> SUFFICES ASSUME Init PROVE TypeOK /\ Claimed
    OBVIOUS
  <2>1. Unused \in BatchRows
    BY DEF Unused, BatchRows, Statuses
  <2> QED BY <2>1, IdleTyped, KeyAssumption DEF Init, TypeOK, Claimed, ItemStatuses
<1>2. TypeOK /\ Claimed /\ [Next]_vars => TypeOK' /\ Claimed'
  <2> SUFFICES ASSUME TypeOK, Claimed, [Next]_vars PROVE TypeOK' /\ Claimed'
    OBVIOUS
  <2>a. /\ \A b \in Batches : batch[b] \in BatchRows
        /\ \A p \in Posters : poster[p] \in PosterStates
    BY DEF TypeOK
  <2>1. ASSUME NEW k \in Keys, RecordFact(k) PROVE TypeOK' /\ Claimed'
    BY <2>1 DEF RecordFact, TypeOK, Claimed
  <2>2. ASSUME NEW k \in Keys, ContextChanges(k) PROVE TypeOK' /\ Claimed'
    BY <2>2 DEF ContextChanges, TypeOK, Claimed
  <2>3. ASSUME NEW u \in Users, NEW b \in Batches, NEW w \in Windows, DryRun(u, b, w)
        PROVE  TypeOK' /\ Claimed'
    <3> DEFINE r == [Unused EXCEPT !.st = "DRY_RUN", !.win = w, !.src = Live(w),
                                   !.rules = RuleSnapshot(w),
                                   !.n = Cardinality(Ready(w)), !.maker = u]
    <3>1. /\ Ready(w) \in SUBSET Keys /\ Live(w) \in SUBSET Keys /\ RuleSnapshot(w) \in SUBSET Keys
      BY WindowAssumption DEF Ready, Live, RuleSnapshot
    <3>2. Cardinality(Ready(w)) \in Nat
      BY <3>1, KeySetsFinite
    <3>3. r \in BatchRows
      BY <3>1, <3>2 DEF Unused, BatchRows, Statuses
    <3>4. batch' \in [Batches -> BatchRows]
      BY <2>3, <3>3, SetBatchTyped DEF DryRun
    <3>5. item' \in [Batches -> [Keys -> ItemStatuses]]
      BY <2>3 DEF DryRun, ItemStatuses, Pending, TypeOK
    <3> QED BY <2>3, <3>4, <3>5 DEF DryRun, TypeOK, Claimed
  <2>4. ASSUME NEW b \in Batches, Submit(b) PROVE TypeOK' /\ Claimed'
    <3>1. [batch[b] EXCEPT !.st = "PENDING_APPROVAL"] \in BatchRows
      BY <2>a DEF BatchRows, Statuses
    <3>2. batch' \in [Batches -> BatchRows]
      BY <2>4, <3>1, SetBatchTyped DEF Submit
    <3> QED BY <2>4, <3>2 DEF Submit, TypeOK, Claimed
  <2>5. ASSUME NEW u \in Users, NEW b \in Batches, Approve(u, b) PROVE TypeOK' /\ Claimed'
    <3>1. [batch[b] EXCEPT !.st = "APPROVED", !.approver = u] \in BatchRows
      BY <2>a DEF BatchRows, Statuses
    <3>2. batch' \in [Batches -> BatchRows]
      BY <2>5, <3>1, SetBatchTyped DEF Approve
    <3>3. item' \in [Batches -> [Keys -> ItemStatuses]]
      BY <2>5 DEF Approve, ItemStatuses, Pending, TypeOK
    <3> QED BY <2>5, <3>2, <3>3 DEF Approve, TypeOK, Claimed
  <2>6. ASSUME NEW b \in Batches, HeartbeatAges(b) PROVE TypeOK' /\ Claimed'
    <3>1. [batch[b] EXCEPT !.beat = FALSE] \in BatchRows
      BY <2>a DEF BatchRows
    <3>2. batch' \in [Batches -> BatchRows]
      BY <2>6, <3>1, SetBatchTyped DEF HeartbeatAges
    <3> QED BY <2>6, <3>2 DEF HeartbeatAges, TypeOK, Claimed
  <2>7. ASSUME NEW b \in Batches, Reconcile(b) PROVE TypeOK' /\ Claimed'
    <3>1. Cardinality(PostedItems(b)) \in Nat
      BY KeySetsFinite DEF PostedItems
    <3>2. [batch[b] EXCEPT !.st = IF Complete(b) THEN "POSTED" ELSE "PARTIAL_FAILED",
              !.posted = Cardinality(PostedItems(b)), !.beat = FALSE] \in BatchRows
      BY <2>a, <3>1 DEF BatchRows, Statuses
    <3>3. batch' \in [Batches -> BatchRows]
      BY <2>7, <3>2, SetBatchTyped DEF Reconcile
    <3> QED BY <2>7, <3>3 DEF Reconcile, TypeOK, Claimed
  <2>8. ASSUME NEW b \in Batches, Close(b) PROVE TypeOK' /\ Claimed'
    <3>1. [batch[b] EXCEPT !.st = "CLOSED"] \in BatchRows
      BY <2>a DEF BatchRows, Statuses
    <3>2. batch' \in [Batches -> BatchRows]
      BY <2>8, <3>1, SetBatchTyped DEF Close
    <3> QED BY <2>8, <3>2 DEF Close, TypeOK, Claimed
  <2>9. ASSUME NEW e \in ledger, Reverse(e) PROVE TypeOK' /\ Claimed'
    <3>1. Reversal(e) \in Reversals
      BY <2>9, CreditRows DEF Reverse
    <3> QED BY <2>9, <3>1 DEF Reverse, TypeOK, Claimed
  <2>10. ASSUME NEW p \in Posters, NEW b \in Batches, NEW mode \in {"approval", "confirm"},
                NEW limit \in {0, StepLimit}, NEW resume \in BOOLEAN,
                BeginPost(p, b, mode, limit, resume)
         PROVE  TypeOK' /\ Claimed'
    <3> DEFINE r == [batch[b] EXCEPT !.st = "POSTING", !.beat = TRUE,
                                     !.confirmed = @ \/ mode = "confirm"]
               P == [Idle EXCEPT !.pc = "loop", !.b = b, !.mode = mode, !.limit = limit,
                                 !.pend = {k \in Keys : item[b][k] \in Takes(mode)}]
    <3>1. limit \in Nat
      BY LimitAssumption
    <3>2. r \in BatchRows
      BY <2>a DEF BatchRows, Statuses
    <3>3. P \in PosterStates /\ P.b \in Batches
      BY <3>1 DEF PosterStates, Idle
    <3>4. batch' \in [Batches -> BatchRows]
      BY <2>10, <3>2, SetBatchTyped DEF BeginPost
    <3>5. poster' \in [Posters -> PosterStates] /\ Claimed'
      BY <2>10, <3>3, SetPosterTyped DEF BeginPost
    <3> QED BY <2>10, <3>4, <3>5 DEF BeginPost, TypeOK
  <2>11. ASSUME NEW p \in Posters, LockStep(p) PROVE TypeOK' /\ Claimed'
    <3> DEFINE P == [poster[p] EXCEPT !.pc = "step", !.step = NextStep(p),
                                      !.ok = StepAllowed(p, NextStep(p))]
    <3>1. NextStep(p) \in SUBSET Keys
      BY <2>a DEF NextStep, PosterStates
    <3>2. StepAllowed(p, NextStep(p)) \in BOOLEAN
      BY DEF StepAllowed
    <3>3. P \in PosterStates
      BY <2>a, <3>1, <3>2 DEF PosterStates
    <3>4. poster[p].b \in Batches /\ P.b = poster[p].b
      BY <2>11, <2>a DEF LockStep, Claimed, PosterStates
    <3>5. poster' \in [Posters -> PosterStates] /\ Claimed'
      BY <2>11, <3>3, <3>4, SetPosterTyped DEF LockStep
    <3> QED BY <2>11, <3>4, <3>5 DEF LockStep, TypeOK
  <2>12. ASSUME NEW p \in Posters, CommitStep(p) PROVE TypeOK' /\ Claimed'
    <3> DEFINE P == [poster[p] EXCEPT !.pc = "loop", !.done = @ + Cardinality(poster[p].step),
                       !.step = {}, !.ok = FALSE,
                       !.pend = IF Grouped(p) THEN {} ELSE @ \ poster[p].step]
    <3>1. poster[p].b \in Batches /\ poster[p].step \in SUBSET Keys
      BY <2>12, <2>a DEF CommitStep, Claimed, PosterStates
    <3>2. ledger' \subseteq Credits \cup Reversals
      BY <2>12, <3>1 DEF CommitStep, Inserted, Credits, TypeOK
    <3>a. \A k \in poster[p].step : EntryFor(k, ledger \cup Inserted(p, poster[p].step)) \in Credits
      BY <3>1, InsertReturnsEntry
    <3>3. link' \in [Batches -> [Keys -> Credits \cup {NoEntry}]]
      BY <2>12, <3>1, <3>a DEF CommitStep, TypeOK
    <3>4. item' \in [Batches -> [Keys -> ItemStatuses]]
      BY <2>12, <3>1 DEF CommitStep, ItemStatuses, TypeOK
    <3>b. poster[p].done + Cardinality(poster[p].step) \in Nat
      BY <2>a, <3>1, KeySetsFinite DEF PosterStates
    <3>5. P \in PosterStates /\ P.b = poster[p].b
      BY <2>a, <3>b DEF PosterStates
    <3>6. poster' \in [Posters -> PosterStates] /\ Claimed'
      BY <2>12, <3>1, <3>5, SetPosterTyped DEF CommitStep
    <3>7. [batch[poster[p].b] EXCEPT !.beat = TRUE] \in BatchRows
      BY <2>a, <3>1 DEF BatchRows
    <3>8. batch' \in [Batches -> BatchRows]
      BY <2>12, <3>1, <3>7, SetBatchTyped DEF CommitStep
    <3>9. UNCHANGED <<facts, held>> /\ ReleaseLocks(p)
      BY <2>12 DEF CommitStep
    <3> QED BY <3>2, <3>3, <3>4, <3>6, <3>8, <3>9 DEF ReleaseLocks, TypeOK
  <2>13. ASSUME NEW p \in Posters, RollBackStep(p) PROVE TypeOK' /\ Claimed'
    <3>1. /\ [poster[p] EXCEPT !.pc = "fail", !.ok = FALSE] \in PosterStates
          /\ [poster[p] EXCEPT !.pc = "fail", !.ok = FALSE].b \in Batches
      BY <2>13, <2>a DEF RollBackStep, Claimed, PosterStates
    <3>2. poster' \in [Posters -> PosterStates] /\ Claimed'
      BY <2>13, <3>1, SetPosterTyped DEF RollBackStep
    <3> QED BY <2>13, <3>2 DEF RollBackStep, ReleaseLocks, TypeOK
  <2>14. ASSUME NEW p \in Posters, NEW k \in Keys, MarkFailed(p, k) PROVE TypeOK' /\ Claimed'
    <3> DEFINE b == poster[p].b
               P == [poster[p] EXCEPT !.pc = "loop", !.failed = TRUE, !.step = {}]
    <3>1. b \in Batches
      BY <2>14 DEF MarkFailed, Claimed
    <3>2. P \in PosterStates /\ P.b = b
      BY <2>a DEF PosterStates
    <3>3. poster' \in [Posters -> PosterStates] /\ Claimed'
      BY <2>14, <3>1, <3>2, SetPosterTyped DEF MarkFailed
    <3>4. batch[b] \in BatchRows /\ [batch[b] EXCEPT !.beat = TRUE] \in BatchRows
      BY <2>a, <3>1 DEF BatchRows
    <3>5. batch' \in [Batches -> BatchRows]
      BY <2>14, <3>1, <3>4, SetBatchTyped DEF MarkFailed
    <3>6. item' \in [Batches -> [Keys -> ItemStatuses]]
      BY <2>14, <3>1 DEF MarkFailed, FailedStatus, ItemStatuses, Pending, TypeOK
    <3> QED BY <2>14, <3>3, <3>5, <3>6 DEF MarkFailed, TypeOK
  <2>15. ASSUME NEW p \in Posters, ReadFinal(p) PROVE TypeOK' /\ Claimed'
    <3> DEFINE P == [poster[p] EXCEPT !.pc = "final",
                       !.seen = Cardinality(PostedItems(poster[p].b)), !.final = FinalStatus(p)]
    <3>1. Cardinality(PostedItems(poster[p].b)) \in Nat
      BY KeySetsFinite DEF PostedItems
    <3>2. FinalStatus(p) \in {"POSTED", "DRY_RUN", "PARTIAL_FAILED"}
      BY DEF FinalStatus
    <3>3. P \in PosterStates /\ P.b = poster[p].b /\ poster[p].b \in Batches
      BY <2>15, <2>a, <3>1, <3>2 DEF ReadFinal, Claimed, PosterStates
    <3>4. poster' \in [Posters -> PosterStates] /\ Claimed'
      BY <2>15, <3>3, IdleTyped, SetPosterTyped DEF ReadFinal
    <3> QED BY <2>15, <3>4 DEF ReadFinal, TypeOK
  <2>16. ASSUME NEW p \in Posters, CommitFinal(p) PROVE TypeOK' /\ Claimed'
    <3> DEFINE b == poster[p].b
    <3>1. b \in Batches /\ poster[p] \in PosterStates
      BY <2>16, <2>a DEF CommitFinal, Claimed
    <3>a. poster[p].final \in Statuses /\ poster[p].seen \in Nat
      BY <3>1 DEF PosterStates, Statuses
    <3>2. batch[b] \in BatchRows
          /\ [batch[b] EXCEPT !.st = poster[p].final, !.posted = poster[p].seen, !.beat = FALSE]
               \in BatchRows
      BY <2>a, <3>1, <3>a DEF BatchRows
    <3>3. batch' \in [Batches -> BatchRows]
      BY <2>16, <3>1, <3>2, SetBatchTyped DEF CommitFinal
    <3>4. poster' \in [Posters -> PosterStates] /\ Claimed'
      BY <2>16, IdleTyped, SetPosterTyped DEF CommitFinal
    <3> QED BY <2>16, <3>3, <3>4 DEF CommitFinal, TypeOK
  <2>17. ASSUME NEW p \in Posters, Crash(p) PROVE TypeOK' /\ Claimed'
    <3>1. poster' \in [Posters -> PosterStates] /\ Claimed'
      BY <2>17, IdleTyped, SetPosterTyped DEF Crash
    <3> QED BY <2>17, <3>1 DEF Crash, ReleaseLocks, TypeOK
  <2>18. CASE UNCHANGED vars
    BY <2>18 DEF vars, TypeOK, Claimed
  <2> QED
    BY <2>1, <2>2, <2>3, <2>4, <2>5, <2>6, <2>7, <2>8, <2>9, <2>10, <2>11, <2>12, <2>13,
       <2>14, <2>15, <2>16, <2>17, <2>18 DEF Next, Manage, Environment, Run, Begin
<1> QED BY <1>1, <1>2, PTL DEF Spec


(***************************************************************************)
(* The ledger and the items.  ClaimedOnce is not inductive: that a step in *)
(* flight will find its facts uncredited and its items unposted when it    *)
(* commits follows from the row locks it holds (Locked, Safe), that the    *)
(* preview looked at the facts it posts from the freeze of the batch       *)
(* (Frozen), and that cutting a batch disturbs no posted item from Fresh.  *)
(***************************************************************************)
Fresh == \A b \in Batches : batch[b].st = "NONE" => \A k \in Keys : item[b][k] = "NONE"

Frozen == \A b \in Batches : Intended(b) \subseteq batch[b].src

Linked ==
    \A b \in Batches, k \in Keys :
        IF item[b][k] = "POSTED"
        THEN link[b][k] \in ledger /\ link[b][k].type = "CREDIT" /\ link[b][k].key = k
        ELSE link[b][k] = NoEntry

Owned ==
    \A e \in ledger : e.type = "CREDIT" =>
        \E b \in Batches : item[b][e.key] = "POSTED" /\ link[b][e.key] = e

OneBatch ==
    \A b, c \in Batches, k \in Keys :
        item[b][k] = "POSTED" /\ item[c][k] = "POSTED" => b = c

Locked ==
    \A p \in Posters : poster[p].pc = "step" =>
        /\ batchLock[poster[p].b] = p
        /\ \A k \in poster[p].step : memberLock[Owner[k]] = p

Safe ==
    \A p \in Posters : poster[p].pc = "step" /\ poster[p].ok =>
        /\ batch[poster[p].b].st = "POSTING"
        /\ \A k \in poster[p].step : item[poster[p].b][k] \in Pending /\ ~Posted(k)

LedgerInv == Fresh /\ Frozen /\ Linked /\ Owned /\ OneBatch /\ Locked /\ Safe

\* A step that may go on takes only pending items of facts nobody has credited.
LEMMA StepLooksAtFacts ==
    ASSUME TypeOK, Claimed, LedgerInv, NEW p \in Posters, poster[p].pc # "idle",
           NEW S \in SUBSET Keys, StepAllowed(p, S)
    PROVE  /\ batch[poster[p].b].st = "POSTING"
           /\ \A k \in S : item[poster[p].b][k] \in Pending /\ ~Posted(k)
<1> DEFINE b == poster[p].b
<1>1. b \in Batches
  BY DEF Claimed
<1>2. batch[b].st = "POSTING" /\ PreviewHolds(b) /\ ItemsOpen(p, S)
  BY DEF StepAllowed
<1>3. \A k \in S : item[b][k] \in Pending
  BY <1>2 DEF ItemsOpen, Takes, Pending
<1>4. \A k \in S : k \in Intended(b) /\ k \notin PostedItems(b)
  BY <1>3 DEF Intended, PostedItems, Pending
<1>5. Intended(b) \subseteq Live(batch[b].win)
  BY <1>1, <1>2 DEF LedgerInv, Frozen, PreviewHolds
<1>6. \A k \in Live(batch[b].win) \ PostedItems(b) : k \in Intended(b) => ~Posted(k)
  BY <1>2 DEF PreviewHolds
<1> QED BY <1>2, <1>3, <1>4, <1>5, <1>6

\* What a commit puts into the ledger: one new entry for each fact of the step.
LEMMA CommitWrites ==
    ASSUME TypeOK, Claimed, LedgerInv, NEW p \in Posters, CommitStep(p)
    PROVE  LET b == poster[p].b
               S == poster[p].step
           IN  /\ b \in Batches /\ S \in SUBSET Keys /\ batch[b].st = "POSTING"
               /\ \A k \in S : item[b][k] \in Pending /\ ~Posted(k)
               /\ ledger' = ledger \cup {Credit(k, b, p) : k \in S}
               /\ \A k \in S : EntryFor(k, ledger') = Credit(k, b, p)
               /\ \A k \in S : item'[b][k] = "POSTED" /\ link'[b][k] = Credit(k, b, p)
               /\ \A k \in Keys \ S : item'[b][k] = item[b][k] /\ link'[b][k] = link[b][k]
               /\ \A c \in Batches \ {b} : item'[c] = item[c] /\ link'[c] = link[c]
               /\ \A c \in Batches : batch'[c] = IF c = b THEN [batch[b] EXCEPT !.beat = TRUE]
                                                 ELSE batch[c]
<1> DEFINE b == poster[p].b
           S == poster[p].step
<1>1. b \in Batches /\ S \in SUBSET Keys /\ poster[p].pc = "step" /\ poster[p].ok
  BY DEF CommitStep, Claimed, TypeOK, PosterStates
<1>2. batch[b].st = "POSTING" /\ \A k \in S : item[b][k] \in Pending /\ ~Posted(k)
  BY <1>1 DEF LedgerInv, Safe
<1>3. Inserted(p, S) = {Credit(k, b, p) : k \in S}
  BY <1>2 DEF Inserted
<1>4. ledger' = ledger \cup {Credit(k, b, p) : k \in S}
  BY <1>3 DEF CommitStep
<1>5. ASSUME NEW k \in S PROVE EntryFor(k, ledger') = Credit(k, b, p)
  <2>1. \A e \in ledger' : e.type = "CREDIT" /\ e.key = k => e = Credit(k, b, p)
    BY <1>2, <1>4 DEF Posted, EntriesOf, Credit
  <2>2. Credit(k, b, p) \in ledger' /\ Credit(k, b, p).type = "CREDIT" /\ Credit(k, b, p).key = k
    BY <1>4 DEF Credit
  <2> QED BY <2>1, <2>2 DEF EntryFor
<1>6. /\ item' = [item EXCEPT ![b] = [k \in Keys |-> IF k \in S THEN "POSTED" ELSE @[k]]]
      /\ link' = [link EXCEPT ![b] = [k \in Keys |-> IF k \in S THEN EntryFor(k, ledger') ELSE @[k]]]
      /\ batch' = [batch EXCEPT ![b] = [batch[b] EXCEPT !.beat = TRUE]]
  BY <1>3, <1>4 DEF CommitStep, SetBatch
<1> QED BY <1>1, <1>2, <1>4, <1>5, <1>6 DEF TypeOK

\* Actions that leave items, links and ledger alone keep all but the locks' part.
LEMMA QuietStep ==
    ASSUME TypeOK, Claimed, LedgerInv, UNCHANGED <<item, link, ledger>>,
           \A b \in Batches : /\ batch'[b].src = batch[b].src
                              /\ batch'[b].st = "NONE" => batch[b].st = "NONE",
           Locked', Safe'
    PROVE  LedgerInv'
BY DEF LedgerInv, Fresh, Frozen, Linked, Owned, OneBatch, Intended

\* Rewriting one free batch's row keeps what the runs in flight rely on.
LEMMA FreeBatchStep ==
    ASSUME TypeOK, Claimed, LedgerInv, NEW b \in Batches, BatchFree(b), NEW r \in BatchRows,
           SetBatch(b, r), r.src = batch[b].src, r.st # "NONE",
           UNCHANGED <<item, link, ledger, memberLock, batchLock>>,
           \A p \in Posters : poster'[p].pc = "step" => poster'[p] = poster[p]
    PROVE  LedgerInv'
<1>1. \A c \in Batches \ {b} : batch'[c] = batch[c]
  BY DEF SetBatch, TypeOK
<1>2. batch'[b] = r
  BY DEF SetBatch, TypeOK
<1>3. Locked'
  BY DEF LedgerInv, Locked
<1>4. \A p \in Posters : poster[p].pc = "step" => poster[p].b # b /\ poster[p].b \in Batches
  BY NoneAssumption DEF LedgerInv, Locked, BatchFree, Claimed
<1>5. Safe'
  BY <1>1, <1>4 DEF LedgerInv, Safe, Posted, EntriesOf
<1> QED BY <1>1, <1>2, <1>3, <1>5, QuietStep

THEOREM LedgerInvariant == Spec => []LedgerInv
<1>1. Init => LedgerInv
  BY DEF Init, LedgerInv, Fresh, Frozen, Linked, Owned, OneBatch, Locked, Safe, Idle, Unused,
         Intended, Pending
<1>2. TypeOK /\ TypeOK' /\ Claimed /\ LedgerInv /\ [Next]_vars => LedgerInv'
  <2> SUFFICES ASSUME TypeOK, TypeOK', Claimed, LedgerInv, [Next]_vars PROVE LedgerInv'
    OBVIOUS
  <2>a. /\ \A b \in Batches : batch[b] \in BatchRows /\ batch'[b] \in BatchRows
        /\ \A p \in Posters : poster[p] \in PosterStates
    BY DEF TypeOK
  <2>1. ASSUME NEW k \in Keys, RecordFact(k) PROVE LedgerInv'
    BY <2>1, QuietStep DEF RecordFact, LedgerInv, Locked, Safe, Posted, EntriesOf
  <2>2. ASSUME NEW k \in Keys, ContextChanges(k) PROVE LedgerInv'
    BY <2>2, QuietStep DEF ContextChanges, LedgerInv, Locked, Safe, Posted, EntriesOf
  <2>3. ASSUME NEW u \in Users, NEW b \in Batches, NEW w \in Windows, DryRun(u, b, w)
        PROVE  LedgerInv'
    <3>1. /\ batch'[b].st = "DRY_RUN" /\ batch'[b].src = Live(w)
          /\ \A c \in Batches \ {b} : batch'[c] = batch[c]
      BY <2>3 DEF DryRun, SetBatch, Unused, TypeOK
    <3>2. /\ \A k \in Keys : /\ item[b][k] = "NONE" /\ item'[b][k] \in {"PROPOSED", "BLOCKED", "NONE"}
                             /\ item'[b][k] = "PROPOSED" => k \in Ready(w)
          /\ \A c \in Batches \ {b} : item'[c] = item[c]
      BY <2>3 DEF DryRun, LedgerInv, Fresh, TypeOK
    <3>3. UNCHANGED <<link, ledger, memberLock, batchLock, poster>>
      BY <2>3 DEF DryRun
    <3>a. Ready(w) \subseteq Live(w)
      BY DEF Ready
    <3>b. Fresh'
      BY <3>1, <3>2 DEF LedgerInv, Fresh
    <3>c. Frozen'
      BY <3>1, <3>2, <3>a DEF LedgerInv, Frozen, Intended, Pending
    <3>4. Fresh' /\ Frozen'
      BY <3>b, <3>c
    <3>5. Linked'
      BY <3>2, <3>3 DEF LedgerInv, Linked
    <3>6. Owned'
      <4> SUFFICES ASSUME NEW e \in ledger, e.type = "CREDIT"
                   PROVE  \E c \in Batches : item'[c][e.key] = "POSTED" /\ link[c][e.key] = e
        BY <3>3 DEF Owned
      <4>1. PICK c \in Batches : item[c][e.key] = "POSTED" /\ link[c][e.key] = e
        BY DEF LedgerInv, Owned
      <4>2. c # b
        BY <3>2, <4>1, CreditRows
      <4> QED BY <3>2, <4>1, <4>2
    <3>7. OneBatch'
      BY <3>2 DEF LedgerInv, OneBatch
    <3>8. Locked' /\ Safe'
      BY <2>3, <3>1, <3>2, <3>3 DEF DryRun, LedgerInv, Locked, Safe, Posted, EntriesOf, Claimed
    <3> QED BY <3>4, <3>5, <3>6, <3>7, <3>8 DEF LedgerInv
  <2>4. ASSUME NEW b \in Batches, Submit(b) PROVE LedgerInv'
    <3>1. [batch[b] EXCEPT !.st = "PENDING_APPROVAL"] \in BatchRows
      BY <2>a DEF BatchRows, Statuses
    <3> QED BY <2>4, <2>a, <3>1, FreeBatchStep DEF Submit, BatchRows
  <2>5. ASSUME NEW u \in Users, NEW b \in Batches, Approve(u, b) PROVE LedgerInv'
    <3>1. /\ batch'[b].st = "APPROVED" /\ batch'[b].src = batch[b].src
          /\ \A c \in Batches \ {b} : batch'[c] = batch[c]
      BY <2>5, <2>a DEF Approve, SetBatch, BatchRows, TypeOK
    <3>2. /\ \A k \in Keys : item'[b][k] = IF item[b][k] = "PROPOSED" THEN "APPROVED" ELSE item[b][k]
          /\ \A c \in Batches \ {b} : item'[c] = item[c]
      BY <2>5 DEF Approve, TypeOK
    <3>3. UNCHANGED <<link, ledger, memberLock, batchLock, poster>> /\ BatchFree(b)
      BY <2>5 DEF Approve
    <3>4. Fresh' /\ Frozen'
      BY <3>1, <3>2 DEF LedgerInv, Fresh, Frozen, Intended, Pending
    <3>5. Linked' /\ OneBatch'
      BY <3>2, <3>3 DEF LedgerInv, Linked, OneBatch
    <3>6. Owned'
      BY <3>2, <3>3, CreditRows DEF LedgerInv, Owned
    <3>7. Locked'
      BY <3>3 DEF LedgerInv, Locked
    <3>8. \A p \in Posters : poster[p].pc = "step" => poster[p].b # b /\ poster[p].b \in Batches
      BY <3>3, NoneAssumption DEF LedgerInv, Locked, BatchFree, Claimed
    <3>9. Safe'
      BY <3>1, <3>2, <3>3, <3>8 DEF LedgerInv, Safe, Posted, EntriesOf
    <3> QED BY <3>4, <3>5, <3>6, <3>7, <3>9 DEF LedgerInv
  <2>6. ASSUME NEW b \in Batches, HeartbeatAges(b) PROVE LedgerInv'
    <3>1. \A c \in Batches : batch'[c].st = batch[c].st /\ batch'[c].src = batch[c].src
      BY <2>6, <2>a DEF HeartbeatAges, SetBatch, BatchRows, TypeOK
    <3> QED BY <2>6, <3>1, QuietStep
            DEF HeartbeatAges, LedgerInv, Locked, Safe, Posted, EntriesOf, Claimed
  <2>7. ASSUME NEW b \in Batches, Reconcile(b) PROVE LedgerInv'
    <3> DEFINE r == [batch[b] EXCEPT !.st = IF Complete(b) THEN "POSTED" ELSE "PARTIAL_FAILED",
              !.posted = Cardinality(PostedItems(b)), !.beat = FALSE]
    <3>1. Cardinality(PostedItems(b)) \in Nat
      BY KeySetsFinite DEF PostedItems
    <3>2. r \in BatchRows /\ r.src = batch[b].src /\ r.st # "NONE"
      BY <2>a, <3>1 DEF BatchRows, Statuses
    <3> QED BY <2>7, <3>2, FreeBatchStep DEF Reconcile
  <2>8. ASSUME NEW b \in Batches, Close(b) PROVE LedgerInv'
    <3>1. [batch[b] EXCEPT !.st = "CLOSED"] \in BatchRows
      BY <2>a DEF BatchRows, Statuses
    <3> QED BY <2>8, <2>a, <3>1, FreeBatchStep DEF Close, BatchRows
  <2>9. ASSUME NEW e \in ledger, Reverse(e) PROVE LedgerInv'
    <3>1. /\ ledger' = ledger \cup {Reversal(e)} /\ Reversal(e).type = "REVERSAL"
          /\ UNCHANGED <<batch, item, link, memberLock, batchLock, poster>>
      BY <2>9 DEF Reverse, Reversal
    <3>2. Locked' /\ Safe'
      BY <3>1 DEF LedgerInv, Locked, Safe, Posted, EntriesOf
    <3> QED BY <3>1, <3>2 DEF LedgerInv, Fresh, Frozen, Linked, Owned, OneBatch, Intended
  <2>10. ASSUME NEW p \in Posters, NEW b \in Batches, NEW mode \in {"approval", "confirm"},
                NEW limit \in {0, StepLimit}, NEW resume \in BOOLEAN,
                BeginPost(p, b, mode, limit, resume)
         PROVE  LedgerInv'
    <3> DEFINE r == [batch[b] EXCEPT !.st = "POSTING", !.beat = TRUE,
                                     !.confirmed = @ \/ mode = "confirm"]
    <3>1. r \in BatchRows /\ r.src = batch[b].src /\ r.st = "POSTING"
      BY <2>a DEF BatchRows, Statuses
    <3>2. \A q \in Posters : poster'[q].pc = "step" => poster'[q] = poster[q]
      BY <2>10 DEF BeginPost, Set, Idle, TypeOK
    <3> QED BY <2>10, <3>1, <3>2, FreeBatchStep DEF BeginPost
  <2>11. ASSUME NEW p \in Posters, LockStep(p) PROVE LedgerInv'
    <3> DEFINE S == NextStep(p)
               b == poster[p].b
    <3>1. b \in Batches /\ S \in SUBSET Keys /\ poster[p].pc = "loop"
      BY <2>11, <2>a DEF LockStep, Claimed, NextStep, PosterStates
    <3>2. /\ UNCHANGED <<batch, item, link, ledger>>
          /\ \A q \in Posters \ {p} : poster'[q] = poster[q]
          /\ poster'[p].pc = "step" /\ poster'[p].b = b
          /\ poster'[p].step = S /\ poster'[p].ok = StepAllowed(p, S)
      BY <2>11, <2>a DEF LockStep, Set, TypeOK, PosterStates
    <3>3. /\ batchLock[b] = None /\ batchLock' = [batchLock EXCEPT ![b] = p]
          /\ \A k \in S : memberLock[Owner[k]] = None /\ memberLock'[Owner[k]] = p
          /\ \A m \in Members : memberLock'[m] = p \/ memberLock'[m] = memberLock[m]
          /\ \A m \in Members : memberLock'[m] # memberLock[m] => memberLock[m] = None
      BY <2>11, <3>1, OwnerAssumption DEF LockStep, LockedMembers, BatchFree
    <3>4. Locked'
      <4> SUFFICES ASSUME NEW q \in Posters, poster'[q].pc = "step"
                   PROVE  /\ batchLock'[poster'[q].b] = q
                          /\ \A k \in poster'[q].step : memberLock'[Owner[k]] = q
        BY DEF Locked
      <4>1. CASE q = p
        BY <3>1, <3>2, <3>3, <4>1 DEF TypeOK
      <4>2. CASE q # p
        <5>1. /\ poster'[q] = poster[q] /\ poster[q].b \in Batches
              /\ poster[q].step \in SUBSET Keys /\ batchLock[poster[q].b] = q
              /\ \A k \in poster[q].step : memberLock[Owner[k]] = q
          BY <3>2, <4>2, <2>a DEF LedgerInv, Locked, Claimed, PosterStates
        <5> QED BY <3>3, <5>1, NoneAssumption, OwnerAssumption DEF TypeOK
      <4> QED BY <4>1, <4>2
    <3>5. Safe'
      BY <3>1, <3>2, StepLooksAtFacts DEF LedgerInv, Safe, Posted, EntriesOf
    <3> QED BY <3>2, <3>4, <3>5, QuietStep
  <2>12. ASSUME NEW p \in Posters, CommitStep(p) PROVE LedgerInv'
    <3> DEFINE b == poster[p].b
               S == poster[p].step
    <3>1. /\ b \in Batches /\ S \in SUBSET Keys /\ batch[b].st = "POSTING"
          /\ \A k \in S : item[b][k] \in Pending /\ ~Posted(k)
          /\ ledger' = ledger \cup {Credit(k, b, p) : k \in S}
          /\ \A k \in S : item'[b][k] = "POSTED" /\ link'[b][k] = Credit(k, b, p)
          /\ \A k \in Keys \ S : item'[b][k] = item[b][k] /\ link'[b][k] = link[b][k]
          /\ \A c \in Batches \ {b} : item'[c] = item[c] /\ link'[c] = link[c]
      BY <2>12, CommitWrites
    <3>2. \A c \in Batches : batch'[c].st = batch[c].st /\ batch'[c].src = batch[c].src
      <4>1. \A c \in Batches : batch'[c] = IF c = b THEN [batch[b] EXCEPT !.beat = TRUE] ELSE batch[c]
        BY <2>12, CommitWrites
      <4>2. /\ [batch[b] EXCEPT !.beat = TRUE].st = batch[b].st
            /\ [batch[b] EXCEPT !.beat = TRUE].src = batch[b].src
        BY <3>1, <2>a DEF BatchRows
      <4> QED BY <4>1, <4>2
    <3>3. \A k \in S, c \in Batches : item[c][k] # "POSTED"
      BY <3>1 DEF LedgerInv, Linked, Posted, EntriesOf
    <3>4. Fresh' /\ Frozen'
      BY <3>1, <3>2 DEF LedgerInv, Fresh, Frozen, Intended, Pending
    <3>5. Linked'
      <4> SUFFICES ASSUME NEW c \in Batches, NEW k \in Keys
                   PROVE  IF item'[c][k] = "POSTED"
                          THEN link'[c][k] \in ledger' /\ link'[c][k].type = "CREDIT"
                               /\ link'[c][k].key = k
                          ELSE link'[c][k] = NoEntry
        BY DEF Linked
      <4>1. IF item[c][k] = "POSTED"
            THEN link[c][k] \in ledger /\ link[c][k].type = "CREDIT" /\ link[c][k].key = k
            ELSE link[c][k] = NoEntry
        BY DEF LedgerInv, Linked
      <4>2. CASE c = b /\ k \in S
        <5>1. link'[c][k] = Credit(k, b, p) /\ Credit(k, b, p) \in ledger' /\ item'[c][k] = "POSTED"
          BY <3>1, <4>2
        <5>2. Credit(k, b, p).type = "CREDIT" /\ Credit(k, b, p).key = k
          BY DEF Credit
        <5> QED BY <5>1, <5>2
      <4>3. CASE ~(c = b /\ k \in S)
        <5>1. item'[c][k] = item[c][k] /\ link'[c][k] = link[c][k]
          BY <3>1, <4>3
        <5>2. ledger \subseteq ledger'
          BY <3>1
        <5> QED BY <4>1, <5>1, <5>2
      <4> QED BY <4>2, <4>3
    <3>6. Owned'
      <4> SUFFICES ASSUME NEW e \in ledger', e.type = "CREDIT"
                   PROVE  \E c \in Batches : item'[c][e.key] = "POSTED" /\ link'[c][e.key] = e
        BY DEF Owned
      <4>1. CASE e \in ledger
        <5>1. PICK c \in Batches : item[c][e.key] = "POSTED" /\ link[c][e.key] = e
          BY <4>1 DEF LedgerInv, Owned
        <5>2. e.key \in Keys
          BY <4>1, CreditRows
        <5> QED BY <3>1, <3>3, <5>1, <5>2
      <4>2. CASE e \notin ledger
        BY <3>1, <4>2 DEF Credit
      <4> QED BY <4>1, <4>2
    <3>7. OneBatch'
      BY <3>1, <3>3 DEF LedgerInv, OneBatch
    <3>8. /\ \A q \in Posters \ {p} : poster'[q] = poster[q]
          /\ poster'[p].pc = "loop"
          /\ \A c \in Batches : batchLock[c] # p => batchLock'[c] = batchLock[c]
          /\ \A m \in Members : memberLock[m] # p => memberLock'[m] = memberLock[m]
      BY <2>12, <2>a DEF CommitStep, Set, ReleaseLocks, TypeOK, PosterStates
    <3>9. \A q \in Posters \ {p} : poster[q].pc = "step" =>
            /\ poster[q].b \in Batches /\ poster[q].step \in SUBSET Keys
            /\ poster[q].b # b /\ S \cap poster[q].step = {}
      BY <2>12, <2>a DEF CommitStep, LedgerInv, Locked, Claimed, PosterStates
    <3>10. Locked'
      BY <3>8, <3>9, OwnerAssumption DEF LedgerInv, Locked
    <3>11. Safe'
      <4> SUFFICES ASSUME NEW q \in Posters, poster'[q].pc = "step", poster'[q].ok
                   PROVE  /\ batch'[poster'[q].b].st = "POSTING"
                          /\ \A k \in poster'[q].step : /\ item'[poster'[q].b][k] \in Pending
                                                        /\ ~Posted(k)'
        BY DEF Safe
      <4>1. q # p /\ poster'[q] = poster[q]
        BY <3>8
      <4>2. /\ batch[poster[q].b].st = "POSTING"
            /\ \A k \in poster[q].step : item[poster[q].b][k] \in Pending /\ ~Posted(k)
        BY <4>1 DEF LedgerInv, Safe
      <4>3. \A k \in poster[q].step : ~Posted(k)'
        BY <3>1, <3>9, <4>1, <4>2 DEF Posted, EntriesOf, Credit
      <4> QED BY <3>1, <3>2, <3>9, <4>1, <4>2, <4>3
    <3> QED BY <3>4, <3>5, <3>6, <3>7, <3>10, <3>11 DEF LedgerInv
  <2>13. ASSUME NEW p \in Posters, RollBackStep(p) PROVE LedgerInv'
    <3>1. /\ \A q \in Posters \ {p} : poster'[q] = poster[q]
          /\ poster'[p].pc = "fail" /\ UNCHANGED <<batch, item, link, ledger>>
          /\ \A c \in Batches : batchLock[c] # p => batchLock'[c] = batchLock[c]
          /\ \A m \in Members : memberLock[m] # p => memberLock'[m] = memberLock[m]
      BY <2>13, <2>a DEF RollBackStep, Set, ReleaseLocks, TypeOK, PosterStates
    <3>2. Locked'
      BY <3>1, <2>a, OwnerAssumption DEF LedgerInv, Locked, Claimed, PosterStates
    <3>3. Safe'
      BY <3>1 DEF LedgerInv, Safe, Posted, EntriesOf
    <3> QED BY <3>1, <3>2, <3>3, QuietStep
  <2>14. ASSUME NEW p \in Posters, NEW k \in Keys, MarkFailed(p, k) PROVE LedgerInv'
    <3> DEFINE b == poster[p].b
    <3>1. b \in Batches /\ BatchFree(b) /\ UNCHANGED <<link, ledger, memberLock, batchLock>>
      BY <2>14 DEF MarkFailed, Claimed
    <3>2. /\ item'[b][k] = IF item[b][k] \in Pending THEN "FAILED" ELSE item[b][k]
          /\ \A c \in Batches, j \in Keys : c # b \/ j # k => item'[c][j] = item[c][j]
      BY <2>14, <3>1 DEF MarkFailed, FailedStatus, TypeOK
    <3>3. \A c \in Batches : batch'[c].st = batch[c].st /\ batch'[c].src = batch[c].src
      BY <2>14, <2>a, <3>1 DEF MarkFailed, SetBatch, BatchRows, TypeOK
    <3>4. /\ \A q \in Posters \ {p} : poster'[q] = poster[q]
          /\ poster'[p].pc = "loop"
      BY <2>14, <2>a DEF MarkFailed, Set, TypeOK, PosterStates
    <3>5. \A c \in Batches, j \in Keys :
            /\ item'[c][j] = "POSTED" <=> item[c][j] = "POSTED"
            /\ item'[c][j] \in Pending <=> item[c][j] \in Pending
            /\ item[c][j] = "NONE" => item'[c][j] = "NONE"
      BY <3>2 DEF Pending
    <3>6. Fresh' /\ Frozen'
      BY <3>3, <3>5 DEF LedgerInv, Fresh, Frozen, Intended
    <3>7. Linked' /\ OneBatch'
      BY <3>1, <3>5 DEF LedgerInv, Linked, OneBatch
    <3>8. Owned'
      BY <3>1, <3>5, CreditRows DEF LedgerInv, Owned
    <3>9. Locked'
      BY <3>1, <3>4 DEF LedgerInv, Locked
    <3>10. Safe'
      BY <2>a, <3>1, <3>3, <3>4, <3>5 DEF LedgerInv, Safe, Posted, EntriesOf, Claimed, PosterStates
    <3> QED BY <3>6, <3>7, <3>8, <3>9, <3>10 DEF LedgerInv
  <2>15. ASSUME NEW p \in Posters, ReadFinal(p) PROVE LedgerInv'
    <3>1. /\ \A q \in Posters \ {p} : poster'[q] = poster[q]
          /\ poster'[p].pc \in {"final", "idle"}
          /\ UNCHANGED <<batch, item, link, ledger, memberLock, batchLock>>
      BY <2>15, <2>a DEF ReadFinal, Set, Idle, TypeOK, PosterStates
    <3>2. Locked' /\ Safe'
      BY <3>1 DEF LedgerInv, Locked, Safe, Posted, EntriesOf
    <3> QED BY <3>1, <3>2, QuietStep
  <2>16. ASSUME NEW p \in Posters, CommitFinal(p) PROVE LedgerInv'
    <3> DEFINE b == poster[p].b
    <3>1. b \in Batches /\ BatchFree(b) /\ UNCHANGED <<item, link, ledger, memberLock, batchLock>>
      BY <2>16 DEF CommitFinal, Claimed
    <3>2. \A q \in Posters : poster'[q].pc = "step" => poster'[q] = poster[q]
      BY <2>16 DEF CommitFinal, Set, Idle, TypeOK
    <3>3. CASE batch[b].st = "POSTING"
      <4> DEFINE r == [batch[b] EXCEPT !.st = poster[p].final, !.posted = poster[p].seen,
                                       !.beat = FALSE]
      <4>1. poster[p].final \in Statuses \ {"NONE"} /\ poster[p].seen \in Nat
        BY <2>a DEF PosterStates, Statuses
      <4>a. batch[b] \in BatchRows /\ poster[p].final \in Statuses
        BY <2>a, <3>1, <4>1
      <4>2. r \in BatchRows
        BY <4>a, <4>1 DEF BatchRows
      <4>4. r.src = batch[b].src /\ r.st = poster[p].final
        BY <2>a, <3>1 DEF BatchRows
      <4>3. SetBatch(b, r)
        BY <2>16, <3>3 DEF CommitFinal
      <4> QED BY <3>1, <3>2, <4>1, <4>2, <4>3, <4>4, FreeBatchStep
    <3>4. CASE batch[b].st # "POSTING"
      <4>1. batch' = batch
        BY <2>16, <3>1, <3>4 DEF CommitFinal, SetBatch, TypeOK
      <4>2. Locked' /\ Safe'
        BY <3>1, <3>2, <4>1 DEF LedgerInv, Locked, Safe, Posted, EntriesOf
      <4> QED BY <3>1, <4>1, <4>2, QuietStep
    <3> QED BY <3>3, <3>4
  <2>17. ASSUME NEW p \in Posters, Crash(p) PROVE LedgerInv'
    <3>1. /\ \A q \in Posters \ {p} : poster'[q] = poster[q]
          /\ poster'[p].pc = "idle" /\ UNCHANGED <<batch, item, link, ledger>>
          /\ \A c \in Batches : batchLock[c] # p => batchLock'[c] = batchLock[c]
          /\ \A m \in Members : memberLock[m] # p => memberLock'[m] = memberLock[m]
      BY <2>17 DEF Crash, Set, ReleaseLocks, Idle, TypeOK
    <3>2. Locked'
      BY <3>1, <2>a, OwnerAssumption DEF LedgerInv, Locked, Claimed, PosterStates
    <3>3. Safe'
      BY <3>1 DEF LedgerInv, Safe, Posted, EntriesOf
    <3> QED BY <3>1, <3>2, <3>3, QuietStep
  <2>18. CASE UNCHANGED vars
    BY <2>18, QuietStep DEF vars, LedgerInv, Locked, Safe, Posted, EntriesOf
  <2> QED
    BY <2>1, <2>2, <2>3, <2>4, <2>5, <2>6, <2>7, <2>8, <2>9, <2>10, <2>11, <2>12, <2>13,
       <2>14, <2>15, <2>16, <2>17, <2>18 DEF Next, Manage, Environment, Run, Begin
<1>3. Spec => [](TypeOK /\ Claimed)
  BY TypeCorrect
<1> QED BY <1>1, <1>2, <1>3, PTL DEF Spec

\* Every credit belongs to exactly one posted item.
THEOREM CreditsClaimedOnce == Spec => []ClaimedOnce
<1>1. TypeOK /\ LedgerInv => ClaimedOnce
  <2> SUFFICES ASSUME TypeOK, LedgerInv, NEW e \in ledger, e.type = "CREDIT"
               PROVE  \E b \in Batches :
                        /\ item[b][e.key] = "POSTED" /\ link[b][e.key] = e
                        /\ \A c \in Batches \ {b} : link[c][e.key] # e
    BY DEF ClaimedOnce
  <2>1. PICK b \in Batches : item[b][e.key] = "POSTED" /\ link[b][e.key] = e
    BY DEF LedgerInv, Owned
  <2>2. e.key \in Keys
    BY CreditRows
  <2>3. \A c \in Batches \ {b} : link[c][e.key] = NoEntry
    BY <2>1, <2>2 DEF LedgerInv, OneBatch, Linked
  <2> QED BY <2>1, <2>3 DEF NoEntry
<1> QED BY <1>1, TypeCorrect, LedgerInvariant, PTL

\* No fact is credited twice, whatever batches cover it.
THEOREM CreditsUnique == Spec => []CreditedOnce
<1>1. TypeOK /\ LedgerInv => CreditedOnce
  BY DEF CreditedOnce, LedgerInv, Owned, OneBatch, TypeOK, Credits, Reversals, Credit, Reversal
<1> QED BY <1>1, TypeCorrect, LedgerInvariant, PTL

\* Credits enter the ledger only under a POSTING batch, and nothing leaves it.
THEOREM LedgerAppends == Spec => AppendsOnlyWhilePosting
<1>1. TypeOK /\ Claimed /\ LedgerInv /\ [Next]_vars =>
        [/\ ledger \subseteq ledger'
         /\ \A e \in ledger' \ ledger : e.type = "CREDIT" => batch[e.batch].st = "POSTING"]_vars
  <2> SUFFICES ASSUME TypeOK, Claimed, LedgerInv, Next
               PROVE  /\ ledger \subseteq ledger'
                      /\ \A e \in ledger' \ ledger :
                           e.type = "CREDIT" => batch[e.batch].st = "POSTING"
    OBVIOUS
  <2>1. ASSUME NEW p \in Posters, CommitStep(p)
        PROVE  /\ ledger \subseteq ledger'
               /\ \A e \in ledger' \ ledger : e.type = "CREDIT" => batch[e.batch].st = "POSTING"
    <3>1. /\ batch[poster[p].b].st = "POSTING"
          /\ ledger' = ledger \cup {Credit(k, poster[p].b, p) : k \in poster[p].step}
      BY <2>1, CommitWrites
    <3>2. \A k : Credit(k, poster[p].b, p).batch = poster[p].b
      BY DEF Credit
    <3> QED BY <3>1, <3>2
  <2>2. ASSUME NEW e \in ledger, Reverse(e)
        PROVE  ledger \subseteq ledger' /\ \A d \in ledger' \ ledger : d.type # "CREDIT"
    BY <2>2 DEF Reverse, Reversal
  <2>3. ASSUME \/ Environment
               \/ \E u \in Users, b \in Batches, w \in Windows : DryRun(u, b, w)
               \/ \E b \in Batches : Submit(b) \/ Reconcile(b) \/ Close(b)
               \/ \E u \in Users, b \in Batches : Approve(u, b)
        PROVE  ledger' = ledger
    BY <2>3 DEF Environment, DryRun, Submit, Reconcile, Close, Approve, RecordFact,
                ContextChanges, HeartbeatAges, Crash
  <2>4. ASSUME NEW p \in Posters, Begin(p) \/ (Run(p) /\ ~CommitStep(p))
        PROVE  ledger' = ledger
    BY <2>4 DEF Begin, BeginPost, Run, LockStep, RollBackStep, MarkFailed, ReadFinal, CommitFinal
  <2>5. CASE ledger' = ledger
    BY <2>5
  <2> QED BY <2>1, <2>2, <2>3, <2>4, <2>5 DEF Next, Manage
<1> QED BY <1>1, TypeCorrect, LedgerInvariant, PTL DEF Spec, AppendsOnlyWhilePosting

=============================================================================
