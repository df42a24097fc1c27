------------------------ MODULE SettlementTotalsProofs ------------------------
(***************************************************************************)
(* What the rows of batches and items promise, for every set of facts,     *)
(* learners, batches, users and posting runs: totals that agree with the   *)
(* ledger, posted items that stay, an abandoned posting that can be        *)
(* recovered, and the monthly cap of excellent shares.                     *)
(***************************************************************************)
EXTENDS CreditSettlementProofs

(***************************************************************************)
(* Totals.  What a run has read or counted stays a lower bound of what is  *)
(* posted, because items of a batch are cut once and never leave POSTED.   *)
(***************************************************************************)
CutFromSpan ==
    \A b \in Batches :
        /\ batch[b].n = Cardinality(Intended(b)) /\ batch[b].rules \subseteq batch[b].src
        /\ batch[b].st # "NONE" => batch[b].win \in Windows /\ batch[b].src \subseteq Span[batch[b].win]

TotalOK(b) ==
    /\ batch[b].posted <= Cardinality(PostedItems(b))
    /\ batch[b].st \in {"POSTED", "CLOSED"} =>
         PostedItems(b) = Intended(b) /\ batch[b].posted = Cardinality(PostedItems(b))
    /\ batch[b].st \in {"DRY_RUN", "PENDING_APPROVAL", "APPROVED"} /\ PostedItems(b) # {} => batch[b].posted > 0

RunOK(P) ==
    /\ batch[P.b].st # "NONE"
    /\ P.done > 0 => PostedItems(P.b) # {}
    /\ P.limit > 0 /\ P.done = 0 => Intended(P.b) \ PostedItems(P.b) \subseteq P.pend
    /\ P.pc = "step" => P.step # {}
    /\ P.pc = "final" =>
         /\ P.seen <= Cardinality(PostedItems(P.b))
         /\ P.final = "POSTED" => PostedItems(P.b) = Intended(P.b) /\ P.seen = Cardinality(PostedItems(P.b))
         /\ P.final = "DRY_RUN" => P.seen > 0

Totals == \A b \in Batches : TotalOK(b)
Runs == \A p \in Posters : poster[p].pc # "idle" => RunOK(poster[p])
TotalsInv == CutFromSpan /\ Totals /\ Runs

\* The items of a batch are finitely many, and posted ones are among those it intended.
LEMMA ItemsCount ==
    ASSUME NEW b \in Batches
    PROVE  /\ Intended(b) \in SUBSET Keys /\ PostedItems(b) \subseteq Intended(b)
           /\ Cardinality(Intended(b)) \in Nat /\ Cardinality(PostedItems(b)) \in Nat
           /\ Cardinality(PostedItems(b)) = Cardinality(Intended(b)) => PostedItems(b) = Intended(b)
           /\ PostedItems(b) = {} <=> Cardinality(PostedItems(b)) = 0
<1>1. Intended(b) \in SUBSET Keys /\ PostedItems(b) \in SUBSET Intended(b)
  BY DEF Intended, PostedItems
<1>2. IsFiniteSet(Intended(b)) /\ IsFiniteSet(PostedItems(b))
  BY <1>1, KeySetsFinite, FS_Subset
<1>3. Cardinality(Intended(b)) \in Nat /\ Cardinality(PostedItems(b)) \in Nat
  BY <1>2, FS_CardinalityType
<1>4. Cardinality(Intended(b)) = Cardinality(PostedItems(b)) => Intended(b) = PostedItems(b)
  BY <1>1, <1>2, FS_Subset
<1>5. PostedItems(b) = {} <=> Cardinality(PostedItems(b)) = 0
  BY <1>2, FS_EmptySet
<1> QED BY <1>1, <1>3, <1>4, <1>5

\* Some fact of a set is the smallest: no fact of the set precedes it.
LEMMA SmallestFact ==
    ASSUME NEW S \in SUBSET Keys, S # {}
    PROVE  \E k \in S : Cardinality({j \in S : j < k}) = 0
<1> DEFINE Smaller == {ss \in Nat \X Nat : ss[1] < ss[2]}
<1>1. IsWellFoundedOn(Smaller, Nat)
  BY NatLessThanWellFounded DEF OpToRel
<1>2. S \in SUBSET Nat
  BY KeyAssumption
<1>3. PICK k \in S : \A j \in S : ~(<<j, k>> \in Smaller)
  BY <1>1, <1>2, WFMin
<1>4. {j \in S : j < k} = {}
  BY <1>2, <1>3
<1> QED BY <1>4, FS_EmptySet

\* A run that still has items takes at least one in a step.
LEMMA StepTakesSome ==
    ASSUME TypeOK, NEW p \in Posters, poster[p].pend # {}
    PROVE  NextStep(p) # {}
<1>1. poster[p].pend \in SUBSET Keys /\ poster[p].limit \in Nat
  BY DEF TypeOK, PosterStates
<1>2. PICK k \in poster[p].pend : Cardinality({j \in poster[p].pend : j < k}) = 0
  BY <1>1, SmallestFact
<1>3. Grouped(p) => poster[p].limit > 0
  BY DEF Grouped
<1>4. k \in NextStep(p)
  BY <1>1, <1>2, <1>3 DEF NextStep
<1> QED BY <1>4

\* What a run knows stays true while items are only posted.
LEMMA RunGoesOn ==
    ASSUME NEW P, P.b \in Batches, RunOK(P), P.seen \in Nat, P.done \in Nat,
           Intended(P.b)' = Intended(P.b), PostedItems(P.b) \subseteq PostedItems(P.b)', batch'[P.b].st # "NONE"
    PROVE  RunOK(P)'
<1>1. /\ PostedItems(P.b) \in SUBSET Keys /\ PostedItems(P.b)' \in SUBSET Keys
      /\ PostedItems(P.b)' \subseteq Intended(P.b)'
  BY DEF PostedItems, Intended
<1>2. IsFiniteSet(PostedItems(P.b)') /\ PostedItems(P.b) \in SUBSET (PostedItems(P.b)')
  BY <1>1, KeySetsFinite
<1>3. /\ Cardinality(PostedItems(P.b)) <= Cardinality(PostedItems(P.b)')
      /\ Cardinality(PostedItems(P.b)) \in Nat /\ Cardinality(PostedItems(P.b)') \in Nat
  BY <1>1, <1>2, KeySetsFinite, FS_Subset
<1>4. P.pc = "final" /\ P.final = "POSTED" => PostedItems(P.b)' = PostedItems(P.b)
  BY <1>1 DEF RunOK
<1> QED BY <1>1, <1>3, <1>4 DEF RunOK

\* Steps after the cut: items are only posted, the cut stays, and totals and runs are looked at one by one.
LEMMA CutStays ==
    ASSUME TypeOK, Claimed, TotalsInv, Totals',
           \A b \in Batches : /\ Intended(b)' = Intended(b) /\ PostedItems(b) \subseteq PostedItems(b)'
                              /\ batch'[b].n = batch[b].n /\ batch'[b].rules = batch[b].rules
                              /\ batch'[b].src = batch[b].src /\ batch'[b].win = batch[b].win
                              /\ batch'[b].st = "NONE" <=> batch[b].st = "NONE",
           \A p \in Posters : poster'[p] = poster[p] \/ poster'[p].pc = "idle" \/ RunOK(poster[p])'
    PROVE  TotalsInv'
<1>1. CutFromSpan'
  BY DEF TotalsInv, CutFromSpan
<1>2. ASSUME NEW p \in Posters, poster'[p].pc # "idle" PROVE RunOK(poster[p])'
  <2>1. CASE poster'[p] = poster[p]
    <3> DEFINE P == poster[p]
    <3>1. P.pc # "idle" /\ RunOK(P) /\ P.b \in Batches /\ P.seen \in Nat /\ P.done \in Nat
      BY <1>2, <2>1 DEF TotalsInv, Runs, Claimed, TypeOK, PosterStates
    <3>2. batch'[P.b].st # "NONE"
      BY <3>1 DEF RunOK
    <3> HIDE DEF P
    <3>3. \A Q : Q = P => RunOK(Q)'
      BY <3>1, <3>2, RunGoesOn
    <3> QED BY <2>1, <3>3 DEF P
  <2> QED BY <1>2, <2>1
<1> QED BY <1>1, <1>2 DEF TotalsInv, Runs

\* The row of one batch is written: its status, its total, its heartbeat or its sanction.
LEMMA RowIsWritten ==
    ASSUME TypeOK, Claimed, TotalsInv, NEW b \in Batches, NEW r \in BatchRows, SetBatch(b, r), UNCHANGED item,
           r.n = batch[b].n, r.rules = batch[b].rules, r.src = batch[b].src, r.win = batch[b].win,
           r.st # "NONE", batch[b].st # "NONE", r.posted <= Cardinality(PostedItems(b)),
           r.st \in {"POSTED", "CLOSED"} => PostedItems(b) = Intended(b) /\ r.posted = Cardinality(PostedItems(b)),
           r.st \in {"DRY_RUN", "PENDING_APPROVAL", "APPROVED"} /\ PostedItems(b) # {} => r.posted > 0,
           \A p \in Posters : poster'[p] = poster[p] \/ poster'[p].pc = "idle" \/ RunOK(poster[p])'
    PROVE  TotalsInv'
<1>1. batch'[b] = r /\ \A c \in Batches \ {b} : batch'[c] = batch[c]
  BY DEF SetBatch, TypeOK
<1>2. \A c \in Batches : Intended(c)' = Intended(c) /\ PostedItems(c)' = PostedItems(c)
  BY DEF Intended, PostedItems
<1>3. Totals'
  BY <1>1, <1>2 DEF TotalsInv, Totals, TotalOK
<1>4. \A c \in Batches : /\ Intended(c)' = Intended(c) /\ PostedItems(c) \subseteq PostedItems(c)'
                         /\ batch'[c].n = batch[c].n /\ batch'[c].rules = batch[c].rules
                         /\ batch'[c].src = batch[c].src /\ batch'[c].win = batch[c].win
                         /\ batch'[c].st = "NONE" <=> batch[c].st = "NONE"
  BY <1>1, <1>2
<1> QED BY <1>3, <1>4, CutStays

\* Nothing of batches and items changes.
LEMMA OnlyRunsMove ==
    ASSUME TypeOK, Claimed, TotalsInv, UNCHANGED <<batch, item>>,
           \A p \in Posters : poster'[p] = poster[p] \/ poster'[p].pc = "idle" \/ RunOK(poster[p])'
    PROVE  TotalsInv'
<1>1. Totals' /\ \A c \in Batches : Intended(c)' = Intended(c) /\ PostedItems(c)' = PostedItems(c)
  BY DEF TotalsInv, Totals, TotalOK, Intended, PostedItems
<1> QED BY <1>1, CutStays

\* A batch is complete when as many items are posted as it intended: then all are.
LEMMA CompleteIsAll ==
    ASSUME TotalsInv, NEW b \in Batches
    PROVE  Complete(b) <=> PostedItems(b) = Intended(b)
BY ItemsCount DEF TotalsInv, CutFromSpan, Complete

LEMMA CutStep ==
    ASSUME TypeOK, Claimed, TotalsInv, NEW u \in Users, NEW b \in Batches, NEW w \in Windows, DryRun(u, b, w)
    PROVE  TotalsInv'
<1>1. /\ batch'[b] = [Unused EXCEPT !.st = "DRY_RUN", !.win = w, !.src = Live(w), !.rules = RuleSnapshot(w),
                                    !.n = Cardinality(Ready(w)), !.maker = u]
      /\ batch[b].st = "NONE" /\ UNCHANGED poster
      /\ \A c \in Batches \ {b} : batch'[c] = batch[c] /\ item'[c] = item[c]
      /\ item'[b] = [k \in Keys |-> IF k \in Ready(w) THEN "PROPOSED" ELSE IF k \in Blocked(w) THEN "BLOCKED" ELSE "NONE"]
  BY DEF DryRun, SetBatch, TypeOK
<1>2. Ready(w) \subseteq Keys /\ Live(w) \subseteq Span[w] /\ RuleSnapshot(w) \subseteq Live(w)
  BY WindowAssumption DEF Ready, Live, RuleSnapshot
<1>3. Intended(b)' = Ready(w) /\ PostedItems(b)' = {}
  BY <1>1, <1>2 DEF Intended, PostedItems, Pending
<1>4. \A c \in Batches \ {b} : Intended(c)' = Intended(c) /\ PostedItems(c)' = PostedItems(c)
  BY <1>1 DEF Intended, PostedItems
<1>5. /\ batch'[b].st = "DRY_RUN" /\ batch'[b].win = w /\ batch'[b].src = Live(w) /\ batch'[b].rules = RuleSnapshot(w)
      /\ batch'[b].n = Cardinality(Ready(w)) /\ batch'[b].posted = 0
  BY <1>1 DEF Unused
<1>a. \A c \in Batches \ {b} : batch'[c] = batch[c]
  BY <1>1
<1>6. CutFromSpan'
  BY <1>a, <1>2, <1>3, <1>4, <1>5 DEF TotalsInv, CutFromSpan
<1>7. Totals'
  <2>1. TotalOK(b)'
    BY <1>3, <1>5, FS_EmptySet DEF TotalOK
  <2>2. ASSUME NEW c \in Batches \ {b} PROVE TotalOK(c)'
    BY <1>a, <1>4 DEF TotalsInv, Totals, TotalOK
  <2> QED BY <2>1, <2>2 DEF Totals
<1>8. \A p \in Posters : poster[p].pc # "idle" => poster[p].b \in Batches \ {b}
  BY <1>1 DEF TotalsInv, Runs, RunOK, Claimed
<1>9. Runs'
  <2> SUFFICES ASSUME NEW p \in Posters, poster[p].pc # "idle" PROVE RunOK(poster[p])'
    BY <1>1 DEF Runs
  <2> QED BY <1>1, <1>4, <1>8 DEF TotalsInv, Runs, RunOK
<1> QED BY <1>6, <1>7, <1>9 DEF TotalsInv

LEMMA ManageStep ==
    ASSUME TypeOK, Claimed, TotalsInv, NEW b \in Batches,
           Submit(b) \/ HeartbeatAges(b) \/ Reconcile(b) \/ Close(b)
    PROVE  TotalsInv'
<1>1. batch[b] \in BatchRows /\ TotalOK(b)
  BY DEF TypeOK, TotalsInv, Totals
<1>2. Cardinality(PostedItems(b)) \in Nat
  BY ItemsCount
<1>3. CASE Submit(b)
  <2> DEFINE r == [batch[b] EXCEPT !.st = "PENDING_APPROVAL"]
  <2>1. /\ r \in BatchRows /\ r.n = batch[b].n /\ r.rules = batch[b].rules /\ r.src = batch[b].src /\ r.win = batch[b].win
        /\ r.st = "PENDING_APPROVAL" /\ r.posted = batch[b].posted
    BY <1>1 DEF BatchRows, Statuses
  <2>2. SetBatch(b, r) /\ UNCHANGED <<item, poster>> /\ batch[b].st = "DRY_RUN" /\ PostedItems(b) = {}
    BY <1>3 DEF Submit
  <2> QED BY <1>1, <2>1, <2>2, RowIsWritten DEF TotalOK
<1>4. CASE HeartbeatAges(b)
  <2> DEFINE r == [batch[b] EXCEPT !.beat = FALSE]
  <2>1. /\ r \in BatchRows /\ r.n = batch[b].n /\ r.rules = batch[b].rules /\ r.src = batch[b].src /\ r.win = batch[b].win
        /\ r.st = batch[b].st /\ r.posted = batch[b].posted
    BY <1>1 DEF BatchRows
  <2>2. SetBatch(b, r) /\ UNCHANGED <<item, poster>> /\ batch[b].st = "POSTING"
    BY <1>4 DEF HeartbeatAges
  <2> QED BY <1>1, <2>1, <2>2, RowIsWritten DEF TotalOK
<1>5. CASE Reconcile(b)
  <2> DEFINE st == IF Complete(b) THEN "POSTED" ELSE "PARTIAL_FAILED"
             n == Cardinality(PostedItems(b))
             r == [batch[b] EXCEPT !.st = st, !.posted = n, !.beat = FALSE]
  <2>1. SetBatch(b, r) /\ UNCHANGED <<item, poster>> /\ batch[b].st = "POSTING"
    BY <1>5 DEF Reconcile
  <2>2. st \in Statuses \ {"NONE"} /\ (st = "POSTED" => PostedItems(b) = Intended(b)) /\ st \in {"POSTED", "PARTIAL_FAILED"}
    BY CompleteIsAll DEF Statuses
  <2>3. n \in Nat /\ n = Cardinality(PostedItems(b))
    BY <1>2
  <2> HIDE DEF st, n
  <2>4. /\ r \in BatchRows /\ r.n = batch[b].n /\ r.rules = batch[b].rules /\ r.src = batch[b].src /\ r.win = batch[b].win
        /\ r.st = st /\ r.posted = n
    BY <1>1, <2>2, <2>3 DEF BatchRows
  <2> HIDE DEF r
  <2> QED BY <2>1, <2>2, <2>3, <2>4, RowIsWritten
<1>6. CASE Close(b)
  <2> DEFINE r == [batch[b] EXCEPT !.st = "CLOSED"]
  <2>1. /\ r \in BatchRows /\ r.n = batch[b].n /\ r.rules = batch[b].rules /\ r.src = batch[b].src /\ r.win = batch[b].win
        /\ r.st = "CLOSED" /\ r.posted = batch[b].posted
    BY <1>1 DEF BatchRows, Statuses
  <2>2. SetBatch(b, r) /\ UNCHANGED <<item, poster>> /\ batch[b].st = "POSTED"
    BY <1>6 DEF Close
  <2> QED BY <1>1, <2>1, <2>2, RowIsWritten DEF TotalOK
<1> QED BY <1>3, <1>4, <1>5, <1>6

LEMMA ApproveStep ==
    ASSUME TypeOK, Claimed, TotalsInv, NEW u \in Users, NEW b \in Batches, Approve(u, b)
    PROVE  TotalsInv'
<1>1. /\ batch'[b] = [batch[b] EXCEPT !.st = "APPROVED", !.approver = u] /\ batch[b].st = "PENDING_APPROVAL"
      /\ \A c \in Batches \ {b} : batch'[c] = batch[c] /\ item'[c] = item[c]
      /\ item'[b] = [k \in Keys |-> IF item[b][k] = "PROPOSED" THEN "APPROVED" ELSE item[b][k]]
      /\ PostedItems(b) = {} /\ UNCHANGED poster
  BY DEF Approve, SetBatch, TypeOK
<1>2. \A c \in Batches : Intended(c)' = Intended(c) /\ PostedItems(c)' = PostedItems(c)
  BY <1>1 DEF Intended, PostedItems, Pending
<1>3. /\ batch'[b].st = "APPROVED" /\ batch'[b].posted = batch[b].posted /\ batch'[b].n = batch[b].n
      /\ batch'[b].rules = batch[b].rules /\ batch'[b].src = batch[b].src /\ batch'[b].win = batch[b].win
  BY <1>1 DEF TypeOK, BatchRows
<1>a. \A c \in Batches \ {b} : batch'[c] = batch[c]
  BY <1>1
<1>4. Totals'
  <2>1. TotalOK(b)'
    BY <1>1, <1>2, <1>3 DEF TotalsInv, Totals, TotalOK
  <2>2. ASSUME NEW c \in Batches \ {b} PROVE TotalOK(c)'
    BY <1>a, <1>2 DEF TotalsInv, Totals, TotalOK
  <2> QED BY <2>1, <2>2 DEF Totals
<1>b. /\ batch[b].st = "PENDING_APPROVAL" /\ UNCHANGED poster
      /\ \A c \in Batches \ {b} : batch'[c] = batch[c]
  BY <1>1
<1> QED BY <1>b, <1>2, <1>3, <1>4, CutStays

LEMMA BeginStep ==
    ASSUME TypeOK, Claimed, TotalsInv, NEW p \in Posters, NEW b \in Batches, NEW mode \in {"approval", "confirm"},
           NEW limit \in {0, StepLimit}, NEW resume \in BOOLEAN, BeginPost(p, b, mode, limit, resume)
    PROVE  TotalsInv'
<1> DEFINE conf == batch[b].confirmed \/ mode = "confirm"
           r == [batch[b] EXCEPT !.st = "POSTING", !.beat = TRUE, !.confirmed = conf]
           pend == {k \in Keys : item[b][k] \in Takes(mode)}
           P == [Idle EXCEPT !.pc = "loop", !.b = b, !.mode = mode, !.limit = limit, !.pend = pend]
<1>1. batch[b] \in BatchRows /\ TotalOK(b)
  BY DEF TypeOK, TotalsInv, Totals
<1>2. /\ r \in BatchRows /\ r.n = batch[b].n /\ r.rules = batch[b].rules /\ r.src = batch[b].src /\ r.win = batch[b].win
      /\ r.st = "POSTING" /\ r.posted = batch[b].posted
  <2>1. conf \in BOOLEAN
    BY <1>1 DEF BatchRows
  <2> HIDE DEF conf
  <2> QED BY <1>1, <2>1 DEF BatchRows, Statuses
<1>3. /\ SetBatch(b, r) /\ UNCHANGED item /\ batch[b].st # "NONE" /\ (limit > 0 => mode = "confirm")
      /\ poster'[p] = P /\ \A q \in Posters \ {p} : poster'[q] = poster[q]
  BY DEF BeginPost, Set, TypeOK
<1>4. mode = "confirm" => pend = Intended(b) \ PostedItems(b)
  BY DEF Takes, Intended, PostedItems, Pending
<1>5. P.pc = "loop" /\ P.b = b /\ P.done = 0 /\ P.limit = limit /\ P.pend = pend
  BY DEF Idle
<1>6. batch'[b].st = "POSTING" /\ Intended(b)' = Intended(b) /\ PostedItems(b)' = PostedItems(b)
  BY <1>2, <1>3 DEF SetBatch, TypeOK, Intended, PostedItems
<1> HIDE DEF P, pend, r
<1>7. RunOK(poster[p])'
  BY <1>3, <1>4, <1>5, <1>6 DEF RunOK
<1> QED BY <1>1, <1>2, <1>3, <1>7, RowIsWritten DEF TotalOK

\* A run that takes its locks, loses its transaction or dies.
LEMMA LockOrLose ==
    ASSUME TypeOK, Claimed, TotalsInv, NEW p \in Posters, LockStep(p) \/ RollBackStep(p) \/ Crash(p)
    PROVE  TotalsInv'
<1>1. /\ UNCHANGED <<batch, item>> /\ \A q \in Posters \ {p} : poster'[q] = poster[q]
      /\ poster[p] \in PosterStates
  BY DEF LockStep, RollBackStep, Crash, Set, TypeOK
<1>2. CASE Crash(p)
  <2>1. poster'[p].pc = "idle"
    BY <1>2, IdleTyped DEF Crash, Set, TypeOK
  <2> QED BY <1>1, <2>1, OnlyRunsMove
<1>3. ASSUME ~Crash(p) PROVE RunOK(poster[p])'
  <2>1. poster[p].pc # "idle" /\ RunOK(poster[p])
    BY <1>3 DEF LockStep, RollBackStep, TotalsInv, Runs
  <2>2. /\ poster'[p].b = poster[p].b /\ poster'[p].done = poster[p].done /\ poster'[p].limit = poster[p].limit
        /\ poster'[p].pend = poster[p].pend
        /\ (poster'[p].pc = "step" /\ poster'[p].step # {}) \/ poster'[p].pc = "fail"
    <3>1. CASE LockStep(p)
      <4> DEFINE ok == StepAllowed(p, NextStep(p))
                 step == NextStep(p)
      <4>1. poster'[p] = [poster[p] EXCEPT !.pc = "step", !.step = step, !.ok = ok] /\ step # {}
        BY <3>1, StepTakesSome DEF LockStep, Set, TypeOK
      <4> HIDE DEF ok, step
      <4> QED BY <1>1, <4>1 DEF PosterStates
    <3>2. CASE RollBackStep(p)
      BY <1>1, <3>2 DEF RollBackStep, Set, TypeOK, PosterStates
    <3> QED BY <1>3, <3>1, <3>2
  <2> QED BY <1>1, <2>1, <2>2 DEF RunOK, Intended, PostedItems
<1> QED BY <1>1, <1>2, <1>3, OnlyRunsMove

LEMMA PostStep ==
    ASSUME TypeOK, TypeOK', Claimed, LedgerInv, TotalsInv, NEW p \in Posters, CommitStep(p)
    PROVE  TotalsInv'
<1>0. PICK b \in Batches : b = poster[p].b
  BY DEF CommitStep, Claimed
<1> DEFINE S == poster[p].step
<1>1. /\ b \in Batches /\ S \in SUBSET Keys /\ batch[b].st = "POSTING" /\ batch[b] \in BatchRows
      /\ \A k \in S : item[b][k] \in Pending
      /\ \A k \in Keys : item'[b][k] = IF k \in S THEN "POSTED" ELSE item[b][k]
      /\ \A c \in Batches \ {b} : item'[c] = item[c] /\ batch'[c] = batch[c]
      /\ batch'[b] = [batch[b] EXCEPT !.beat = TRUE]
  BY <1>0, CommitWrites DEF TypeOK
<1>2. /\ batch'[b].st = "POSTING" /\ batch'[b].posted = batch[b].posted /\ batch'[b].n = batch[b].n
      /\ batch'[b].rules = batch[b].rules /\ batch'[b].src = batch[b].src /\ batch'[b].win = batch[b].win
  BY <1>1 DEF BatchRows
<1>3. /\ Intended(b)' = Intended(b) /\ PostedItems(b)' = PostedItems(b) \cup S
      /\ \A c \in Batches \ {b} : Intended(c)' = Intended(c) /\ PostedItems(c)' = PostedItems(c)
  BY <1>1 DEF Intended, PostedItems, Pending
<1>4. Cardinality(PostedItems(b)) <= Cardinality(PostedItems(b)')
  <2>1. PostedItems(b)' \in SUBSET Keys /\ PostedItems(b) \in SUBSET (PostedItems(b)')
    BY <1>3 DEF PostedItems
  <2> QED BY <2>1, KeySetsFinite, FS_Subset
<1>5. Totals'
  <2>1. batch[b].posted \in Nat /\ Cardinality(PostedItems(b)) \in Nat /\ Cardinality(PostedItems(b))' \in Nat
    BY <1>1, KeySetsFinite DEF BatchRows, PostedItems
  <2>2. TotalOK(b)'
    BY <1>1, <1>2, <1>4, <2>1 DEF TotalsInv, Totals, TotalOK
  <2>3. ASSUME NEW c \in Batches \ {b} PROVE TotalOK(c)'
    BY <1>1, <1>3 DEF TotalsInv, Totals, TotalOK
  <2> QED BY <2>2, <2>3 DEF Totals
<1>6. RunOK(poster[p])'
  <2> DEFINE n == poster[p].done + Cardinality(S)
             pend == IF Grouped(p) THEN {} ELSE poster[p].pend \ S
  <2>1. poster'[p] = [poster[p] EXCEPT !.pc = "loop", !.done = n, !.step = {}, !.ok = FALSE, !.pend = pend]
    BY DEF CommitStep, Set, TypeOK
  <2>2. poster[p] \in PosterStates /\ poster[p].pc = "step" /\ RunOK(poster[p])
    BY DEF CommitStep, TypeOK, TotalsInv, Runs
  <2>3. S # {} /\ Cardinality(S) \in Nat \ {0} /\ poster[p].done \in Nat
    BY <1>1, <2>2, KeySetsFinite, FS_EmptySet DEF RunOK, PosterStates
  <2>4. n > 0
    BY <2>3
  <2> HIDE DEF n, pend
  <2>5. poster'[p].b = b /\ poster'[p].pc = "loop" /\ poster'[p].done = n
    BY <1>0, <2>1, <2>2 DEF PosterStates
  <2>6. PostedItems(b)' # {}
    BY <1>3, <2>3
  <2> HIDE DEF S
  <2> QED BY <1>2, <2>4, <2>5, <2>6 DEF RunOK
<1>7. \A q \in Posters \ {p} : poster'[q] = poster[q]
  BY DEF CommitStep, Set, TypeOK
<1>8. \A c \in Batches : /\ Intended(c)' = Intended(c) /\ PostedItems(c) \subseteq PostedItems(c)'
                         /\ batch'[c].n = batch[c].n /\ batch'[c].rules = batch[c].rules
                         /\ batch'[c].src = batch[c].src /\ batch'[c].win = batch[c].win
                         /\ batch'[c].st = "NONE" <=> batch[c].st = "NONE"
  BY <1>1, <1>2, <1>3
<1> QED BY <1>5, <1>6, <1>7, <1>8, CutStays

LEMMA MarkStep ==
    ASSUME TypeOK, Claimed, TotalsInv, NEW p \in Posters, NEW k \in Keys, MarkFailed(p, k)
    PROVE  TotalsInv'
<1> DEFINE b == poster[p].b
<1>1. b \in Batches /\ batch[b] \in BatchRows /\ poster[p].pc = "fail" /\ poster[p] \in PosterStates
  BY DEF MarkFailed, Claimed, TypeOK
<1>2. /\ \A c \in Batches, j \in Keys :
            item'[c][j] = IF c = b /\ j = k /\ item[c][j] \in Pending THEN "FAILED" ELSE item[c][j]
      /\ \A c \in Batches \ {b} : batch'[c] = batch[c]
      /\ batch'[b] = IF batch[b].st = "POSTING" THEN [batch[b] EXCEPT !.beat = TRUE] ELSE batch[b]
  BY <1>1 DEF MarkFailed, FailedStatus, SetBatch, TypeOK
<1>3. \A c \in Batches : Intended(c)' = Intended(c) /\ PostedItems(c)' = PostedItems(c)
  BY <1>2 DEF Intended, PostedItems, Pending
<1>4. /\ batch'[b].st = batch[b].st /\ batch'[b].posted = batch[b].posted /\ batch'[b].n = batch[b].n
      /\ batch'[b].rules = batch[b].rules /\ batch'[b].src = batch[b].src /\ batch'[b].win = batch[b].win
  BY <1>1, <1>2 DEF BatchRows
<1>5. Totals'
  BY <1>2, <1>3, <1>4 DEF TotalsInv, Totals, TotalOK
<1>6. RunOK(poster[p])'
  <2>1. RunOK(poster[p])
    BY <1>1 DEF TotalsInv, Runs
  <2>2. /\ poster'[p].b = b /\ poster'[p].done = poster[p].done /\ poster'[p].limit = poster[p].limit
        /\ poster'[p].pend = poster[p].pend /\ poster'[p].pc = "loop"
    BY <1>1 DEF MarkFailed, Set, TypeOK, PosterStates
  <2> QED BY <1>1, <1>3, <1>4, <2>1, <2>2 DEF RunOK
<1>7. \A q \in Posters \ {p} : poster'[q] = poster[q]
  BY DEF MarkFailed, Set, TypeOK
<1>8. \A c \in Batches : /\ batch'[c].n = batch[c].n /\ batch'[c].rules = batch[c].rules
                         /\ batch'[c].src = batch[c].src /\ batch'[c].win = batch[c].win
                         /\ batch'[c].st = "NONE" <=> batch[c].st = "NONE"
  BY <1>2, <1>4
<1> QED BY <1>3, <1>5, <1>6, <1>7, <1>8, CutStays

\* What the last transaction reads: a batch goes back to DRY_RUN with items to its name.
LEMMA ReadStep ==
    ASSUME TypeOK, Claimed, TotalsInv, NEW p \in Posters, ReadFinal(p)
    PROVE  TotalsInv'
<1>0. PICK b \in Batches : b = poster[p].b
  BY DEF ReadFinal, Claimed
<1> DEFINE n == Cardinality(PostedItems(b))
           st == FinalStatus(p)
<1>1. /\ b \in Batches /\ poster[p].pc = "loop" /\ poster[p] \in PosterStates /\ RunOK(poster[p])
      /\ UNCHANGED <<batch, item>> /\ \A q \in Posters \ {p} : poster'[q] = poster[q]
  BY <1>0 DEF ReadFinal, Set, Claimed, TypeOK, TotalsInv, Runs
<1>2. CASE poster'[p] = Idle
  BY <1>1, <1>2, IdleTyped, OnlyRunsMove
<1>3. ASSUME poster'[p] # Idle PROVE RunOK(poster[p])'
  <2>1. poster'[p] = [poster[p] EXCEPT !.pc = "final", !.seen = n, !.final = st]
    BY <1>0, <1>3 DEF ReadFinal, Set, TypeOK
  <2>2. n \in Nat /\ (n = 0 <=> PostedItems(b) = {})
    BY <1>1, ItemsCount
  <2>3. st = "POSTED" => PostedItems(b) = Intended(b)
    BY <1>0, <1>1, CompleteIsAll DEF FinalStatus
  <2>4. st = "DRY_RUN" => n > 0
    <3>1. SUFFICES ASSUME st = "DRY_RUN", PostedItems(b) = {} PROVE FALSE
      BY <2>2
    <3>2. ~Complete(b) /\ poster[p].limit > 0 /\ ~poster[p].failed
      BY <1>0, <3>1 DEF FinalStatus
    <3>3. poster[p].done = 0
      BY <1>0, <1>1, <3>1 DEF RunOK, PosterStates
    <3>4. poster[p].pend = {}
      BY <3>2, <3>3 DEF ReadFinal
    <3>5. Intended(b) \ PostedItems(b) = {}
      BY <1>0, <1>1, <3>2, <3>3, <3>4 DEF RunOK, PosterStates
    <3> QED BY <1>0, <1>1, <3>1, <3>2, <3>5, ItemsCount, CompleteIsAll
  <2> HIDE DEF n, st
  <2>5. /\ poster'[p].b = b /\ poster'[p].done = poster[p].done /\ poster'[p].limit = poster[p].limit
        /\ poster'[p].pend = poster[p].pend /\ poster'[p].pc = "final" /\ poster'[p].seen = n /\ poster'[p].final = st
    BY <1>0, <1>1, <2>1 DEF PosterStates
  <2>6. Intended(b)' = Intended(b) /\ PostedItems(b)' = PostedItems(b) /\ batch' = batch
    BY <1>1 DEF Intended, PostedItems
  <2>7. n = Cardinality(PostedItems(b))
    BY DEF n
  <2> QED BY <1>0, <1>1, <2>2, <2>3, <2>4, <2>5, <2>6, <2>7 DEF RunOK
<1> QED BY <1>1, <1>2, <1>3, OnlyRunsMove

LEMMA FinishStep ==
    ASSUME TypeOK, Claimed, TotalsInv, NEW p \in Posters, CommitFinal(p)
    PROVE  TotalsInv'
<1> DEFINE b == poster[p].b
           st == poster[p].final
           n == poster[p].seen
           r == [batch[b] EXCEPT !.st = st, !.posted = n, !.beat = FALSE]
<1>1. /\ b \in Batches /\ batch[b] \in BatchRows /\ RunOK(poster[p]) /\ poster[p].pc = "final" /\ UNCHANGED item
      /\ st \in {"POSTED", "DRY_RUN", "PARTIAL_FAILED"} /\ n \in Nat
      /\ \A q \in Posters : poster'[q] = poster[q] \/ poster'[q].pc = "idle"
  BY IdleTyped DEF CommitFinal, Set, Claimed, TypeOK, TotalsInv, Runs, PosterStates
<1>2. CASE batch[b].st = "POSTING"
  <2>1. SetBatch(b, r)
    BY <1>2 DEF CommitFinal
  <2>2. /\ n <= Cardinality(PostedItems(b)) /\ (st = "DRY_RUN" => n > 0)
        /\ st = "POSTED" => PostedItems(b) = Intended(b) /\ n = Cardinality(PostedItems(b))
    BY <1>1 DEF RunOK
  <2>3. st \in Statuses \ {"NONE"} /\ st \notin {"CLOSED", "PENDING_APPROVAL", "APPROVED"}
    BY <1>1 DEF Statuses
  <2> HIDE DEF b, st, n
  <2>4. /\ r \in BatchRows /\ r.n = batch[b].n /\ r.rules = batch[b].rules /\ r.src = batch[b].src /\ r.win = batch[b].win
        /\ r.st = st /\ r.posted = n
    BY <1>1, <2>3 DEF BatchRows
  <2> HIDE DEF r
  <2> QED BY <1>1, <1>2, <2>1, <2>2, <2>3, <2>4, RowIsWritten
<1>3. CASE batch[b].st # "POSTING"
  <2>1. batch' = batch
    BY <1>1, <1>3 DEF CommitFinal, SetBatch, TypeOK
  <2> QED BY <1>1, <2>1, OnlyRunsMove
<1> QED BY <1>2, <1>3

LEMMA TotalsStart == Init => TotalsInv
<1> SUFFICES ASSUME Init PROVE TotalsInv
  OBVIOUS
<1>1. \A b \in Batches : Intended(b) = {} /\ PostedItems(b) = {}
  BY DEF Init, Intended, PostedItems, Pending
<1>2. \A b \in Batches : batch[b].n = 0 /\ batch[b].posted = 0 /\ batch[b].rules = {} /\ batch[b].st = "NONE"
  BY DEF Init, Unused
<1>3. Runs
  BY IdleTyped DEF Init, Runs
<1>4. \A b \in Batches : Cardinality(Intended(b)) = 0 /\ Cardinality(PostedItems(b)) = 0
  BY <1>1, FS_EmptySet
<1>5. CutFromSpan
  BY <1>2, <1>4 DEF CutFromSpan
<1>6. Totals
  BY <1>1, <1>2, <1>4 DEF Totals, TotalOK
<1> QED BY <1>3, <1>5, <1>6 DEF TotalsInv

LEMMA TotalsStep == TypeOK /\ TypeOK' /\ Claimed /\ LedgerInv /\ TotalsInv /\ [Next]_vars => TotalsInv'
<1> SUFFICES ASSUME TypeOK, TypeOK', Claimed, LedgerInv, TotalsInv, [Next]_vars PROVE TotalsInv'
  OBVIOUS
<1>1. ASSUME NEW k \in Keys, RecordFact(k) \/ ContextChanges(k) PROVE TotalsInv'
  BY <1>1, OnlyRunsMove DEF RecordFact, ContextChanges
<1>2. ASSUME NEW e \in ledger, Reverse(e) PROVE TotalsInv'
  BY <1>2, OnlyRunsMove DEF Reverse
<1>3. CASE UNCHANGED vars
  BY <1>3, OnlyRunsMove DEF vars
<1> QED BY <1>1, <1>2, <1>3, CutStep, ManageStep, ApproveStep, BeginStep, LockOrLose, PostStep, MarkStep, ReadStep, FinishStep
        DEF Next, Manage, Environment, Run, Begin

\* Every cut, total and run of a batch agrees with its items.
THEOREM TotalsInvariant == Spec => []TotalsInv
<1> QED BY TotalsStart, TotalsStep, TypeCorrect, LedgerInvariant, PTL DEF Spec

\* A batch that is posted or closed is wholly in the ledger with the right total, no total says too much, and a batch
\* that is paused at a step boundary shows that it has entries: also after crashes, failed steps, and while a run that
\* has lost its batch writes what it had read (_reconcile_posted_items, _post_batch, reconcile_stale_posting_batch).
THEOREM BatchTotalsAgree == Spec => []TotalsAgree
<1>1. TypeOK /\ LedgerInv /\ TotalsInv => TotalsAgree
  <2> SUFFICES ASSUME TypeOK, LedgerInv, TotalsInv PROVE TotalsAgree
    OBVIOUS
  <2>1. \A b \in Batches : TotalOK(b)
    BY DEF TotalsInv, Totals
  <2>2. \A b \in Batches : \A k \in PostedItems(b) : link[b][k] \in ledger /\ link[b][k].key = k
    BY DEF LedgerInv, Linked, PostedItems
  <2>3. FinalTotalsExact
    BY <2>1, <2>2 DEF TotalOK, FinalTotalsExact
  <2>4. TotalsNeverOverstated /\ PausedStepIsVisible
    BY <2>1 DEF TotalOK, TotalsNeverOverstated, PausedStepIsVisible
  <2> QED BY <2>3, <2>4 DEF TotalsAgree
<1> QED BY <1>1, TypeCorrect, LedgerInvariant, TotalsInvariant, PTL

\* The abandoned posting of a batch can be ended by reconciliation unless another batch has posted one of its facts:
\* its items and links always agree with the ledger, and a fact in the ledger has an owner (reconcile_stale_posting_batch).
THEOREM StalePostingEnds == Spec => []StaleIsRecoverable
<1>1. TypeOK /\ LedgerInv /\ TotalsInv => StaleIsRecoverable
  <2> SUFFICES ASSUME TypeOK, LedgerInv, TotalsInv, NEW b \in Batches, ~Recoverable(b)
               PROVE  \E k \in Intended(b) \ PostedItems(b) : \E c \in Batches \ {b} : item[c][k] = "POSTED"
    BY DEF StaleIsRecoverable
  <2>1. Intended(b) \subseteq Keys
    BY DEF Intended
  <2>2. Reconciles(b)
    BY <2>1 DEF LedgerInv, Linked, TotalsInv, CutFromSpan, Reconciles
  <2>3. PICK k \in Intended(b) \ PostedItems(b) : Posted(k)
    BY <2>2 DEF Recoverable
  <2>4. PICK e \in ledger : e.type = "CREDIT" /\ e.key = k
    BY <2>3 DEF Posted, EntriesOf
  <2>5. PICK c \in Batches : item[c][k] = "POSTED"
    BY <2>4 DEF LedgerInv, Owned
  <2>6. c # b
    BY <2>1, <2>3, <2>5 DEF PostedItems
  <2> QED BY <2>3, <2>5, <2>6
<1> QED BY <1>1, TypeCorrect, LedgerInvariant, TotalsInvariant, PTL

(***************************************************************************)
(* What is posted and what is closed stays as it is.                       *)
(***************************************************************************)
Stays(b) ==
    /\ \A k \in PostedItems(b) : item'[b][k] = "POSTED" /\ link'[b][k] = link[b][k]
    /\ batch[b].st = "CLOSED" => batch'[b] = batch[b] /\ item'[b] = item[b] /\ link'[b] = link[b]

LEMMA PostingStays ==
    ASSUME TypeOK, Claimed, LedgerInv, TotalsInv, NEW p \in Posters, CommitStep(p), NEW b \in Batches
    PROVE  Stays(b)
<1>1. PICK c \in Batches : c = poster[p].b
  BY DEF CommitStep, Claimed
<1>2. /\ batch[c].st = "POSTING" /\ \A k \in poster[p].step : item[c][k] \in Pending
      /\ \A k \in Keys \ poster[p].step : item'[c][k] = item[c][k] /\ link'[c][k] = link[c][k]
      /\ \A d \in Batches \ {c} : item'[d] = item[d] /\ link'[d] = link[d] /\ batch'[d] = batch[d]
  BY <1>1, CommitWrites
<1> QED BY <1>2 DEF Stays, PostedItems, Pending

LEMMA FailingStays ==
    ASSUME TypeOK, Claimed, TotalsInv, NEW p \in Posters, NEW k \in Keys, MarkFailed(p, k), NEW b \in Batches
    PROVE  Stays(b)
<1>1. PICK c \in Batches : c = poster[p].b
  BY DEF MarkFailed, Claimed
<1>2. /\ item' = [item EXCEPT ![c][k] = IF item[c][k] \in Pending THEN "FAILED" ELSE item[c][k]] /\ link' = link
      /\ \A d \in Batches \ {c} : batch'[d] = batch[d]
      /\ batch[c].st # "POSTING" => batch'[c] = batch[c]
  BY <1>1 DEF MarkFailed, FailedStatus, SetBatch, TypeOK
<1>3. batch[c].st = "CLOSED" => item[c][k] \notin Pending
  BY DEF TotalsInv, Totals, TotalOK, Intended, PostedItems, Pending
<1>4. /\ item[c][k] \notin Pending => item' = item
      /\ \A d \in Batches, j \in Keys : d # c \/ j # k => item'[d][j] = item[d][j]
      /\ \A d \in Batches \ {c} : item'[d] = item[d]
  BY <1>2 DEF TypeOK
<1> QED BY <1>2, <1>3, <1>4 DEF Stays, PostedItems, Pending

LEMMA ManagingStays ==
    ASSUME TypeOK, LedgerInv, Manage, NEW b \in Batches
    PROVE  Stays(b)
<1>1. ASSUME NEW u \in Users, NEW c \in Batches, NEW w \in Windows, DryRun(u, c, w) PROVE Stays(b)
  <2>1. batch[c].st = "NONE" /\ link' = link /\ \A d \in Batches \ {c} : batch'[d] = batch[d] /\ item'[d] = item[d]
    BY <1>1 DEF DryRun, SetBatch, TypeOK
  <2>2. PostedItems(c) = {}
    BY <2>1 DEF LedgerInv, Fresh, PostedItems
  <2> QED BY <2>1, <2>2 DEF Stays, PostedItems
<1>2. ASSUME NEW u \in Users, NEW c \in Batches, Approve(u, c) PROVE Stays(b)
  <2>1. /\ batch[c].st = "PENDING_APPROVAL" /\ PostedItems(c) = {} /\ link' = link
        /\ \A d \in Batches \ {c} : batch'[d] = batch[d] /\ item'[d] = item[d]
    BY <1>2 DEF Approve, SetBatch, TypeOK
  <2> QED BY <2>1 DEF Stays, PostedItems
<1>3. ASSUME NEW c \in Batches, Submit(c) \/ Reconcile(c) \/ Close(c) PROVE Stays(b)
  <2>1. UNCHANGED <<item, link>> /\ batch[c].st # "CLOSED" /\ \A d \in Batches \ {c} : batch'[d] = batch[d]
    BY <1>3 DEF Submit, Reconcile, Close, SetBatch, TypeOK
  <2> QED BY <2>1 DEF Stays, PostedItems
<1>4. ASSUME NEW e \in ledger, Reverse(e) PROVE Stays(b)
  BY <1>4 DEF Reverse, Stays, PostedItems
<1> QED BY <1>1, <1>2, <1>3, <1>4 DEF Manage

\* A posted item keeps its entry for ever, and a closed batch its rows, whatever runs of it are still in flight
\* (close_settlement_batch, the exception handler of _post_batch).
THEOREM PostedStays == Spec => PostedIsForGood
<1>1. TypeOK /\ Claimed /\ LedgerInv /\ TotalsInv /\ [Next]_vars => [\A b \in Batches : Stays(b)]_vars
  <2> SUFFICES ASSUME TypeOK, Claimed, LedgerInv, TotalsInv, Next, NEW b \in Batches PROVE Stays(b)
    OBVIOUS
  <2>1. ASSUME Environment PROVE Stays(b)
    <3>1. UNCHANGED <<item, link>> /\ (batch[b].st = "CLOSED" => batch'[b] = batch[b])
      BY <2>1 DEF Environment, RecordFact, ContextChanges, HeartbeatAges, Crash, SetBatch, TypeOK
    <3> QED BY <3>1 DEF Stays, PostedItems
  <2>2. ASSUME NEW p \in Posters, NEW c \in Batches, NEW mode, NEW limit, NEW resume, BeginPost(p, c, mode, limit, resume)
        PROVE  Stays(b)
    <3>1. UNCHANGED <<item, link>> /\ batch[c].st # "CLOSED" /\ \A d \in Batches \ {c} : batch'[d] = batch[d]
      BY <2>2 DEF BeginPost, Claimable, SetBatch, TypeOK
    <3> QED BY <3>1 DEF Stays, PostedItems
  <2>3. ASSUME NEW p \in Posters, CommitFinal(p) PROVE Stays(b)
    <3>1. PICK c \in Batches : c = poster[p].b
      BY <2>3 DEF CommitFinal, Claimed
    <3>2. /\ UNCHANGED <<item, link>> /\ \A d \in Batches \ {c} : batch'[d] = batch[d]
          /\ batch[c].st # "POSTING" => batch'[c] = batch[c]
      BY <2>3, <3>1 DEF CommitFinal, SetBatch, TypeOK
    <3> QED BY <3>2 DEF Stays, PostedItems
  <2>4. ASSUME NEW p \in Posters, LockStep(p) \/ RollBackStep(p) \/ ReadFinal(p) PROVE Stays(b)
    BY <2>4 DEF LockStep, RollBackStep, ReadFinal, Stays, PostedItems
  <2> QED BY <2>1, <2>2, <2>3, <2>4, PostingStays, FailingStays, ManagingStays DEF Next, Begin, Run
<1>2. Spec => [][\A b \in Batches : Stays(b)]_vars
  BY <1>1, TypeCorrect, LedgerInvariant, TotalsInvariant, PTL DEF Spec
<1> QED BY <1>2 DEF PostedIsForGood, Stays

(***************************************************************************)
(* The monthly cap.  The comparison of counts in _assert_current_preview   *)
(* keeps it as long as nothing is reversed: then a fact that was left out  *)
(* of a batch for want of room stays left out (LeftOut), the facts that    *)
(* are READY are among those the batch intended, and if one of those had   *)
(* no room any more there would be fewer of them.  After a reversal counts *)
(* can agree although the facts differ.                                    *)
(***************************************************************************)
Uncredited(b, k) == {j \in batch[b].rules : Owner[j] = Owner[k] /\ j <= k /\ ~Posted(j)}

LeftOut ==
    \A b \in Batches : batch[b].st # "NONE" /\ Kind[batch[b].win] = "SHARE" =>
        \A k \in batch[b].rules \ Intended(b) :
            Posted(k) \/ MonthPoints(Owner[k]) + Cardinality(Uncredited(b, k)) > Cap

RoomFor(P) ==
    Kind[batch[P.b].win] = "SHARE" =>
        \E k \in Keys : P.step = {k} /\ (P.ok => MonthPoints(Owner[k]) < Cap)

OnlyCredits == \A e \in ledger : e.type = "CREDIT"
SharesCount == \A m \in Members : IsFiniteSet(ShareEntries(m, "CREDIT"))
Room == \A p \in Posters : poster[p].pc = "step" => RoomFor(poster[p])

CapInv == OnlyCredits /\ SharesCount /\ LeftOut /\ Room /\ MonthlyCap

\* Without reversals the points of a month are the shares credited.
LEMMA PointsAreCredits ==
    ASSUME OnlyCredits, SharesCount, NEW m \in Members
    PROVE  MonthPoints(m) = Cardinality(ShareEntries(m, "CREDIT")) /\ MonthPoints(m) \in Nat
<1>1. ShareEntries(m, "REVERSAL") = {}
  BY DEF ShareEntries, OnlyCredits
<1>2. Cardinality(ShareEntries(m, "REVERSAL")) = 0 /\ Cardinality(ShareEntries(m, "CREDIT")) \in Nat
  BY <1>1, FS_EmptySet, FS_CardinalityType DEF SharesCount
<1> QED BY <1>2 DEF MonthPoints

\* The same of the next state.
LEMMA PointsNext == OnlyCredits' /\ SharesCount' => \A m \in Members : (MonthPoints(m) = Cardinality(ShareEntries(m, "CREDIT")))'
<1> SUFFICES ASSUME OnlyCredits', SharesCount', NEW m \in Members
             PROVE  (MonthPoints(m) = Cardinality(ShareEntries(m, "CREDIT")))'
  OBVIOUS
<1>1. ShareEntries(m, "REVERSAL")' = {}
  BY DEF ShareEntries, OnlyCredits
<1>2. Cardinality(ShareEntries(m, "REVERSAL")') = 0 /\ Cardinality(ShareEntries(m, "CREDIT")') \in Nat
  BY <1>1, FS_EmptySet, FS_CardinalityType DEF SharesCount
<1> QED BY <1>2 DEF MonthPoints

\* The facts of a batch of shares are shares, and those of any other batch are not.
LEMMA SharesOfBatches ==
    ASSUME TypeOK, LedgerInv, TotalsInv, NEW b \in Batches, batch[b].st # "NONE"
    PROVE  /\ batch[b].rules \subseteq batch[b].src /\ Intended(b) \subseteq batch[b].src /\ batch[b].src \subseteq Keys
           /\ Kind[batch[b].win] = "SHARE" => batch[b].src \subseteq ShareKeys
           /\ Kind[batch[b].win] # "SHARE" => batch[b].src \cap ShareKeys = {}
<1>1. /\ batch[b].win \in Windows /\ batch[b].src \subseteq Span[batch[b].win] /\ batch[b].rules \subseteq batch[b].src
      /\ Intended(b) \subseteq batch[b].src
  BY DEF TotalsInv, CutFromSpan, LedgerInv, Frozen
<1>2. Kind[batch[b].win] = "SHARE" => Span[batch[b].win] \subseteq ShareKeys
  BY <1>1 DEF ShareKeys
<1>3. Kind[batch[b].win] # "SHARE" => Span[batch[b].win] \cap ShareKeys = {}
  BY <1>1, WindowAssumption DEF ShareKeys
<1> QED BY <1>1, <1>2, <1>3, WindowAssumption

LEMMA UncreditedCount ==
    ASSUME TypeOK, NEW b \in Batches, NEW k
    PROVE  Uncredited(b, k) \in SUBSET Keys /\ IsFiniteSet(Uncredited(b, k)) /\ Cardinality(Uncredited(b, k)) \in Nat
<1>1. Uncredited(b, k) \in SUBSET Keys
  BY DEF Uncredited, TypeOK, BatchRows
<1> QED BY <1>1, KeySetsFinite

\* A preview that holds leaves room for every share that is still to be posted.
LEMMA PreviewLeavesRoom ==
    ASSUME TypeOK, LedgerInv, TotalsInv, CapInv, NEW b \in Batches, batch[b].st # "NONE",
           Kind[batch[b].win] = "SHARE", PreviewHolds(b), NEW k \in Intended(b) \ PostedItems(b)
    PROVE  MonthPoints(Owner[k]) < Cap
<1> DEFINE w == batch[b].win
           Open == Ready(w) \ PostedItems(b)
           Left == Intended(b) \ PostedItems(b)
<1>1. /\ w \in Windows /\ Live(w) = batch[b].src /\ RuleSnapshot(w) = batch[b].rules
      /\ Cardinality(Open) + Cardinality(PostedItems(b)) = batch[b].n
      /\ batch[b].n = Cardinality(Intended(b)) /\ Kind[w] = "SHARE"
  BY DEF PreviewHolds, TotalsInv, CutFromSpan
<1>2. k \in Keys /\ Owner[k] \in Members /\ MonthPoints(Owner[k]) \in Nat
  BY OwnerAssumption, PointsAreCredits DEF Intended, CapInv
<1>3. SUFFICES ASSUME ~(MonthPoints(Owner[k]) < Cap) PROVE FALSE
  OBVIOUS
<1> DEFINE Before(j) == {i \in Live(w) : Candidate(w, i) /\ Owner[i] = Owner[j] /\ i <= j}
<1>4. ASSUME NEW j \in Ready(w)
      PROVE  /\ j \in Keys /\ j \in batch[b].rules /\ ~Posted(j) /\ MonthPoints(Owner[j]) + Cardinality(Before(j)) <= Cap
             /\ Before(j) = Uncredited(b, j) /\ j \in Before(j)
  <2>1. j \in Live(w) /\ Candidate(w, j) /\ MonthPoints(Owner[j]) + Cardinality(Before(j)) <= Cap
    BY <1>1, <1>4 DEF Ready
  <2>2. j \in Keys /\ j <= j
    <3>1. j \in Keys
      BY <1>1, <2>1, WindowAssumption DEF Live
    <3> QED BY <3>1, KeyAssumption
  <2>3. Before(j) = Uncredited(b, j)
    BY <1>1 DEF Candidate, RuleSnapshot, Uncredited
  <2> QED BY <1>1, <2>1, <2>2, <2>3 DEF Candidate, RuleSnapshot
<1>5. Ready(w) \subseteq Intended(b)
  <2>1. SUFFICES ASSUME NEW j \in Ready(w), j \notin Intended(b) PROVE FALSE
    OBVIOUS
  <2>2. MonthPoints(Owner[j]) + Cardinality(Uncredited(b, j)) > Cap
    BY <1>1, <1>4, <2>1 DEF CapInv, LeftOut
  <2>3. MonthPoints(Owner[j]) \in Nat /\ Cardinality(Uncredited(b, j)) \in Nat
    BY <1>4, <2>1, OwnerAssumption, PointsAreCredits, UncreditedCount DEF CapInv
  <2> HIDE DEF Before
  <2> QED BY <1>4, <2>2, <2>3, LimitAssumption
<1>6. k \notin Ready(w)
  <2>1. SUFFICES ASSUME k \in Ready(w) PROVE FALSE
    OBVIOUS
  <2>2. IsFiniteSet(Uncredited(b, k)) /\ Cardinality(Uncredited(b, k)) \in Nat /\ Uncredited(b, k) # {}
    BY <1>4, <2>1, UncreditedCount
  <2>3. Cardinality(Uncredited(b, k)) > 0
    BY <2>2, FS_EmptySet
  <2> HIDE DEF Before
  <2> QED BY <1>2, <1>3, <1>4, <2>1, <2>2, <2>3, LimitAssumption
<1>7. /\ IsFiniteSet(Intended(b)) /\ PostedItems(b) \in SUBSET Intended(b) /\ IsFiniteSet(PostedItems(b))
      /\ Cardinality(Intended(b)) \in Nat /\ Cardinality(PostedItems(b)) \in Nat /\ Intended(b) \in SUBSET Keys
  BY ItemsCount, KeySetsFinite, FS_Subset
<1>8. Cardinality(Left) = Cardinality(Intended(b)) - Cardinality(PostedItems(b)) /\ IsFiniteSet(Left)
  <2>1. Intended(b) \cap PostedItems(b) = PostedItems(b)
    BY <1>7
  <2> QED BY <1>7, <2>1, FS_Difference
<1>9. Open \in SUBSET Left /\ Open # Left /\ Open \in SUBSET Keys
  BY <1>5, <1>6, <1>7
<1>10. Cardinality(Open) <= Cardinality(Left) /\ Cardinality(Open) # Cardinality(Left) /\ Cardinality(Open) \in Nat
  BY <1>8, <1>9, FS_Subset, KeySetsFinite
<1> HIDE DEF Open, Left
<1> QED BY <1>1, <1>7, <1>8, <1>10

\* After the cut a batch keeps its selection, its rules and the items it intended.
CutKept(b) ==
    /\ Intended(b)' = Intended(b) /\ batch'[b].rules = batch[b].rules /\ batch'[b].win = batch[b].win
    /\ batch'[b].st = "NONE" <=> batch[b].st = "NONE"

LEMMA RowKeepsCut ==
    ASSUME TypeOK, NEW c \in Batches, NEW r, SetBatch(c, r), UNCHANGED item, r.rules = batch[c].rules,
           r.win = batch[c].win, r.st # "NONE", batch[c].st # "NONE", NEW b \in Batches
    PROVE  CutKept(b)
BY DEF CutKept, SetBatch, TypeOK, Intended

LEMMA CutIsKept ==
    ASSUME TypeOK, Claimed, LedgerInv, TotalsInv, NEW b \in Batches,
           \/ \E c \in Batches : Submit(c) \/ Reconcile(c) \/ Close(c)
           \/ \E u \in Users, c \in Batches : Approve(u, c)
           \/ Environment
           \/ \E p \in Posters : Begin(p) \/ Run(p)
    PROVE  CutKept(b)
<1>a. \A c \in Batches : batch[c] \in BatchRows
  BY DEF TypeOK
<1>b. ASSUME UNCHANGED <<batch, item>> PROVE CutKept(b)
  BY <1>b DEF CutKept, Intended
<1>1. ASSUME NEW c \in Batches, Submit(c) \/ Reconcile(c) \/ Close(c) \/ HeartbeatAges(c) PROVE CutKept(b)
  <2>1. PICK r : /\ SetBatch(c, r) /\ UNCHANGED item /\ r.rules = batch[c].rules /\ r.win = batch[c].win
                 /\ r.st # "NONE" /\ batch[c].st # "NONE"
    <3>1. CASE Submit(c)
      BY <3>1, <1>a DEF Submit, BatchRows
    <3>2. CASE Close(c)
      BY <3>2, <1>a DEF Close, BatchRows
    <3>3. CASE HeartbeatAges(c)
      BY <3>3, <1>a DEF HeartbeatAges, BatchRows
    <3>4. CASE Reconcile(c)
      <4> DEFINE st == IF Complete(c) THEN "POSTED" ELSE "PARTIAL_FAILED"
                 n == Cardinality(PostedItems(c))
      <4>1. SetBatch(c, [batch[c] EXCEPT !.st = st, !.posted = n, !.beat = FALSE]) /\ UNCHANGED item /\ batch[c].st = "POSTING"
        BY <3>4 DEF Reconcile
      <4>2. st # "NONE"
        OBVIOUS
      <4> HIDE DEF st, n
      <4> QED BY <1>a, <4>1, <4>2 DEF BatchRows
    <3> QED BY <1>1, <3>1, <3>2, <3>3, <3>4
  <2> QED BY <2>1, RowKeepsCut
<1>2. ASSUME NEW u \in Users, NEW c \in Batches, Approve(u, c) PROVE CutKept(b)
  <2>1. /\ batch'[c] = [batch[c] EXCEPT !.st = "APPROVED", !.approver = u] /\ batch[c].st = "PENDING_APPROVAL"
        /\ \A d \in Batches \ {c} : batch'[d] = batch[d] /\ item'[d] = item[d]
        /\ item'[c] = [k \in Keys |-> IF item[c][k] = "PROPOSED" THEN "APPROVED" ELSE item[c][k]]
    BY <1>2 DEF Approve, SetBatch, TypeOK
  <2>2. batch'[c].rules = batch[c].rules /\ batch'[c].win = batch[c].win /\ batch'[c].st = "APPROVED"
    BY <1>a, <2>1 DEF BatchRows
  <2>3. Intended(c)' = Intended(c)
    BY <2>1 DEF Intended, Pending
  <2>4. b # c => Intended(b)' = Intended(b)
    BY <2>1 DEF Intended
  <2> QED BY <2>1, <2>2, <2>3, <2>4 DEF CutKept
<1>3. ASSUME NEW p \in Posters, NEW c \in Batches, NEW mode, NEW limit, NEW resume, BeginPost(p, c, mode, limit, resume)
      PROVE  CutKept(b)
  BY <1>3, <1>a, RowKeepsCut DEF BeginPost, BatchRows
<1>4. ASSUME NEW p \in Posters, LockStep(p) \/ RollBackStep(p) \/ ReadFinal(p) \/ Crash(p) PROVE CutKept(b)
  BY <1>4, <1>b DEF LockStep, RollBackStep, ReadFinal, Crash
<1>5. ASSUME NEW k \in Keys, RecordFact(k) \/ ContextChanges(k) PROVE CutKept(b)
  BY <1>5, <1>b DEF RecordFact, ContextChanges
<1>6. ASSUME NEW p \in Posters, CommitFinal(p) PROVE CutKept(b)
  <2>1. PICK c \in Batches : c = poster[p].b
    BY <1>6 DEF CommitFinal, Claimed
  <2>2. poster[p].final # "NONE" /\ UNCHANGED item
    BY <1>6 DEF CommitFinal, TypeOK, PosterStates
  <2>3. CASE batch[c].st = "POSTING"
    <3> DEFINE st == poster[p].final
               n == poster[p].seen
               r == [batch[c] EXCEPT !.st = st, !.posted = n, !.beat = FALSE]
    <3>1. SetBatch(c, r)
      BY <1>6, <2>1, <2>3 DEF CommitFinal
    <3>2. st # "NONE"
      BY <2>2
    <3> HIDE DEF st, n
    <3>3. r.rules = batch[c].rules /\ r.win = batch[c].win /\ r.st = st
      BY <1>a DEF BatchRows
    <3> HIDE DEF r
    <3> QED BY <2>2, <2>3, <3>1, <3>2, <3>3, RowKeepsCut
  <2>4. CASE batch[c].st # "POSTING"
    BY <1>6, <1>b, <2>1, <2>2, <2>4 DEF CommitFinal, SetBatch, TypeOK
  <2> QED BY <2>3, <2>4
<1>7. ASSUME NEW p \in Posters, NEW k \in Keys, MarkFailed(p, k) PROVE CutKept(b)
  <2>1. PICK c \in Batches : c = poster[p].b
    BY <1>7 DEF MarkFailed, Claimed
  <2>2. /\ \A d \in Batches, j \in Keys :
              item'[d][j] = IF d = c /\ j = k /\ item[d][j] \in Pending THEN "FAILED" ELSE item[d][j]
        /\ \A d \in Batches \ {c} : batch'[d] = batch[d]
        /\ batch'[c] = IF batch[c].st = "POSTING" THEN [batch[c] EXCEPT !.beat = TRUE] ELSE batch[c]
    BY <1>7, <2>1 DEF MarkFailed, FailedStatus, SetBatch, TypeOK
  <2>3. Intended(b)' = Intended(b)
    BY <2>2 DEF Intended, Pending
  <2> QED BY <1>a, <2>2, <2>3 DEF CutKept, BatchRows
<1>8. ASSUME NEW p \in Posters, CommitStep(p) PROVE CutKept(b)
  <2>1. PICK c \in Batches : c = poster[p].b
    BY <1>8 DEF CommitStep, Claimed
  <2>2. /\ \A k \in poster[p].step : item[c][k] \in Pending /\ item'[c][k] = "POSTED"
        /\ \A k \in Keys \ poster[p].step : item'[c][k] = item[c][k]
        /\ \A d \in Batches \ {c} : item'[d] = item[d] /\ batch'[d] = batch[d]
        /\ batch'[c] = [batch[c] EXCEPT !.beat = TRUE]
    BY <1>8, <2>1, CommitWrites
  <2>3. Intended(b)' = Intended(b)
    BY <2>2 DEF Intended, Pending
  <2> QED BY <1>a, <2>2, <2>3 DEF CutKept, BatchRows
<1> QED BY <1>1, <1>2, <1>3, <1>4, <1>5, <1>6, <1>7, <1>8 DEF Environment, Begin, Run

\* Only LockStep starts a step.
LEMMA StepsAreLocked ==
    ASSUME TypeOK, Next, NEW q \in Posters, poster'[q].pc = "step"
    PROVE  LockStep(q) \/ poster'[q] = poster[q]
<1>1. ASSUME Manage \/ (\E k \in Keys : RecordFact(k) \/ ContextChanges(k)) \/ (\E b \in Batches : HeartbeatAges(b))
      PROVE  poster' = poster
  BY <1>1 DEF Manage, DryRun, Submit, Reconcile, Close, Approve, Reverse, RecordFact, ContextChanges, HeartbeatAges
<1>2. ASSUME NEW p \in Posters, Begin(p) \/ CommitFinal(p) \/ ReadFinal(p) \/ Crash(p)
      PROVE  poster'[q] = poster[q]
  <2>1. \A d \in Posters \ {p} : poster'[d] = poster[d]
    BY <1>2 DEF Begin, BeginPost, CommitFinal, ReadFinal, Crash, Set, TypeOK
  <2>2. poster'[p].pc # "step"
    <3>1. poster[p] \in PosterStates
      BY DEF TypeOK
    <3>2. CASE Begin(p)
      BY <3>2 DEF Begin, BeginPost, Set, Idle, TypeOK
    <3>3. CASE CommitFinal(p) \/ Crash(p)
      BY <3>3 DEF CommitFinal, Crash, Set, Idle, TypeOK
    <3>4. CASE ReadFinal(p)
      BY <3>1, <3>4, IdleTyped DEF ReadFinal, Set, TypeOK, PosterStates
    <3> QED BY <1>2, <3>2, <3>3, <3>4
  <2> QED BY <2>1, <2>2
<1>3. ASSUME NEW p \in Posters, RollBackStep(p) \/ CommitStep(p) \/ \E k \in Keys : MarkFailed(p, k)
      PROVE  poster'[q] = poster[q]
  <2>1. \A d \in Posters \ {p} : poster'[d] = poster[d]
    BY <1>3 DEF RollBackStep, CommitStep, MarkFailed, Set, TypeOK
  <2>2. poster'[p].pc # "step"
    <3>1. poster[p] \in PosterStates
      BY DEF TypeOK
    <3> DEFINE n == poster[p].done + Cardinality(poster[p].step)
               pend == IF Grouped(p) THEN {} ELSE poster[p].pend \ poster[p].step
    <3>2. CASE CommitStep(p)
      <4>1. poster'[p] = [poster[p] EXCEPT !.pc = "loop", !.done = n, !.step = {}, !.ok = FALSE, !.pend = pend]
        BY <3>2 DEF CommitStep, Set, TypeOK
      <4> HIDE DEF n, pend
      <4> QED BY <3>1, <4>1 DEF PosterStates
    <3>3. CASE RollBackStep(p)
      BY <3>1, <3>3 DEF RollBackStep, Set, TypeOK, PosterStates
    <3>4. CASE \E k \in Keys : MarkFailed(p, k)
      BY <3>1, <3>4 DEF MarkFailed, Set, TypeOK, PosterStates
    <3> QED BY <1>3, <3>2, <3>3, <3>4
  <2> QED BY <2>1, <2>2
<1>4. ASSUME NEW p \in Posters, LockStep(p) PROVE p = q \/ poster'[q] = poster[q]
  BY <1>4 DEF LockStep, Set, TypeOK
<1> QED BY <1>1, <1>2, <1>3, <1>4 DEF Next, Environment, Run

LEMMA CapWithoutEntry ==
    ASSUME TypeOK, Claimed, CapInv, UNCHANGED ledger, \A b \in Batches : CutKept(b),
           \A q \in Posters : poster'[q].pc = "step" => poster'[q] = poster[q] \/ RoomFor(poster[q])'
    PROVE  CapInv'
<1>1. /\ \A k : Posted(k)' = Posted(k)
      /\ \A m, t : ShareEntries(m, t)' = ShareEntries(m, t)
      /\ \A m : MonthPoints(m)' = MonthPoints(m)
  BY DEF Posted, EntriesOf, ShareEntries, MonthPoints
<1>2. OnlyCredits' /\ SharesCount' /\ MonthlyCap'
  BY <1>1 DEF CapInv, OnlyCredits, SharesCount, MonthlyCap
<1>3. \A b \in Batches : \A k : Uncredited(b, k)' = Uncredited(b, k)
  BY <1>1 DEF CutKept, Uncredited
<1>4. LeftOut'
  BY <1>1, <1>3 DEF CutKept, CapInv, LeftOut
<1>5. Room'
  <2> SUFFICES ASSUME NEW q \in Posters, poster'[q].pc = "step", poster'[q] = poster[q] PROVE RoomFor(poster[q])'
    BY DEF Room
  <2>1. RoomFor(poster[q]) /\ poster[q].b \in Batches
    BY DEF CapInv, Room, Claimed
  <2>2. batch'[poster[q].b].win = batch[poster[q].b].win
    BY <2>1 DEF CutKept
  <2> QED BY <1>1, <2>1, <2>2 DEF RoomFor
<1> QED BY <1>2, <1>4, <1>5 DEF CapInv

\* A run of a share batch takes one item, and only when its learner's month has room.
LEMMA CapLock ==
    ASSUME TypeOK, Claimed, LedgerInv, TotalsInv, CapInv, NEW p \in Posters, LockStep(p)
    PROVE  RoomFor(poster[p])'
<1>1. PICK b \in Batches : b = poster[p].b
  BY DEF LockStep, Claimed
<1> DEFINE S == NextStep(p)
           ok == StepAllowed(p, S)
<1>2. poster'[p] = [poster[p] EXCEPT !.pc = "step", !.step = S, !.ok = ok] /\ UNCHANGED <<batch, ledger>>
  BY DEF LockStep, Set, TypeOK
<1>3. poster[p] \in PosterStates /\ poster[p].pend # {} /\ batch[b].st # "NONE"
  BY <1>1 DEF LockStep, TypeOK, TotalsInv, Runs, RunOK
<1>4. S # {} /\ S \subseteq poster[p].pend /\ S \subseteq Keys
  BY <1>3, StepTakesSome DEF NextStep, PosterStates
<1>5. ASSUME Kind[batch[b].win] = "SHARE" PROVE \E k \in Keys : S = {k}
  <2>1. S = {k \in poster[p].pend : Cardinality({j \in poster[p].pend : j < k}) < 1}
    BY <1>1, <1>5 DEF NextStep, Grouped
  <2>2. poster[p].pend \in SUBSET Keys /\ Keys \subseteq Nat
    BY <1>3, KeyAssumption DEF PosterStates
  <2>3. ASSUME NEW k \in S, NEW j \in S PROVE ~(j < k)
    <3> DEFINE T == {i \in poster[p].pend : i < k}
    <3>1. IsFiniteSet(T) /\ Cardinality(T) \in Nat /\ Cardinality(T) < 1
      BY <2>1, <2>2, KeySetsFinite
    <3>2. T = {}
      BY <3>1, FS_EmptySet
    <3> QED BY <1>4, <3>2
  <2>4. \A k, j \in S : k = j
    BY <1>4, <2>2, <2>3
  <2> QED BY <1>4, <2>4
<1>6. ASSUME Kind[batch[b].win] = "SHARE", ok, NEW k \in S PROVE MonthPoints(Owner[k]) < Cap
  <2>1. PreviewHolds(b) /\ item[b][k] \in Pending /\ k \in Keys
    BY <1>1, <1>4, <1>6 DEF StepAllowed, ItemsOpen, Takes, Pending
  <2>2. k \in Intended(b) \ PostedItems(b)
    BY <2>1 DEF Intended, PostedItems, Pending
  <2> QED BY <1>3, <1>6, <2>1, <2>2, PreviewLeavesRoom
<1>7. \A m : MonthPoints(m)' = MonthPoints(m)
  BY <1>2 DEF ShareEntries, MonthPoints
<1>a. ok \in BOOLEAN
  BY DEF StepAllowed
<1> HIDE DEF S, ok
<1>8. poster'[p].b = b /\ poster'[p].step = S /\ poster'[p].ok = ok
  BY <1>1, <1>2, <1>3 DEF PosterStates
<1>9. batch'[b].win = batch[b].win
  BY <1>2
<1> QED BY <1>5, <1>6, <1>7, <1>8, <1>9 DEF RoomFor

\* What a commit does to the points: a share adds one for its learner, anything else none.
LEMMA CapPost ==
    ASSUME TypeOK, Claimed, LedgerInv, TotalsInv, CapInv, NEW p \in Posters, CommitStep(p),
           \A b \in Batches : CutKept(b),
           \A q \in Posters : poster'[q].pc = "step" => poster'[q] = poster[q]
    PROVE  CapInv'
<1>1. PICK b \in Batches : b = poster[p].b
  BY DEF CommitStep, Claimed
<1> DEFINE S == poster[p].step
<1>2. /\ S \in SUBSET Keys /\ batch[b].st = "POSTING" /\ ledger' = ledger \cup {Credit(k, b, p) : k \in S}
      /\ \A k \in S : item[b][k] \in Pending /\ ~Posted(k)
  <2>1. /\ S \in SUBSET Keys /\ ledger' = ledger \cup {Credit(k, poster[p].b, p) : k \in S}
        /\ batch[poster[p].b].st = "POSTING" /\ \A k \in S : item[poster[p].b][k] \in Pending /\ ~Posted(k)
    BY CommitWrites
  <2>2. {Credit(k, poster[p].b, p) : k \in S} = {Credit(k, b, p) : k \in S}
    BY <1>1
  <2> QED BY <1>1, <2>1, <2>2
<1>3. S \subseteq batch[b].src
  <2>1. S \subseteq Intended(b)
    BY <1>2 DEF Intended
  <2> QED BY <1>2, <2>1, SharesOfBatches
<1>4. OnlyCredits'
  BY <1>2 DEF CapInv, OnlyCredits, Credit
<1>5. \A k \in Keys : Posted(k)' <=> Posted(k) \/ k \in S
  <2>1. \A k : Credit(k, b, p).type = "CREDIT" /\ Credit(k, b, p).key = k
    BY DEF Credit
  <2>2. ASSUME NEW k \in S PROVE Posted(k)'
    <3>1. Credit(k, b, p) \in ledger'
      BY <1>2
    <3> QED BY <2>1, <3>1 DEF Posted, EntriesOf
  <2>3. ASSUME NEW k \in Keys, k \notin S PROVE Posted(k)' <=> Posted(k)
    BY <1>2, <2>1, <2>3 DEF Posted, EntriesOf
  <2>4. ASSUME NEW k \in Keys, Posted(k) PROVE Posted(k)'
    BY <1>2, <2>4 DEF Posted, EntriesOf
  <2> QED BY <2>2, <2>3, <2>4
<1>6. ASSUME NEW m \in Members
      PROVE  ShareEntries(m, "CREDIT")' = ShareEntries(m, "CREDIT") \cup {Credit(k, b, p) : k \in {j \in S \cap ShareKeys : Owner[j] = m}}
  BY <1>2 DEF ShareEntries, Credit
<1>7. ASSUME NEW m \in Members, \A j \in S \cap ShareKeys : Owner[j] # m
      PROVE  ShareEntries(m, "CREDIT")' = ShareEntries(m, "CREDIT") /\ MonthPoints(m)' = MonthPoints(m)
  <2>1. ShareEntries(m, "CREDIT")' = ShareEntries(m, "CREDIT")
    BY <1>6, <1>7
  <2>2. ShareEntries(m, "REVERSAL")' = ShareEntries(m, "REVERSAL")
    BY <1>2 DEF ShareEntries, Credit
  <2> QED BY <2>1, <2>2 DEF MonthPoints
<1>8. CASE Kind[batch[b].win] # "SHARE"
  <2>1. S \cap ShareKeys = {}
    BY <1>2, <1>3, <1>8, SharesOfBatches
  <2>2. \A m \in Members : ShareEntries(m, "CREDIT")' = ShareEntries(m, "CREDIT") /\ MonthPoints(m)' = MonthPoints(m)
    BY <1>7, <2>1
  <2>3. SharesCount' /\ MonthlyCap'
    BY <2>2 DEF CapInv, SharesCount, MonthlyCap
  <2>4. LeftOut'
    <3> SUFFICES ASSUME NEW c \in Batches, batch[c].st # "NONE", Kind[batch[c].win] = "SHARE",
                        NEW k \in batch[c].rules \ Intended(c)
                 PROVE  (Posted(k) \/ MonthPoints(Owner[k]) + Cardinality(Uncredited(c, k)) > Cap)'
      BY DEF LeftOut, CutKept
    <3>1. batch[c].rules \subseteq ShareKeys /\ batch[c].rules \subseteq Keys
      BY SharesOfBatches
    <3>2. Uncredited(c, k)' = Uncredited(c, k)
      BY <1>5, <2>1, <3>1 DEF Uncredited, CutKept
    <3> QED BY <1>5, <2>2, <3>1, <3>2, OwnerAssumption DEF CapInv, LeftOut
  <2>5. Room'
    <3> SUFFICES ASSUME NEW q \in Posters, poster'[q].pc = "step" PROVE RoomFor(poster[q])'
      BY DEF Room
    <3>1. poster'[q] = poster[q] /\ RoomFor(poster[q]) /\ poster[q].b \in Batches
      BY DEF CapInv, Room, Claimed
    <3>2. batch'[poster[q].b].win = batch[poster[q].b].win
      BY <3>1 DEF CutKept
    <3> QED BY <2>2, <3>1, <3>2, OwnerAssumption DEF RoomFor
  <2> QED BY <1>4, <2>3, <2>4, <2>5 DEF CapInv
<1>9. CASE Kind[batch[b].win] = "SHARE"
  <2>1. PICK k0 \in Keys : S = {k0} /\ MonthPoints(Owner[k0]) < Cap /\ k0 \in ShareKeys
    <3>1. RoomFor(poster[p]) /\ poster[p].ok
      BY DEF CommitStep, CapInv, Room
    <3>2. batch[b].src \subseteq ShareKeys
      BY <1>2, <1>9, SharesOfBatches
    <3> QED BY <1>1, <1>3, <1>9, <3>1, <3>2 DEF RoomFor
  <2> DEFINE m0 == Owner[k0]
             e0 == Credit(k0, b, p)
  <2>2. m0 \in Members /\ ~Posted(k0) /\ e0 \notin ledger
    BY <1>2, <2>1, OwnerAssumption DEF Posted, EntriesOf, Credit
  <2>3. \A m \in Members \ {m0} : ShareEntries(m, "CREDIT")' = ShareEntries(m, "CREDIT") /\ MonthPoints(m)' = MonthPoints(m)
    BY <1>7, <2>1
  <2>4. ShareEntries(m0, "CREDIT")' = ShareEntries(m0, "CREDIT") \cup {e0} /\ e0 \notin ShareEntries(m0, "CREDIT")
    BY <1>6, <2>1, <2>2 DEF ShareEntries
  <2>5. SharesCount'
    BY <2>2, <2>3, <2>4, FS_AddElement DEF CapInv, SharesCount
  <2>6. MonthPoints(m0)' = MonthPoints(m0) + 1 /\ MonthPoints(m0) \in Nat
    <3>1. IsFiniteSet(ShareEntries(m0, "CREDIT"))
      BY <2>2 DEF CapInv, SharesCount
    <3>2. Cardinality(ShareEntries(m0, "CREDIT"))' = Cardinality(ShareEntries(m0, "CREDIT")) + 1
      BY <2>4, <3>1, FS_AddElement
    <3>3. MonthPoints(m0) = Cardinality(ShareEntries(m0, "CREDIT")) /\ MonthPoints(m0) \in Nat
      BY <2>2, PointsAreCredits DEF CapInv
    <3>4. MonthPoints(m0)' = Cardinality(ShareEntries(m0, "CREDIT"))'
      <4>1. m0 \in Members
        BY <2>2
      <4> HIDE DEF m0
      <4>2. \A m \in Members : (MonthPoints(m) = Cardinality(ShareEntries(m, "CREDIT")))'
        BY <1>4, <2>5, PointsNext
      <4> QED BY <4>1, <4>2
    <3> QED BY <3>2, <3>3, <3>4
  <2>7. MonthlyCap'
    BY <2>1, <2>2, <2>3, <2>6, LimitAssumption DEF CapInv, MonthlyCap
  <2>8. LeftOut'
    <3> SUFFICES ASSUME NEW c \in Batches, batch[c].st # "NONE", Kind[batch[c].win] = "SHARE",
                        NEW k \in batch[c].rules \ Intended(c), ~Posted(k)'
                 PROVE  (MonthPoints(Owner[k]) + Cardinality(Uncredited(c, k)) > Cap)'
      BY DEF LeftOut, CutKept
    <3>1. batch[c].rules \subseteq Keys /\ k \in Keys /\ Owner[k] \in Members
      BY SharesOfBatches, OwnerAssumption
    <3>2. ~Posted(k) /\ MonthPoints(Owner[k]) + Cardinality(Uncredited(c, k)) > Cap
      BY <1>5, <3>1 DEF CapInv, LeftOut
    <3>3. CASE Owner[k] # m0
      <4>1. Uncredited(c, k)' = Uncredited(c, k)
        BY <1>5, <2>1, <3>1, <3>3 DEF Uncredited, CutKept
      <4> QED BY <2>3, <3>1, <3>2, <3>3, <4>1
    <3>4. CASE Owner[k] = m0
      <4>1. Uncredited(c, k)' = Uncredited(c, k) \ {k0}
        BY <1>5, <2>1, <3>1 DEF Uncredited, CutKept
      <4>2. IsFiniteSet(Uncredited(c, k)) /\ Cardinality(Uncredited(c, k)) \in Nat
        BY UncreditedCount
      <4>3. /\ Cardinality(Uncredited(c, k) \ {k0}) >= Cardinality(Uncredited(c, k)) - 1
            /\ Cardinality(Uncredited(c, k) \ {k0}) \in Int
        <5> DEFINE T == Uncredited(c, k)
        <5>1. Cardinality(T \ {k0}) = IF k0 \in T THEN Cardinality(T) - 1 ELSE Cardinality(T)
          BY <4>2, FS_RemoveElement
        <5> HIDE DEF T
        <5> QED BY <4>2, <5>1 DEF T
      <4>4. Cardinality(Uncredited(c, k))' = Cardinality(Uncredited(c, k) \ {k0})
        BY <4>1
      <4>5. MonthPoints(Owner[k])' = MonthPoints(Owner[k]) + 1 /\ MonthPoints(Owner[k]) \in Nat
        BY <2>6, <3>4
      <4> QED BY <3>2, <4>2, <4>3, <4>4, <4>5, LimitAssumption
    <3> QED BY <3>3, <3>4
  <2>9. Room'
    <3> SUFFICES ASSUME NEW q \in Posters, poster'[q].pc = "step" PROVE RoomFor(poster[q])'
      BY DEF Room
    <3>1. poster'[q] = poster[q] /\ RoomFor(poster[q]) /\ poster[q].b \in Batches /\ poster[q].pc = "step"
      BY DEF CapInv, Room, Claimed
    <3>2. batch'[poster[q].b].win = batch[poster[q].b].win
      BY <3>1 DEF CutKept
    <3>3. q # p
      BY <3>1 DEF CommitStep, Set, TypeOK, PosterStates
    <3>4. \A k \in poster[q].step : memberLock[Owner[k]] = q
      BY <3>1 DEF LedgerInv, Locked
    <3>5. memberLock[m0] = p
      BY <2>1 DEF CommitStep, LedgerInv, Locked
    <3>6. \A k \in poster[q].step \cap Keys : MonthPoints(Owner[k])' = MonthPoints(Owner[k])
      BY <2>3, <3>3, <3>4, <3>5, OwnerAssumption
    <3> QED BY <3>1, <3>2, <3>6 DEF RoomFor
  <2> QED BY <1>4, <2>5, <2>7, <2>8, <2>9 DEF CapInv
<1> QED BY <1>8, <1>9

\* A new batch leaves out what is credited already and what the month has no room for.
LEMMA CapCut ==
    ASSUME TypeOK, Claimed, TotalsInv, CapInv, NEW u \in Users, NEW b \in Batches, NEW w \in Windows, DryRun(u, b, w)
    PROVE  CapInv'
<1>1. /\ batch'[b] = [Unused EXCEPT !.st = "DRY_RUN", !.win = w, !.src = Live(w), !.rules = RuleSnapshot(w),
                                    !.n = Cardinality(Ready(w)), !.maker = u]
      /\ batch[b].st = "NONE" /\ UNCHANGED <<poster, ledger>>
      /\ \A c \in Batches \ {b} : batch'[c] = batch[c] /\ item'[c] = item[c]
      /\ item'[b] = [k \in Keys |-> IF k \in Ready(w) THEN "PROPOSED" ELSE IF k \in Blocked(w) THEN "BLOCKED" ELSE "NONE"]
  BY DEF DryRun, SetBatch, TypeOK
<1>2. batch'[b].win = w /\ batch'[b].rules = RuleSnapshot(w)
  BY <1>1 DEF Unused
<1>3. Intended(b)' = Ready(w) /\ Live(w) \subseteq Keys
  <2>1. Ready(w) \subseteq Keys /\ Live(w) \subseteq Keys
    BY WindowAssumption DEF Ready, Live
  <2> QED BY <1>1, <2>1 DEF Intended, Pending
<1>4. /\ UNCHANGED <<poster, ledger>> /\ batch[b].st = "NONE" /\ \A c \in Batches \ {b} : batch'[c] = batch[c]
      /\ \A c \in Batches \ {b} : Intended(c)' = Intended(c)
  BY <1>1 DEF Intended
<1>5. /\ \A k : Posted(k)' = Posted(k)
      /\ \A m, t : ShareEntries(m, t)' = ShareEntries(m, t)
      /\ \A m : MonthPoints(m)' = MonthPoints(m)
  BY <1>4 DEF Posted, EntriesOf, ShareEntries, MonthPoints
<1>6. OnlyCredits' /\ SharesCount' /\ MonthlyCap'
  BY <1>4, <1>5 DEF CapInv, OnlyCredits, SharesCount, MonthlyCap
<1>7. ASSUME NEW c \in Batches \ {b} PROVE \A k : Uncredited(c, k)' = Uncredited(c, k)
  BY <1>4, <1>5 DEF Uncredited
<1>8. ASSUME NEW k \in RuleSnapshot(w) \ Ready(w), Kind[w] = "SHARE"
      PROVE  Posted(k) \/ MonthPoints(Owner[k]) + Cardinality(Uncredited(b, k)') > Cap
  <2> DEFINE Before == {j \in Live(w) : Candidate(w, j) /\ Owner[j] = Owner[k] /\ j <= k}
  <2>1. k \in Live(w) /\ k \notin held /\ k \in Keys
    BY <1>3, <1>8 DEF RuleSnapshot
  <2>2. Posted(k) \/ ~(MonthPoints(Owner[k]) + Cardinality(Before) <= Cap)
    BY <1>8, <2>1 DEF Ready, Candidate
  <2>3. Before = Uncredited(b, k)'
    BY <1>2, <1>5 DEF Uncredited, Candidate, RuleSnapshot
  <2>4. MonthPoints(Owner[k]) \in Nat
    BY <2>1, OwnerAssumption, PointsAreCredits DEF CapInv
  <2>5. Before \in SUBSET Keys
    BY <1>3
  <2>6. Cardinality(Before) \in Nat
    BY <2>5, KeySetsFinite
  <2> HIDE DEF Before
  <2> QED BY <2>2, <2>3, <2>4, <2>6, LimitAssumption
<1>9. LeftOut'
  <2> SUFFICES ASSUME NEW c \in Batches, (batch[c].st # "NONE")', (Kind[batch[c].win] = "SHARE")',
                      NEW k \in (batch[c].rules \ Intended(c))'
               PROVE  (Posted(k) \/ MonthPoints(Owner[k]) + Cardinality(Uncredited(c, k)) > Cap)'
    BY DEF LeftOut
  <2>1. CASE c = b
    BY <1>2, <1>3, <1>5, <1>8, <2>1
  <2>2. CASE c # b
    <3>1. Uncredited(c, k)' = Uncredited(c, k)
      BY <1>7, <2>2
    <3> QED BY <1>4, <1>5, <2>2, <3>1 DEF CapInv, LeftOut
  <2> QED BY <2>1, <2>2
<1>10. Room'
  <2> SUFFICES ASSUME NEW q \in Posters, poster[q].pc = "step" PROVE RoomFor(poster[q])'
    BY <1>4 DEF Room
  <2>1. poster[q].b \in Batches \ {b} /\ RoomFor(poster[q])
    BY <1>4 DEF CapInv, Room, TotalsInv, Runs, RunOK, Claimed
  <2> QED BY <1>4, <1>5, <2>1 DEF RoomFor
<1> QED BY <1>6, <1>9, <1>10 DEF CapInv

LEMMA CapStart == Init => CapInv
<1> SUFFICES ASSUME Init PROVE CapInv
  OBVIOUS
<1>1. \A m, t : ShareEntries(m, t) = {}
  BY DEF Init, ShareEntries
<1>2. OnlyCredits /\ SharesCount
  BY <1>1, FS_EmptySet DEF Init, OnlyCredits, SharesCount
<1>3. \A m : MonthPoints(m) = 0
  BY <1>1, FS_EmptySet DEF MonthPoints
<1>4. MonthlyCap
  BY <1>3, LimitAssumption DEF MonthlyCap
<1>5. \A b \in Batches : batch[b].st = "NONE"
  BY DEF Init, Unused
<1>6. \A p \in Posters : poster[p].pc = "idle"
  BY DEF Init, Idle
<1> QED BY <1>2, <1>4, <1>5, <1>6 DEF CapInv, LeftOut, Room

LEMMA CapStep ==
    ASSUME "REVERSAL" \notin Faults
    PROVE  TypeOK /\ Claimed /\ LedgerInv /\ TotalsInv /\ CapInv /\ [Next]_vars => CapInv'
<1> SUFFICES ASSUME TypeOK, Claimed, LedgerInv, TotalsInv, CapInv, [Next]_vars PROVE CapInv'
  OBVIOUS
<1>1. CASE UNCHANGED vars
  BY <1>1, CapWithoutEntry DEF vars, CutKept, Intended
<1>2. ASSUME NEW u \in Users, NEW b \in Batches, NEW w \in Windows, DryRun(u, b, w) PROVE CapInv'
  BY <1>2, CapCut
<1>3. ASSUME NEW p \in Posters, CommitStep(p) PROVE CapInv'
  <2>1. \A b \in Batches : CutKept(b)
    BY <1>3, CutIsKept DEF Run
  <2>2. \A q \in Posters \ {p} : poster'[q] = poster[q]
    BY <1>3 DEF CommitStep, Set, TypeOK
  <2>3. poster'[p].pc = "loop"
    <3> DEFINE n == poster[p].done + Cardinality(poster[p].step)
               pend == IF Grouped(p) THEN {} ELSE poster[p].pend \ poster[p].step
    <3>1. poster'[p] = [poster[p] EXCEPT !.pc = "loop", !.done = n, !.step = {}, !.ok = FALSE, !.pend = pend]
      BY <1>3 DEF CommitStep, Set, TypeOK
    <3>2. poster[p] \in PosterStates
      BY DEF TypeOK
    <3> HIDE DEF n, pend
    <3> QED BY <3>1, <3>2 DEF PosterStates
  <2> QED BY <1>3, <2>1, <2>2, <2>3, CapPost
<1>4. ASSUME NEW e \in ledger, Reverse(e) PROVE CapInv'
  BY <1>4 DEF Reverse
<1>5. ASSUME \/ \E c \in Batches : Submit(c) \/ Reconcile(c) \/ Close(c)
             \/ \E u \in Users, c \in Batches : Approve(u, c)
             \/ Environment
             \/ \E p \in Posters : Begin(p) \/ (Run(p) /\ ~CommitStep(p))
      PROVE  CapInv'
  <2>1. ledger' = ledger
    <3>1. CASE \/ \E c \in Batches : Submit(c) \/ Reconcile(c) \/ Close(c)
               \/ \E u \in Users, c \in Batches : Approve(u, c)
      BY <3>1 DEF Submit, Reconcile, Close, Approve
    <3>2. CASE Environment
      BY <3>2 DEF Environment, RecordFact, ContextChanges, HeartbeatAges, Crash
    <3>3. ASSUME NEW p \in Posters, Begin(p) PROVE ledger' = ledger
      BY <3>3 DEF Begin, BeginPost
    <3>4. ASSUME NEW p \in Posters, Run(p), ~CommitStep(p) PROVE ledger' = ledger
      BY <3>4 DEF Run, LockStep, RollBackStep, MarkFailed, ReadFinal, CommitFinal
    <3> QED BY <1>5, <3>1, <3>2, <3>3, <3>4
  <2>2. \A b \in Batches : CutKept(b)
    BY <1>5, CutIsKept
  <2>3. ASSUME NEW q \in Posters, poster'[q].pc = "step" PROVE poster'[q] = poster[q] \/ RoomFor(poster[q])'
    BY <1>5, <2>3, StepsAreLocked, CapLock DEF Next, Manage
  <2> QED BY <2>1, <2>2, <2>3, CapWithoutEntry
<1> QED BY <1>1, <1>2, <1>3, <1>4, <1>5 DEF Next, Manage

\* As long as no entry is reversed, no learner gets more than the cap for the excellent shares of a month, whatever
\* batches overlap, runs race or die and previews age (_excellent_entries, _assert_current_preview, the learner's lock).
THEOREM CapHolds ==
    ASSUME "REVERSAL" \notin Faults
    PROVE  Spec => []MonthlyCap
<1>1. TypeOK /\ Claimed /\ LedgerInv /\ TotalsInv /\ CapInv /\ [Next]_vars => CapInv'
  BY CapStep
<1>2. CapInv => MonthlyCap
  BY DEF CapInv
<1> QED BY <1>1, <1>2, CapStart, TypeCorrect, LedgerInvariant, TotalsInvariant, PTL DEF Spec

=============================================================================
