------------------------- MODULE SettlementKeepsLedger -------------------------
(***************************************************************************)
(* CreditSettlement implements CreditLedger, for every set of facts,       *)
(* learners, batches, users and posting runs and whatever faults are       *)
(* allowed: its initial states map to initial states of the ledger, and    *)
(* each of its steps to one step of the ledger or to none.                 *)
(***************************************************************************)
EXTENDS CreditSettlementProofs

(***************************************************************************)
(* Why a payment is sanctioned.  A run carries its batch's sanction with   *)
(* it, from the claim to the last commit, because no column it depends on  *)
(* is ever cleared; a batch without a row has none to give.                *)
(***************************************************************************)
FourEyes == \A b \in Batches : batch[b].approver # None => batch[b].approver # batch[b].maker

Unclaimed ==
    \A b \in Batches :
        batch[b].st = "NONE" => batch[b].approver = None /\ ~batch[b].confirmed

Working ==
    \A p \in Posters :
        poster[p].pc # "idle" => batch[poster[p].b].st # "NONE" /\ Sanctioned(poster[p].b)

Sourced == \A b \in Batches : batch[b].src \subseteq facts

Backed ==
    \A e \in ledger :
        IF e.type = "CREDIT" THEN batch[e.batch].st # "NONE" /\ Sanctioned(e.batch)
        ELSE \E d \in ledger : d.type = "CREDIT" /\ e = Reversal(d)

SanctionInv == FourEyes /\ Unclaimed /\ Working /\ Sourced /\ Backed

\* Rows whose maker, approver, confirmation and source stay as they are.
SameSanction(b) ==
    /\ batch'[b].maker = batch[b].maker /\ batch'[b].approver = batch[b].approver
    /\ batch'[b].confirmed = batch[b].confirmed /\ batch'[b].src = batch[b].src
    /\ batch'[b].st = "NONE" <=> batch[b].st = "NONE"
Steady == \A b \in Batches : SameSanction(b)

\* Runs that go on stay with their batch.
SameWork == \A p \in Posters :
    poster'[p].pc # "idle" => poster[p].pc # "idle" /\ poster'[p].b = poster[p].b

\* Rewriting the status, the totals or the heartbeat of one row is steady.
LEMMA SteadyRow ==
    ASSUME TypeOK, NEW b \in Batches, NEW r, SetBatch(b, r),
           r.maker = batch[b].maker, r.approver = batch[b].approver,
           r.confirmed = batch[b].confirmed, r.src = batch[b].src,
           r.st = "NONE" <=> batch[b].st = "NONE"
    PROVE  Steady
BY DEF Steady, SameSanction, SetBatch, TypeOK

LEMMA SteadyStep ==
    ASSUME TypeOK, Claimed, SanctionInv, Steady, SameWork, facts \subseteq facts',
           \/ ledger' = ledger
           \/ \E p \in Posters : /\ poster[p].pc # "idle"
                                 /\ \A e \in ledger' \ ledger : /\ e.type = "CREDIT"
                                                                /\ e.batch = poster[p].b
                                 /\ ledger \subseteq ledger'
           \/ \E d \in ledger : d.type = "CREDIT" /\ ledger' = ledger \cup {Reversal(d)}
    PROVE  SanctionInv'
<1>1. \A b \in Batches : Sanctioned(b)' <=> Sanctioned(b)
  BY DEF Steady, SameSanction, Sanctioned
<1>2. FourEyes' /\ Unclaimed'
  BY DEF Steady, SameSanction, SanctionInv, FourEyes, Unclaimed
<1>3. Working'
  <2> SUFFICES ASSUME NEW p \in Posters, poster'[p].pc # "idle"
               PROVE  (batch[poster[p].b].st # "NONE" /\ Sanctioned(poster[p].b))'
    BY DEF Working
  <2>1. PICK b : b = poster[p].b
    OBVIOUS
  <2>2. poster[p].pc # "idle" /\ poster'[p].b = b /\ b \in Batches
    BY <2>1 DEF SameWork, Claimed
  <2>3. batch[b].st # "NONE" /\ Sanctioned(b)
    BY <2>1, <2>2 DEF SanctionInv, Working
  <2>4. batch'[b].st # "NONE" /\ Sanctioned(b)'
    BY <1>1, <2>2, <2>3 DEF Steady, SameSanction
  <2> QED BY <2>2, <2>4 DEF Sanctioned
<1>4. Sourced'
  BY DEF Steady, SameSanction, SanctionInv, Sourced
<1>5. ASSUME NEW e \in ledger
      PROVE  IF e.type = "CREDIT" THEN batch'[e.batch].st # "NONE" /\ Sanctioned(e.batch)'
             ELSE \E d \in ledger : d.type = "CREDIT" /\ e = Reversal(d)
  <2>1. CASE e.type = "CREDIT"
    <3>1. e.batch \in Batches
      BY <2>1, CreditRows
    <3> QED BY <1>1, <2>1, <3>1 DEF SanctionInv, Backed, Steady, SameSanction
  <2>2. CASE e.type # "CREDIT"
    BY <2>2 DEF SanctionInv, Backed
  <2> QED BY <2>1, <2>2
<1>6. Backed'
  <2>1. CASE ledger' = ledger
    BY <1>5, <2>1 DEF Backed, Sanctioned
  <2>2. ASSUME NEW p \in Posters, poster[p].pc # "idle", ledger \subseteq ledger',
               \A e \in ledger' \ ledger : e.type = "CREDIT" /\ e.batch = poster[p].b
        PROVE  Backed'
    <3>b. PICK b : b = poster[p].b
      OBVIOUS
    <3>1. b \in Batches /\ batch[b].st # "NONE" /\ Sanctioned(b)
      BY <2>2, <3>b DEF SanctionInv, Working, Claimed
    <3>2. batch'[b].st # "NONE" /\ Sanctioned(b)'
      BY <1>1, <3>1 DEF Steady, SameSanction
    <3> SUFFICES ASSUME NEW e \in ledger'
                 PROVE  IF e.type = "CREDIT" THEN batch'[e.batch].st # "NONE" /\ Sanctioned(e.batch)'
                        ELSE \E d \in ledger' : d.type = "CREDIT" /\ e = Reversal(d)
      BY DEF Backed, Sanctioned
    <3>3. CASE e \in ledger
      BY <1>5, <2>2, <3>3
    <3>4. CASE e \notin ledger
      BY <2>2, <3>b, <3>2, <3>4 DEF Sanctioned
    <3> QED BY <3>3, <3>4
  <2>3. ASSUME NEW d \in ledger, d.type = "CREDIT", ledger' = ledger \cup {Reversal(d)}
        PROVE  Backed'
    <3>1. Reversal(d).type = "REVERSAL"
      BY DEF Reversal
    <3> QED BY <1>5, <2>3, <3>1 DEF Backed, Sanctioned
  <2> QED BY <2>1, <2>2, <2>3
<1> QED BY <1>2, <1>3, <1>4, <1>6 DEF SanctionInv

\* The approver of a batch without approval becomes somebody else than its maker.
LEMMA ApprovalSanctions ==
    ASSUME TypeOK, Claimed, SanctionInv, NEW u \in Users, NEW b \in Batches, Approve(u, b)
    PROVE  /\ SanctionInv' /\ Sanctioned(b)' /\ UNCHANGED <<facts, ledger>>
           /\ \A c \in Batches \ {b} : Sanctioned(c)' <=> Sanctioned(c)
<1>1. /\ batch'[b].maker = batch[b].maker /\ batch'[b].approver = u
      /\ batch'[b].confirmed = batch[b].confirmed /\ batch'[b].src = batch[b].src
      /\ batch'[b].st = "APPROVED" /\ batch[b].st # "NONE"
      /\ \A c \in Batches \ {b} : batch'[c] = batch[c]
  BY DEF Approve, SetBatch, TypeOK, BatchRows
<1>2. u # None /\ u # batch[b].maker /\ UNCHANGED <<facts, ledger, poster>>
  BY NoneAssumption DEF Approve, MayApprove
<1>3. Sanctioned(b)' /\ \A c \in Batches \ {b} : Sanctioned(c)' <=> Sanctioned(c)
  BY <1>1, <1>2 DEF Sanctioned
<1>4. FourEyes' /\ Unclaimed' /\ Sourced'
  BY <1>1, <1>2 DEF SanctionInv, FourEyes, Unclaimed, Sourced
<1>5. Working'
  BY <1>1, <1>2, <1>3 DEF SanctionInv, Working, Claimed, Sanctioned
<1>6. Backed'
  BY <1>1, <1>2, <1>3, CreditRows DEF SanctionInv, Backed, Sanctioned
<1> QED BY <1>2, <1>3, <1>4, <1>5, <1>6 DEF SanctionInv

\* A claim needs an approval that is there, or writes the confirmation itself.
LEMMA ClaimSanctions ==
    ASSUME TypeOK, Claimed, SanctionInv, NEW p \in Posters, NEW b \in Batches,
           NEW mode \in {"approval", "confirm"}, NEW limit, NEW resume,
           BeginPost(p, b, mode, limit, resume)
    PROVE  /\ SanctionInv' /\ Sanctioned(b)' /\ UNCHANGED <<facts, ledger, item>>
           /\ \A c \in Batches \ {b} : Sanctioned(c)' <=> Sanctioned(c)
<1>1. /\ batch'[b].maker = batch[b].maker /\ batch'[b].approver = batch[b].approver
      /\ batch'[b].confirmed = (batch[b].confirmed \/ mode = "confirm")
      /\ batch'[b].src = batch[b].src
      /\ batch'[b].st = "POSTING" /\ batch[b].st # "NONE"
      /\ \A c \in Batches \ {b} : batch'[c] = batch[c]
  BY DEF BeginPost, SetBatch, TypeOK, BatchRows
<1>2. /\ UNCHANGED <<facts, ledger, item>> /\ poster'[p].b = b
      /\ \A q \in Posters \ {p} : poster'[q] = poster[q]
  BY DEF BeginPost, Set, Idle, TypeOK
<1>3. Sanctioned(b)'
  <2>1. CASE mode = "confirm"
    BY <1>1, <2>1 DEF Sanctioned
  <2>2. CASE mode # "confirm"
    <3>1. batch[b].approver # None
      BY <2>2 DEF BeginPost, Claimable
    <3> QED BY <1>1, <3>1 DEF Sanctioned, SanctionInv, FourEyes
  <2> QED BY <2>1, <2>2
<1>4. \A c \in Batches \ {b} : Sanctioned(c)' <=> Sanctioned(c)
  BY <1>1 DEF Sanctioned
<1>5. FourEyes' /\ Unclaimed' /\ Sourced'
  BY <1>1, <1>2 DEF SanctionInv, FourEyes, Unclaimed, Sourced
<1>6. Working'
  BY <1>1, <1>2, <1>3, <1>4 DEF SanctionInv, Working, Claimed, Sanctioned
<1>7. Backed'
  BY <1>1, <1>2, <1>3, <1>4, CreditRows DEF SanctionInv, Backed, Sanctioned
<1> QED BY <1>2, <1>3, <1>4, <1>5, <1>6, <1>7 DEF SanctionInv

\* What each remaining action does to the ledger and to the sanctions: nothing.
LEMMA QuietActions ==
    ASSUME TypeOK, Claimed, SanctionInv,
           \/ \E k \in Keys : RecordFact(k) \/ ContextChanges(k)
           \/ \E b \in Batches : Submit(b) \/ Reconcile(b) \/ Close(b) \/ HeartbeatAges(b)
           \/ \E p \in Posters : \/ LockStep(p) \/ RollBackStep(p) \/ ReadFinal(p)
                                 \/ CommitFinal(p) \/ Crash(p)
                                 \/ \E k \in Keys : MarkFailed(p, k)
           \/ UNCHANGED vars
    PROVE  Steady /\ SameWork /\ ledger' = ledger /\ facts \subseteq facts'
<1>a. /\ \A b \in Batches : batch[b] \in BatchRows
      /\ \A p \in Posters : poster[p] \in PosterStates
  BY DEF TypeOK
<1>1. ASSUME NEW k \in Keys, RecordFact(k) \/ ContextChanges(k)
      PROVE  Steady /\ SameWork /\ ledger' = ledger /\ facts \subseteq facts'
  BY <1>1 DEF RecordFact, ContextChanges, Steady, SameSanction, SameWork
<1>2. ASSUME NEW b \in Batches, Submit(b) \/ Reconcile(b) \/ Close(b) \/ HeartbeatAges(b)
      PROVE  Steady /\ SameWork /\ ledger' = ledger /\ facts \subseteq facts'
  <2>1. SameWork /\ ledger' = ledger /\ facts \subseteq facts'
    BY <1>2 DEF Submit, Reconcile, Close, HeartbeatAges, SameWork
  <2>a. batch[b] \in BatchRows
    BY <1>a
  <2>2. CASE Submit(b)
    <3> DEFINE r == [batch[b] EXCEPT !.st = "PENDING_APPROVAL"]
    <3>1. /\ r.maker = batch[b].maker /\ r.approver = batch[b].approver
          /\ r.confirmed = batch[b].confirmed /\ r.src = batch[b].src /\ r.st = "PENDING_APPROVAL"
      BY <2>a DEF BatchRows
    <3>2. SetBatch(b, r) /\ batch[b].st # "NONE"
      BY <2>2 DEF Submit
    <3> HIDE DEF r
    <3> QED BY <2>1, <3>1, <3>2, SteadyRow
  <2>3. CASE Reconcile(b)
    <3> DEFINE st == IF Complete(b) THEN "POSTED" ELSE "PARTIAL_FAILED"
               r == [batch[b] EXCEPT !.st = st, !.posted = Cardinality(PostedItems(b)),
                                     !.beat = FALSE]
    <3>1. /\ r.maker = batch[b].maker /\ r.approver = batch[b].approver
          /\ r.confirmed = batch[b].confirmed /\ r.src = batch[b].src /\ r.st = st
      BY <2>a DEF BatchRows
    <3>2. SetBatch(b, r) /\ batch[b].st # "NONE" /\ st # "NONE"
      BY <2>3 DEF Reconcile
    <3> HIDE DEF r
    <3> QED BY <2>1, <3>1, <3>2, SteadyRow
  <2>4. CASE Close(b)
    <3> DEFINE r == [batch[b] EXCEPT !.st = "CLOSED"]
    <3>1. /\ r.maker = batch[b].maker /\ r.approver = batch[b].approver
          /\ r.confirmed = batch[b].confirmed /\ r.src = batch[b].src /\ r.st = "CLOSED"
      BY <2>a DEF BatchRows
    <3>2. SetBatch(b, r) /\ batch[b].st # "NONE"
      BY <2>4 DEF Close
    <3> HIDE DEF r
    <3> QED BY <2>1, <3>1, <3>2, SteadyRow
  <2>5. CASE HeartbeatAges(b)
    <3> DEFINE r == [batch[b] EXCEPT !.beat = FALSE]
    <3>1. /\ r.maker = batch[b].maker /\ r.approver = batch[b].approver
          /\ r.confirmed = batch[b].confirmed /\ r.src = batch[b].src /\ r.st = batch[b].st
      BY <2>a DEF BatchRows
    <3>2. SetBatch(b, r)
      BY <2>5 DEF HeartbeatAges
    <3> HIDE DEF r
    <3> QED BY <2>1, <3>1, <3>2, SteadyRow
  <2> QED BY <1>2, <2>1, <2>2, <2>3, <2>4, <2>5
<1>3. ASSUME NEW p \in Posters, LockStep(p) \/ RollBackStep(p) \/ ReadFinal(p) \/ Crash(p)
      PROVE  Steady /\ SameWork /\ ledger' = ledger /\ facts \subseteq facts'
  <2>1. Steady /\ ledger' = ledger /\ facts \subseteq facts'
    BY <1>3 DEF LockStep, RollBackStep, ReadFinal, Crash, Steady, SameSanction
  <2>2. /\ \A q \in Posters \ {p} : poster'[q] = poster[q]
        /\ poster[p].pc # "idle"
        /\ poster'[p].pc # "idle" => poster'[p].b = poster[p].b
    <3>1. CASE LockStep(p)
      BY <1>a, <3>1 DEF LockStep, Set, TypeOK, PosterStates
    <3>2. CASE RollBackStep(p)
      BY <1>a, <3>2 DEF RollBackStep, Set, TypeOK, PosterStates
    <3>3. CASE ReadFinal(p)
      BY <1>a, <3>3 DEF ReadFinal, Set, Idle, TypeOK, PosterStates
    <3>4. CASE Crash(p)
      BY <3>4 DEF Crash, Set, Idle, TypeOK
    <3> QED BY <1>3, <3>1, <3>2, <3>3, <3>4
  <2>3. SameWork
    BY <2>2 DEF SameWork
  <2> QED BY <2>1, <2>3
<1>4. ASSUME NEW p \in Posters, NEW k \in Keys, MarkFailed(p, k)
      PROVE  Steady /\ SameWork /\ ledger' = ledger /\ facts \subseteq facts'
  <2>1. Steady
    BY <1>a, <1>4 DEF MarkFailed, SetBatch, Steady, SameSanction, BatchRows, TypeOK
  <2>2. SameWork /\ ledger' = ledger /\ facts \subseteq facts'
    BY <1>a, <1>4 DEF MarkFailed, Set, SameWork, TypeOK, PosterStates
  <2> QED BY <2>1, <2>2
<1>5. ASSUME NEW p \in Posters, CommitFinal(p)
      PROVE  Steady /\ SameWork /\ ledger' = ledger /\ facts \subseteq facts'
  <2>1. SameWork /\ ledger' = ledger /\ facts \subseteq facts'
    BY <1>5 DEF CommitFinal, Set, Idle, SameWork, TypeOK
  <2>2. PICK b : b = poster[p].b
    OBVIOUS
  <2>3. b \in Batches /\ poster[p].final \in {"POSTED", "DRY_RUN", "PARTIAL_FAILED"}
    BY <1>a, <1>5, <2>2 DEF CommitFinal, Claimed, PosterStates
  <2>4. Steady
    BY <1>a, <1>5, <2>2, <2>3 DEF CommitFinal, SetBatch, Steady, SameSanction, BatchRows, TypeOK
  <2> QED BY <2>1, <2>4
<1>6. CASE UNCHANGED vars
  BY <1>6 DEF vars, Steady, SameSanction, SameWork
<1> QED BY <1>1, <1>2, <1>3, <1>4, <1>5, <1>6

\* Cutting a batch gives it no sanction and takes none away.
LEMMA CutSanctionsNothing ==
    ASSUME TypeOK, Claimed, SanctionInv, NEW u \in Users, NEW b \in Batches, NEW w \in Windows,
           DryRun(u, b, w)
    PROVE  /\ SanctionInv' /\ UNCHANGED <<facts, ledger>>
           /\ ~Sanctioned(b) /\ ~Sanctioned(b)'
           /\ \A c \in Batches \ {b} : Sanctioned(c)' <=> Sanctioned(c)
<1>1. /\ batch'[b].approver = None /\ batch'[b].confirmed = FALSE /\ batch'[b].src = Live(w)
      /\ batch'[b].st = "DRY_RUN" /\ batch[b].st = "NONE"
      /\ \A c \in Batches \ {b} : batch'[c] = batch[c]
  BY DEF DryRun, SetBatch, Unused, TypeOK
<1>2. UNCHANGED <<facts, ledger, poster>>
  BY DEF DryRun
<1>3. ~Sanctioned(b) /\ ~Sanctioned(b)'
  BY <1>1 DEF Sanctioned, SanctionInv, Unclaimed
<1>4. \A c \in Batches \ {b} : Sanctioned(c)' <=> Sanctioned(c)
  BY <1>1 DEF Sanctioned
<1>5. FourEyes' /\ Unclaimed' /\ Sourced'
  BY <1>1, <1>2 DEF SanctionInv, FourEyes, Unclaimed, Sourced, Live
<1>6. Working'
  BY <1>1, <1>2, <1>3, <1>4 DEF SanctionInv, Working, Claimed, Sanctioned
<1>7. Backed'
  BY <1>1, <1>2, <1>3, <1>4, CreditRows DEF SanctionInv, Backed, Sanctioned
<1> QED BY <1>2, <1>3, <1>4, <1>5, <1>6, <1>7 DEF SanctionInv

\* A commit pays under the batch of its run, a reversal answers the entry it names.
LEMMA PostingSanctioned ==
    ASSUME TypeOK, Claimed, LedgerInv, SanctionInv, NEW p \in Posters, CommitStep(p)
    PROVE  Steady /\ SanctionInv'
<1>1. PICK b : b = poster[p].b
  OBVIOUS
<1>2. /\ b \in Batches /\ ledger' = ledger \cup {Credit(k, b, p) : k \in poster[p].step}
      /\ \A c \in Batches : batch'[c] = IF c = b THEN [batch[b] EXCEPT !.beat = TRUE] ELSE batch[c]
  BY <1>1, CommitWrites
<1>3. Steady
  <2> DEFINE r == [batch[b] EXCEPT !.beat = TRUE]
  <2>1. batch[b] \in BatchRows
    BY <1>2 DEF TypeOK
  <2>2. /\ r.maker = batch[b].maker /\ r.approver = batch[b].approver
        /\ r.confirmed = batch[b].confirmed /\ r.src = batch[b].src /\ r.st = batch[b].st
    BY <2>1 DEF BatchRows
  <2>3. \A c \in Batches : batch'[c] = IF c = b THEN r ELSE batch[c]
    BY <1>2
  <2> HIDE DEF r
  <2> QED BY <2>2, <2>3 DEF Steady, SameSanction
<1>4. poster[p].pc # "idle" /\ SameWork /\ facts' = facts
  BY DEF CommitStep, Set, SameWork, TypeOK, PosterStates
<1>5. \A e \in ledger' \ ledger : e.type = "CREDIT" /\ e.batch = b
  BY <1>2 DEF Credit
<1> QED BY <1>1, <1>2, <1>3, <1>4, <1>5, SteadyStep

LEMMA ReversalSanctioned ==
    ASSUME TypeOK, Claimed, SanctionInv, NEW e \in ledger, Reverse(e)
    PROVE  Steady /\ SanctionInv'
<1>1. Steady /\ SameWork /\ facts' = facts
  BY DEF Reverse, Steady, SameSanction, SameWork
<1>2. e.type = "CREDIT" /\ ledger' = ledger \cup {Reversal(e)}
  BY DEF Reverse
<1> QED BY <1>1, <1>2, SteadyStep

THEOREM SanctionInvariant == Spec => []SanctionInv
<1>1. Init => SanctionInv
  BY DEF Init, SanctionInv, FourEyes, Unclaimed, Working, Sourced, Backed, Unused, Idle
<1>2. TypeOK /\ Claimed /\ LedgerInv /\ SanctionInv /\ [Next]_vars => SanctionInv'
  <2> SUFFICES ASSUME TypeOK, Claimed, LedgerInv, SanctionInv, [Next]_vars PROVE SanctionInv'
    OBVIOUS
  <2>1. ASSUME NEW u \in Users, NEW b \in Batches, NEW w \in Windows, DryRun(u, b, w)
        PROVE  SanctionInv'
    BY <2>1, CutSanctionsNothing
  <2>2. ASSUME NEW u \in Users, NEW b \in Batches, Approve(u, b) PROVE SanctionInv'
    BY <2>2, ApprovalSanctions
  <2>3. ASSUME NEW p \in Posters, Begin(p) PROVE SanctionInv'
    BY <2>3, ClaimSanctions DEF Begin
  <2>4. ASSUME NEW p \in Posters, CommitStep(p) PROVE SanctionInv'
    BY <2>4, PostingSanctioned
  <2>5. ASSUME NEW e \in ledger, Reverse(e) PROVE SanctionInv'
    BY <2>5, ReversalSanctioned
  <2>6. ASSUME \/ \E k \in Keys : RecordFact(k) \/ ContextChanges(k)
               \/ \E b \in Batches : Submit(b) \/ Reconcile(b) \/ Close(b) \/ HeartbeatAges(b)
               \/ \E p \in Posters : \/ LockStep(p) \/ RollBackStep(p) \/ ReadFinal(p)
                                     \/ CommitFinal(p) \/ Crash(p)
                                     \/ \E k \in Keys : MarkFailed(p, k)
               \/ UNCHANGED vars
        PROVE  SanctionInv'
    BY <2>6, QuietActions, SteadyStep
  <2> QED BY <2>1, <2>2, <2>3, <2>4, <2>5, <2>6 DEF Next, Manage, Environment, Run
<1> QED BY <1>1, <1>2, TypeCorrect, LedgerInvariant, PTL DEF Spec

\* Nothing is paid without the approval of somebody else or a confirmation.
THEOREM CreditsAreSanctioned == Spec => []OnlySanctionedCredits
<1>1. SanctionInv => OnlySanctionedCredits
  BY DEF SanctionInv, Backed, OnlySanctionedCredits
<1> QED BY <1>1, SanctionInvariant, PTL

(***************************************************************************)
(* The mapping.                                                            *)
(***************************************************************************)
CreditMap == [k \in Keys |-> EntriesOf(k)]
ReversalMap == [k \in Keys |-> ReversalsOf(k)]

LEMMA SameSanctionedFacts ==
    ASSUME \A b \in Batches : Sanctioned(b)' <=> Sanctioned(b),
           \A b \in Batches : Sanctioned(b) => Intended(b)' = Intended(b)
    PROVE  SanctionedFacts' = SanctionedFacts
BY DEF SanctionedFacts

LEMMA SameEntries ==
    ASSUME ledger' = ledger
    PROVE  CreditMap' = CreditMap /\ ReversalMap' = ReversalMap
BY DEF CreditMap, ReversalMap, EntriesOf, ReversalsOf

\* Sanctioning batch b sanctions exactly the facts it intends to post.
LEMMA SanctionMaps ==
    ASSUME SanctionInv, LedgerInv, NEW b \in Batches, Sanctioned(b)',
           \A c \in Batches \ {b} : Sanctioned(c)' <=> Sanctioned(c),
           \A c \in Batches : Intended(c)' = Intended(c),
           UNCHANGED <<facts, ledger>>
    PROVE  \E S \in SUBSET Keys : Promised!Sanction(S)
<1>1. Intended(b) \subseteq facts /\ Intended(b) \subseteq Keys
  BY DEF LedgerInv, Frozen, SanctionInv, Sourced, Intended
<1>2. SanctionedFacts' = SanctionedFacts \cup Intended(b)
  <2>1. ASSUME NEW k PROVE k \in SanctionedFacts' <=> k \in SanctionedFacts \cup Intended(b)
    <3>1. k \in SanctionedFacts' <=> \E c \in Batches : Sanctioned(c)' /\ k \in Intended(c)'
      BY DEF SanctionedFacts
    <3>2. k \in SanctionedFacts <=> \E c \in Batches : Sanctioned(c) /\ k \in Intended(c)
      BY DEF SanctionedFacts
    <3> QED BY <3>1, <3>2
  <2> QED BY <2>1
<1>3. CreditMap' = CreditMap /\ ReversalMap' = ReversalMap
  BY SameEntries
<1>4. Promised!Sanction(Intended(b))
  BY <1>1, <1>2, <1>3 DEF Promised!Sanction, CreditMap, ReversalMap
<1> QED BY <1>1, <1>4

\* A commit pays each fact of its step once and nothing else.
LEMMA CommitMaps ==
    ASSUME TypeOK, Claimed, LedgerInv, SanctionInv, NEW p \in Posters, CommitStep(p)
    PROVE  \E S \in SUBSET Keys : Promised!Pay(S)
<1>1. PICK b : b = poster[p].b
  OBVIOUS
<1>2. PICK S : S = poster[p].step
  OBVIOUS
<1>3. /\ b \in Batches /\ S \in SUBSET Keys
      /\ \A k \in S : item[b][k] \in Pending /\ ~Posted(k)
      /\ ledger' = ledger \cup {Credit(k, b, p) : k \in S}
      /\ \A k \in S : item'[b][k] = "POSTED"
      /\ \A k \in Keys \ S : item'[b][k] = item[b][k]
      /\ \A c \in Batches \ {b} : item'[c] = item[c]
  <2>1. /\ poster[p].b \in Batches /\ poster[p].step \in SUBSET Keys
        /\ \A k \in poster[p].step : item[poster[p].b][k] \in Pending /\ ~Posted(k)
    BY CommitWrites
  <2>2. ledger' = ledger \cup {Credit(k, poster[p].b, p) : k \in poster[p].step}
    BY CommitWrites
  <2>3. /\ \A k \in poster[p].step : item'[poster[p].b][k] = "POSTED"
        /\ \A k \in Keys \ poster[p].step : item'[poster[p].b][k] = item[poster[p].b][k]
        /\ \A c \in Batches \ {poster[p].b} : item'[c] = item[c]
    BY CommitWrites
  <2> QED BY <1>1, <1>2, <2>1, <2>2, <2>3
<1>4. Sanctioned(b) /\ facts' = facts
  BY <1>1 DEF SanctionInv, Working, CommitStep
<1>5. \A c \in Batches : (Sanctioned(c)' <=> Sanctioned(c)) /\ Intended(c)' = Intended(c)
  <2>1. \A c \in Batches : Sanctioned(c)' <=> Sanctioned(c)
    BY PostingSanctioned DEF Steady, SameSanction, Sanctioned
  <2>2. \A c \in Batches, k \in Keys :
           item'[c][k] \in Pending \cup {"POSTED"} <=> item[c][k] \in Pending \cup {"POSTED"}
    BY <1>3
  <2> QED BY <2>1, <2>2 DEF Intended
<1>6. SanctionedFacts' = SanctionedFacts
  BY <1>5, SameSanctionedFacts
<1>7. S \subseteq SanctionedFacts
  BY <1>3, <1>4 DEF SanctionedFacts, Intended
<1>8. ASSUME NEW k \in Keys
      PROVE  /\ EntriesOf(k)' = IF k \in S THEN {Credit(k, b, p)} ELSE EntriesOf(k)
             /\ k \in S => EntriesOf(k) = {}
             /\ ReversalsOf(k)' = ReversalsOf(k)
  <2>1. k \in S => EntriesOf(k) = {}
    BY <1>3 DEF Posted
  <2>2. EntriesOf(k)' = IF k \in S THEN {Credit(k, b, p)} ELSE EntriesOf(k)
    BY <1>3, <2>1 DEF EntriesOf, Credit
  <2>3. ASSUME NEW e PROVE Reversal(e) \in ledger' <=> Reversal(e) \in ledger
    BY <1>3 DEF Reversal, Credit
  <2>4. k \in S => Reversal(Credit(k, b, p)) \notin ledger
    <3> SUFFICES ASSUME k \in S, Reversal(Credit(k, b, p)) \in ledger PROVE FALSE
      OBVIOUS
    <3>1. PICK d \in ledger : d.type = "CREDIT" /\ Reversal(Credit(k, b, p)) = Reversal(d)
      BY DEF SanctionInv, Backed, Reversal
    <3>2. d.key = k
      BY <3>1 DEF Reversal, Credit
    <3> QED BY <2>1, <3>1, <3>2 DEF EntriesOf
  <2>5. ReversalsOf(k)' = {e \in EntriesOf(k)' : Reversal(e) \in ledger'}
    BY DEF ReversalsOf
  <2>6. ReversalsOf(k) = {e \in EntriesOf(k) : Reversal(e) \in ledger}
    BY DEF ReversalsOf
  <2> QED BY <2>1, <2>2, <2>3, <2>4, <2>5, <2>6
<1>9. /\ CreditMap' = [k \in Keys |-> IF k \in S THEN {Credit(k, b, p)} ELSE EntriesOf(k)]
      /\ ReversalMap' = ReversalMap
  BY <1>8 DEF CreditMap, ReversalMap
<1>10. \A k \in S : Credit(k, b, p) \in Credits
  BY <1>3 DEF Credits
<1>11. Promised!Pay(S)
  BY <1>3, <1>4, <1>6, <1>7, <1>8, <1>9, <1>10 DEF Promised!Pay, CreditMap, ReversalMap
<1> QED BY <1>3, <1>11

\* A reversal takes back the one entry of its fact.
LEMMA ReversalMaps ==
    ASSUME TypeOK, Claimed, SanctionInv, CreditedOnce, NEW e \in ledger, Reverse(e)
    PROVE  \E k \in Keys : Promised!TakeBack(k)
<1>1. PICK k : k = e.key
  OBVIOUS
<1>2. /\ e.type = "CREDIT" /\ Reversal(e) \notin ledger /\ ledger' = ledger \cup {Reversal(e)}
      /\ UNCHANGED <<facts, batch, item>>
  BY DEF Reverse
<1>3. k \in Keys /\ Reversal(e).type = "REVERSAL"
  BY <1>1, <1>2, CreditRows DEF Reversal
<1>4. EntriesOf(k) = {e}
  BY <1>1, <1>2 DEF EntriesOf, CreditedOnce
<1>5. \A j \in Keys : EntriesOf(j)' = EntriesOf(j)
  BY <1>2, <1>3 DEF EntriesOf
<1>6. ReversalsOf(k) = {} /\ ReversalsOf(k)' = {e}
  BY <1>2, <1>3, <1>4, <1>5 DEF ReversalsOf
<1>7. ASSUME NEW j \in Keys, j # k PROVE ReversalsOf(j)' = ReversalsOf(j)
  <2>1. \A d \in EntriesOf(j) : Reversal(d) # Reversal(e)
    BY <1>1, <1>7 DEF EntriesOf, Reversal
  <2> QED BY <1>2, <1>5, <1>7, <2>1 DEF ReversalsOf
<1>8. SanctionedFacts' = SanctionedFacts
  BY <1>2 DEF SanctionedFacts, Sanctioned, Intended
<1>9. CreditMap' = CreditMap
  BY <1>5 DEF CreditMap
<1>10. ReversalMap' = [ReversalMap EXCEPT ![k] = CreditMap[k]]
  BY <1>3, <1>4, <1>6, <1>7 DEF CreditMap, ReversalMap
<1>11. Promised!TakeBack(k)
  BY <1>2, <1>3, <1>6, <1>8, <1>9, <1>10 DEF Promised!TakeBack, CreditMap, ReversalMap
<1> QED BY <1>3, <1>11

\* Every step of a settlement is one step of the ledger, or none.
LEMMA StepMaps ==
    ASSUME TypeOK, Claimed, LedgerInv, SanctionInv, CreditedOnce, [Next]_vars
    PROVE  [Promised!Next]_(Promised!ledgerVars)
<1>1. ASSUME NEW u \in Users, NEW b \in Batches, NEW w \in Windows, DryRun(u, b, w)
      PROVE  UNCHANGED Promised!ledgerVars
  <2>1. /\ ~Sanctioned(b) /\ ~Sanctioned(b)' /\ UNCHANGED <<facts, ledger>>
        /\ \A c \in Batches \ {b} : Sanctioned(c)' <=> Sanctioned(c)
    BY <1>1, CutSanctionsNothing
  <2>2. \A c \in Batches \ {b} : item'[c] = item[c]
    BY <1>1 DEF DryRun, TypeOK
  <2>3. SanctionedFacts' = SanctionedFacts
    BY <2>1, <2>2, SameSanctionedFacts DEF Intended
  <2> QED BY <2>1, <2>3, SameEntries DEF Promised!ledgerVars, CreditMap, ReversalMap
<1>2. ASSUME NEW u \in Users, NEW b \in Batches, Approve(u, b)
      PROVE  Promised!Next
  <2>1. \A c \in Batches, k \in Keys :
           item'[c][k] = IF c = b /\ item[c][k] = "PROPOSED" THEN "APPROVED" ELSE item[c][k]
    BY <1>2 DEF Approve, TypeOK
  <2>2. \A c \in Batches : Intended(c)' = Intended(c)
    BY <2>1 DEF Intended, Pending
  <2> QED BY <1>2, <2>2, ApprovalSanctions, SanctionMaps DEF Promised!Next
<1>3. ASSUME NEW p \in Posters, Begin(p) PROVE Promised!Next
  <2>1. PICK b \in Batches, mode \in {"approval", "confirm"}, limit \in {0, StepLimit},
             resume \in BOOLEAN : BeginPost(p, b, mode, limit, resume)
    BY <1>3 DEF Begin
  <2>2. /\ Sanctioned(b)' /\ UNCHANGED <<facts, ledger, item>>
        /\ \A c \in Batches \ {b} : Sanctioned(c)' <=> Sanctioned(c)
    BY <2>1, ClaimSanctions
  <2>3. \A c \in Batches : Intended(c)' = Intended(c)
    BY <2>2 DEF Intended
  <2> QED BY <2>2, <2>3, SanctionMaps DEF Promised!Next
<1>4. ASSUME NEW p \in Posters, CommitStep(p) PROVE Promised!Next
  BY <1>4, CommitMaps DEF Promised!Next
<1>5. ASSUME NEW e \in ledger, Reverse(e) PROVE Promised!Next
  BY <1>5, ReversalMaps DEF Promised!Next
<1>6. ASSUME Steady, ledger' = ledger,
             \A b \in Batches : Intended(b)' = Intended(b)
      PROVE  SanctionedFacts' = SanctionedFacts /\ CreditMap' = CreditMap
             /\ ReversalMap' = ReversalMap
  <2>1. \A b \in Batches : Sanctioned(b)' <=> Sanctioned(b)
    BY <1>6 DEF Steady, SameSanction, Sanctioned
  <2> QED BY <1>6, <2>1, SameSanctionedFacts, SameEntries
<1>7. ASSUME NEW k \in Keys, RecordFact(k) PROVE Promised!Next
  <2>1. Steady /\ ledger' = ledger /\ item' = item /\ facts' = facts \cup {k}
    BY <1>7, QuietActions DEF RecordFact
  <2>2. Promised!Record(k)
    BY <1>6, <2>1 DEF Promised!Record, CreditMap, ReversalMap, Intended
  <2> QED BY <2>2 DEF Promised!Next
<1>8. ASSUME NEW p \in Posters, NEW k \in Keys, MarkFailed(p, k)
      PROVE  UNCHANGED Promised!ledgerVars
  <2>1. Steady /\ ledger' = ledger /\ facts' = facts
    BY <1>8, QuietActions DEF MarkFailed
  <2>2. \A c \in Batches, j \in Keys :
           \/ item'[c][j] = item[c][j]
           \/ item[c][j] \in Pending /\ item'[c][j] = "FAILED"
    BY <1>8 DEF MarkFailed, FailedStatus, Claimed, TypeOK
  <2>3. \A c \in Batches : Intended(c)' = Intended(c)
    BY <2>2 DEF Intended, Pending
  <2> QED BY <1>6, <2>1, <2>3 DEF Promised!ledgerVars, CreditMap, ReversalMap
<1>9. ASSUME \/ \E k \in Keys : ContextChanges(k)
             \/ \E b \in Batches : Submit(b) \/ Reconcile(b) \/ Close(b) \/ HeartbeatAges(b)
             \/ \E p \in Posters : \/ LockStep(p) \/ RollBackStep(p) \/ ReadFinal(p)
                                   \/ CommitFinal(p) \/ Crash(p)
             \/ UNCHANGED vars
      PROVE  UNCHANGED Promised!ledgerVars
  <2>1. Steady /\ ledger' = ledger
    BY <1>9, QuietActions
  <2>2. item' = item /\ facts' = facts
    BY <1>9 DEF ContextChanges, Submit, Reconcile, Close, HeartbeatAges, LockStep, RollBackStep,
                ReadFinal, CommitFinal, Crash, vars
  <2> QED BY <1>6, <2>1, <2>2 DEF Promised!ledgerVars, CreditMap, ReversalMap, Intended
<1> QED
  BY <1>1, <1>2, <1>3, <1>4, <1>5, <1>7, <1>8, <1>9 DEF Next, Manage, Environment, Run

\* Settlement implements the ledger its readers are promised.
THEOREM SettlementKeepsPromise == Spec => KeepsTheLedgersPromise
<1>1. Init => Promised!Init
  BY KeyAssumption DEF Init, Promised!Init, SanctionedFacts, Intended, Pending, EntriesOf, ReversalsOf
<1>2. TypeOK /\ Claimed /\ LedgerInv /\ SanctionInv /\ CreditedOnce /\ [Next]_vars
        => [Promised!Next]_(Promised!ledgerVars)
  BY StepMaps
<1> QED
  BY <1>1, <1>2, TypeCorrect, LedgerInvariant, SanctionInvariant, CreditsUnique, PTL
     DEF Spec, KeepsTheLedgersPromise, Promised!LedgerSpec
=============================================================================
