-------------------------- MODULE MCCreditSettlement --------------------------
(* Small instances of CreditSettlement: which learner owns which fact, and  *)
(* which facts the selections that batches are cut from have in common.     *)
EXTENDS CreditSettlement, TLC

CONSTANTS w1, w2, m1, m2

\* Two selections of one learner's shares in one month; fact 2 is in both.
SameLearner == (1 :> m1) @@ (2 :> m1) @@ (3 :> m1)
OverlapSpan == (w1 :> {1, 2}) @@ (w2 :> {2, 3})
ShareKind == (w1 :> "SHARE") @@ (w2 :> "SHARE")

\* One selection of two facts of two learners, or the study meeting they belong to.
PairOwner == (1 :> m1) @@ (2 :> m2)
PairSpan == w1 :> {1, 2}
SingleReading == w1 :> "READING"

Symmetry == Permutations(Posters) \cup Permutations(Batches) \cup Permutations(Users)
=============================================================================
