-------------------------- MODULE MCOpeningBalances --------------------------
(* A small instance of OpeningBalances: which learners and points each      *)
(* source lists.                                                            *)
EXTENDS OpeningBalances, TLC

CONSTANTS m1, m2, s1, s2, s3, s4

\* A balance s1; a deficit s2 of the same year for two learners; two sources that classify a balance,
\* s4 more than it has.
MixedKind == (s1 :> "OPENING") @@ (s2 :> "DEFICIT") @@ (s3 :> "CLASSIFY_ONLY") @@ (s4 :> "CLASSIFY_ONLY")
MixedRows ==
    (s1 :> (m1 :> 2)) @@ (s2 :> ((m1 :> 3) @@ (m2 :> 1))) @@ (s3 :> (m1 :> 2)) @@ (s4 :> (m1 :> 3))
FirstYear == [s \in Sources |-> 1]
OneCutoff == [s \in Sources |-> 1]

Symmetry == Permutations(Ops)
=============================================================================
