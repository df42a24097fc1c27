-------------------------- MODULE MCCreditPostingJobs --------------------------
(* Small instances of CreditPostingJobs: two days' batches and a batch that *)
(* a regenerated preview may put in their place.                            *)
EXTENDS CreditPostingJobs, TLC

OneDay == (1 :> 2) @@ (2 :> 1)
OneDayOnly == 1 :> 2

Symmetry == Permutations(Clients) \cup Permutations(Runs)
=============================================================================
