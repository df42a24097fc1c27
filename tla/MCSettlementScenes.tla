-------------------------- MODULE MCSettlementScenes --------------------------
(* Two scenes of CreditSettlement that no state connects: posting calls of  *)
(* one batch die or lose their database; and two batches of one session     *)
(* are cut while facts, contexts and entries change.  Which scene a step    *)
(* belongs to is told by the windows of the batches.                        *)
EXTENDS CreditSettlement, TLC

CONSTANTS reading, session, m1, m2

PairOwner == (1 :> m1) @@ (2 :> m2)
PairSpan == (reading :> {1, 2}) @@ (session :> {1, 2})
PairKind == (reading :> "READING") @@ (session :> "STUDY")

Symmetry == Permutations(Posters) \cup Permutations(Batches) \cup Permutations(Users)

\* The last fact is there before the first batch, and one batch is cut.
Failing ==
    /\ held' = {} /\ (facts = Keys \/ facts' # facts)
    /\ \A b \in Batches : batch'[b].win # session
    /\ Cardinality({b \in Batches : batch'[b].st # "NONE"}) <= 1
    /\ \A e \in ledger' : e.type = "CREDIT"

\* One call at a time, and it meets no fault.
Regrowing ==
    /\ \A b \in Batches : batch'[b].win # reading
    /\ \/ \A q \in Posters : poster'[q] = poster[q]
       \/ \E p \in Posters :
            \/ Begin(p) /\ \A q \in Posters : poster[q].pc = "idle"
            \/ Run(p) /\ (poster[p].ok => poster'[p].pc # "fail")

Scenes == Failing \/ Regrowing
=============================================================================
