------------------------------ MODULE CreditLedger ------------------------------
(***************************************************************************)
(* What the credit ledger promises to everybody who reads it, without      *)
(* batches, items, previews, posting runs or locks: a fact is paid once,   *)
(* only after somebody sanctioned it, a group of facts is paid in one      *)
(* stroke, and a payment is taken back by an entry beside it, once.        *)
(* CreditSettlement is shown to implement this module.                     *)
(***************************************************************************)
CONSTANTS
    Facts,      \* learning facts
    Receipts    \* identities of ledger entries

VARIABLES
    recorded,    \* facts somebody recorded
    sanctioned,  \* facts somebody may pay
    credits,     \* credits[f]: the entries that pay fact f
    reversals    \* reversals[f]: those of them that were taken back

ledgerVars == <<recorded, sanctioned, credits, reversals>>

Init ==
    /\ recorded \subseteq Facts
    /\ sanctioned = {}
    /\ credits = [f \in Facts |-> {}]
    /\ reversals = [f \in Facts |-> {}]

Record(f) ==
    /\ recorded' = recorded \cup {f}
    /\ UNCHANGED <<sanctioned, credits, reversals>>

\* An approval, or a confirmation against the source, covers recorded facts.
Sanction(S) ==
    /\ S \subseteq recorded
    /\ sanctioned' = sanctioned \cup S
    /\ UNCHANGED <<recorded, credits, reversals>>

\* Every fact of the group gets its one entry, a fact outside it gets none.
Pay(S) ==
    /\ S \subseteq sanctioned
    /\ \A f \in S : credits[f] = {} /\ \E r \in Receipts : credits'[f] = {r}
    /\ \A f \in Facts \ S : credits'[f] = credits[f]
    /\ UNCHANGED <<recorded, sanctioned, reversals>>

TakeBack(f) ==
    /\ reversals[f] = {}
    /\ reversals' = [reversals EXCEPT ![f] = credits[f]]
    /\ UNCHANGED <<recorded, sanctioned, credits>>

Next ==
    \/ \E f \in Facts : Record(f) \/ TakeBack(f)
    \/ \E S \in SUBSET Facts : Sanction(S) \/ Pay(S)

LedgerSpec == Init /\ [][Next]_ledgerVars
=============================================================================
