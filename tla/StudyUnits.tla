------------------------------- MODULE StudyUnits -------------------------------
(* Classes and groups of org_units, and what several modules ask of them.  *)
EXTENDS FiniteSets, SqlNull

CONSTANTS
    Classes, Groups,
    ClassOf      \* the class of each group

ASSUME UnitAssumption ==
    ClassOf \in [Groups -> Classes] /\ Classes \cap Groups = {} /\ None \notin Classes \cup Groups

\* The one member of a set that has one: two that compete are a conflict, never a choice.
Only(S) == IF Cardinality(S) = 1 THEN CHOOSE x \in S : TRUE ELSE None
=============================================================================
