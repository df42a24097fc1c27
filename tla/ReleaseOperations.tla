---------------------------- MODULE ReleaseOperations ----------------------------
(* A service's releases beside the rehearsals of its cloud writes: two       *)
(* controllers with journals of their own, neither of which reads what the   *)
(* other one writes.                                                         *)
EXTENDS CloudRunRelease, RehearsalEnvelope

ReleasesSpec == ReleaseSpec /\ RehearsalSpec

\* Releases and their rehearsals: only what is sound and journalled serves.
ReleasesSafe == ReleaseSafe /\ RehearsalSafe
=============================================================================
