----------------------------- MODULE CloudRunRelease -----------------------------
(***************************************************************************)
(* The controlled release of the platform's service: a candidate revision  *)
(* is created, proven under a route of its own or by a check inside its    *)
(* process, and given the ordinary traffic, or the route is restored.      *)
(*                                                                         *)
(* Source: scripts/deploy_cloudrun_api.py (CloudRunReleaseController).     *)
(*                                                                         *)
(* The control plane is external: a request may be refused, or carried out *)
(* without an answer, and the traffic follows the release order later.     *)
(* One run at a time; it may die anywhere.  A pending order that a run     *)
(* leaves is resumed by another or closed by an operator.  Polls may run   *)
(* out at any time.  The repair of a missing network is left out, and so   *)
(* is what a plan says of environments and artifacts.                      *)
(***************************************************************************)
EXTENDS Integers, FiniteSets, SqlNull

CONSTANTS
    Revisions,   \* versions of the service
    FirstStable  \* the one that serves at the start

ASSUME ReleaseAssumption == FirstStable \in Revisions /\ None \notin Revisions

VARIABLES
    revision,   \* versions: whether they are there and normal, have an instance, and are as planned and healthy
    order,      \* the release order: wanted routing, and whether it is releasing
    traffic,    \* the routing that the gateway has
    task,       \* the revision whose management task is running
    run         \* the controller: its step (ReleaseState), mode and plan

releaseVars == <<revision, order, traffic, task, run>>

Qualities == {"sound", "unhealthy", "misconfigured"}
Modes == {"release", "resume", "verify"}
NoRun == [pc |-> "idle", mode |-> None, loopback |-> FALSE, promotion |-> None, stable |-> None, cand |-> None,
          changed |-> FALSE, again |-> FALSE]

ReleaseInit ==
    /\ revision = [r \in Revisions |-> IF r = FirstStable THEN [status |-> "normal", pod |-> TRUE, quality |-> "sound"]
                                       ELSE [status |-> "NONE", pod |-> FALSE, quality |-> "sound"]]
    /\ order = [stable |-> FirstStable, cand |-> None, kind |-> "stable", open |-> FALSE]
    /\ traffic = [stable |-> FirstStable, cand |-> None, kind |-> "stable"]
    /\ task = None /\ run = NoRun

(***************************************************************************)
(* The control plane.                                                      *)
(***************************************************************************)
\* A revision becomes normal, or its task fails.
RevisionMade(r, status) ==
    /\ revision[r].status = "MAKING" /\ status \in {"normal", "failed"}
    /\ revision' = [revision EXCEPT ![r].status = status]
    /\ task' = IF status = "failed" THEN None ELSE task
    /\ UNCHANGED <<order, traffic, run>>

\* The revision that has the ordinary traffic, but for a part under trial.
Serving == IF traffic.kind = "full" THEN traffic.cand ELSE traffic.stable

\* "VersionDetail can become normal before its new release order exists."
OrderOpens(r) ==
    /\ task = r /\ revision[r].status = "normal" /\ ~order.open
    /\ order' = [stable |-> Serving, cand |-> r, kind |-> "stable", open |-> TRUE]
    /\ UNCHANGED <<revision, traffic, task, run>>

InstanceStarts(r) ==
    /\ revision[r].status = "normal" /\ ~revision[r].pod
    /\ revision' = [revision EXCEPT ![r].pod = TRUE]
    /\ UNCHANGED <<order, traffic, task, run>>

\* The gateway follows the order; one that gives all traffic away is then finished.
Converge ==
    /\ traffic # [stable |-> order.stable, cand |-> order.cand, kind |-> order.kind]
    /\ traffic' = [stable |-> order.stable, cand |-> order.cand, kind |-> order.kind]
    /\ order' = [order EXCEPT !.open = @ /\ order.kind # "full"]
    /\ task' = IF order.kind = "full" THEN None ELSE task
    /\ UNCHANGED <<revision, run>>

\* An operator cancels an order that no run is at work on.
CloseOrder ==
    /\ run.pc \in {"idle", "BLOCKED", "FAILED", "READY_FOR_RELEASE", "TRAFFIC_RESTORED", "GRAY", "VERIFIED"}
    /\ order.open /\ order' = [order EXCEPT !.kind = "stable", !.open = FALSE]
    /\ task' = None
    /\ UNCHANGED <<revision, traffic, run>>

(***************************************************************************)
(* Planning.                                                               *)
(***************************************************************************)
\* _discover_stable: one revision has all ordinary traffic, nothing is being released, or exactly the pending
\* order that is resumed.
Discovered(mode, cand) ==
    /\ traffic.kind \in {"stable", "full"}
    /\ IF mode = "resume" THEN order.open /\ order.kind = "stable" /\ order.cand = cand /\ task = cand
       ELSE ~order.open /\ task = None

\* Faulty variant: the revision that serves is taken as its own candidate.
AnyRevision(r) == TRUE
\* "existing candidate must differ from the discovered stable revision"
Separate(r) == r # Serving
\* build_plan, build_existing_candidate_plan
PlanRelease(mode, loopback, promotion, r) ==
    /\ run.pc = "idle"
    /\ mode = "release" => revision[r].status = "NONE"
    /\ mode # "release" => revision[r].status = "normal" /\ revision[r].quality # "misconfigured" /\ Separate(r)
    /\ mode = "resume" => loopback
    /\ mode = "verify" => ~loopback /\ promotion = "ready"
    /\ Discovered(mode, r)
    /\ run' = [NoRun EXCEPT !.pc = "BUILD_PLAN", !.mode = mode, !.loopback = loopback, !.promotion = promotion,
                            !.stable = Serving, !.cand = r]
    /\ UNCHANGED <<revision, order, traffic, task>>

Turn(pc) == run' = [run EXCEPT !.pc = pc]

\* execute and verify_existing_candidate read everything again before their first write.
Recheck ==
    /\ run.pc = "BUILD_PLAN" /\ Discovered(run.mode, run.cand) /\ Serving = run.stable
    /\ Turn(CASE run.mode = "release" -> "CREATE_CANDIDATE" [] run.mode = "resume" -> "VERIFY_CANDIDATE_CONFIG"
            [] run.mode = "verify" -> "SET_TARGETED_ROUTE")
    /\ UNCHANGED <<revision, order, traffic, task>>

(***************************************************************************)
(* The candidate.                                                          *)
(***************************************************************************)
\* UpdateCloudRunServer; the answer may be lost.
CreateCandidate(quality, answered) ==
    /\ run.pc = "CREATE_CANDIDATE" /\ task = None
    /\ revision' = [revision EXCEPT ![run.cand] = [status |-> "MAKING", pod |-> FALSE, quality |-> quality]]
    /\ task' = run.cand
    /\ Turn(IF answered THEN "AWAIT_CANDIDATE" ELSE "failing")
    /\ UNCHANGED <<order, traffic>>

\* _wait_for_candidate
CandidateNormal ==
    /\ run.pc = "AWAIT_CANDIDATE" /\ revision[run.cand].status = "normal"
    /\ Turn("VERIFY_CANDIDATE_CONFIG")
    /\ UNCHANGED <<revision, order, traffic, task>>

\* The candidate has the network and the environment of the plan; _wait_for_release_ready.
ConfigVerified ==
    /\ run.pc = "VERIFY_CANDIDATE_CONFIG" /\ revision[run.cand].quality # "misconfigured"
    /\ order.open /\ order.cand = run.cand
    /\ Turn(IF run.loopback THEN "CANDIDATE_SELF_PROBE" ELSE "SET_TARGETED_ROUTE")
    /\ UNCHANGED <<revision, order, traffic, task>>

\* Faulty variant: only what was answered counts as a change of the routing.
SureChange(outcome) == outcome = "done"
\* "An uncertain response is treated as potentially applied."
Changing(outcome) == TRUE

\* ReleaseGray: it is carried out, carried out without an answer, or refused.
Ask(kind, next, failed) ==
    \E outcome \in {"done", "lost", "refused"} :
        /\ order' = IF outcome = "refused" THEN order
                    ELSE [stable |-> run.stable, cand |-> run.cand, kind |-> kind, open |-> order.open \/ kind # "stable"]
        /\ run' = [run EXCEPT !.pc = IF outcome = "done" THEN next ELSE failed,
                              !.changed = @ \/ (kind # "stable" /\ Changing(outcome))]
        /\ UNCHANGED <<revision, traffic, task>>

SetTargetedRoute == run.pc = "SET_TARGETED_ROUTE" /\ Ask("targeted", "TARGETED_HEALTH", "failing")

\* _wait_for_targeted_route, which the order tells.
RouteActive ==
    /\ run.pc = "TARGETED_HEALTH" /\ order.kind = "targeted" /\ order.cand = run.cand
    /\ Turn("TARGETED_ROUTE_ACTIVE")
    /\ UNCHANGED <<revision, order, traffic, task>>

\* The loopback check needs the ordinary traffic where it was; a resumed candidate without an instance is woken once.
WakeInstance ==
    /\ run.pc = "CANDIDATE_SELF_PROBE" /\ run.mode = "resume" /\ traffic.kind # "targeted" /\ Serving = run.stable
    /\ ~revision[run.cand].pod
    /\ revision' = [revision EXCEPT ![run.cand].pod = TRUE]
    /\ UNCHANGED <<order, traffic, task, run>>

\* Faulty variant: whoever answers is taken for the candidate.
AnswersWell(c) == revision[IF traffic.kind = "targeted" /\ traffic.cand = c THEN c ELSE traffic.stable].quality = "sound"
\* _assert_candidate_health_values, with the logs that tell who has answered the requests.
ProvenByRoute(c) == traffic.kind = "targeted" /\ traffic.cand = c /\ revision[c].quality = "sound"
\* _assert_startup_probe, between two looks at the ordinary traffic.
ProvenInside(c) == traffic.kind = "stable" /\ Serving = run.stable /\ revision[c].quality = "sound"
Prove ==
    /\ run.pc \in {"TARGETED_ROUTE_ACTIVE", "CANDIDATE_SELF_PROBE"} /\ revision[run.cand].pod
    /\ \/ run.pc = "TARGETED_ROUTE_ACTIVE" /\ ProvenByRoute(run.cand)
       \/ run.pc = "CANDIDATE_SELF_PROBE" /\ ProvenInside(run.cand)
    /\ Turn(CASE run.promotion # "ready" -> "PROVEN" [] run.changed -> "restoring" [] OTHER -> "READY_FOR_RELEASE")
    /\ UNCHANGED <<revision, order, traffic, task>>

(***************************************************************************)
(* Promotion.                                                              *)
(***************************************************************************)
SetGray == run.pc = "PROVEN" /\ Ask("gray", "AWAIT_GRAY", "failing")

\* _wait_for_flow: "A successful ReleaseGray call is not proof that routing converged."
FlowIs(kind) == order.kind = kind /\ traffic.kind = kind /\ traffic.cand = run.cand /\ (kind = "full" => ~order.open)
GrayActive ==
    /\ run.pc = "AWAIT_GRAY" /\ FlowIs("gray")
    /\ Turn(IF run.promotion = "full" THEN "SET_FULL" ELSE "GRAY")
    /\ UNCHANGED <<revision, order, traffic, task>>
SetFull == run.pc = "SET_FULL" /\ Ask("full", "AWAIT_FULL", "failing")
\* The service is asked for its commit and its health once more.
FullVerified ==
    /\ run.pc = "AWAIT_FULL" /\ FlowIs("full")
    /\ run' = [run EXCEPT !.pc = "VERIFIED", !.changed = FALSE]
    /\ UNCHANGED <<revision, order, traffic, task>>

(***************************************************************************)
(* Restoration.                                                            *)
(***************************************************************************)
\* _restore_stable_route, at the end of a run that is to stay ready ...
Restore == run.pc = "restoring" /\ Ask("stable", "confirming", "failing")
\* ... and after a failure, if it is thought that the routing was changed; the verification of an existing
\* candidate does not send the request twice.
CleanUp ==
    /\ run.pc = "failing" /\ run.changed /\ ~run.again
    /\ Ask("stable", "cleaning", "FAILED")

\* _assert_traffic_restored does not wait.
Restored == traffic.kind = "stable" /\ traffic.stable = run.stable
Confirm ==
    /\ run.pc \in {"confirming", "cleaning"}
    /\ run' = CASE Restored -> [run EXCEPT !.changed = FALSE, !.pc = IF run.pc = "confirming" THEN "TRAFFIC_RESTORED" ELSE "FAILED"]
                [] ~Restored /\ run.pc = "confirming" -> [run EXCEPT !.pc = "failing", !.again = run.mode = "verify"]
                [] OTHER -> [run EXCEPT !.pc = "FAILED"]
    /\ UNCHANGED <<revision, order, traffic, task>>

\* A check fails, a read raises, polls run out.
Fail ==
    /\ run.pc \in {"BUILD_PLAN", "CREATE_CANDIDATE", "AWAIT_CANDIDATE", "VERIFY_CANDIDATE_CONFIG", "SET_TARGETED_ROUTE", "TARGETED_HEALTH",
                   "TARGETED_ROUTE_ACTIVE", "CANDIDATE_SELF_PROBE", "PROVEN", "AWAIT_GRAY", "SET_FULL", "AWAIT_FULL"}
    /\ Turn(IF run.pc = "BUILD_PLAN" THEN "BLOCKED" ELSE "failing")
    /\ UNCHANGED <<revision, order, traffic, task>>
GiveUp ==
    /\ run.pc = "failing" /\ (~run.changed \/ run.again) /\ Turn("FAILED")
    /\ UNCHANGED <<revision, order, traffic, task>>

Ended == {"BLOCKED", "FAILED", "READY_FOR_RELEASE", "TRAFFIC_RESTORED", "GRAY", "VERIFIED"}
\* The process dies; or its run has ended, and somebody comes back later.
Die ==
    /\ run.pc # "idle" /\ run' = NoRun
    /\ UNCHANGED <<revision, order, traffic, task>>

ReleaseNext ==
    \/ \E r \in Revisions :
         \/ \E status \in {"normal", "failed"} : RevisionMade(r, status)
         \/ OrderOpens(r) \/ InstanceStarts(r)
         \/ \E mode \in Modes, loopback \in BOOLEAN, promotion \in {"ready", "gray", "full"} : PlanRelease(mode, loopback, promotion, r)
    \/ Converge \/ CloseOrder \/ Recheck
    \/ \E quality \in Qualities, answered \in BOOLEAN : CreateCandidate(quality, answered)
    \/ CandidateNormal \/ ConfigVerified \/ SetTargetedRoute \/ RouteActive \/ WakeInstance \/ Prove
    \/ SetGray \/ GrayActive \/ SetFull \/ FullVerified \/ Restore \/ CleanUp \/ Confirm \/ Fail \/ GiveUp \/ Die

ReleaseSpec == ReleaseInit /\ [][ReleaseNext]_releaseVars

(***************************************************************************)
(* Properties.                                                             *)
(***************************************************************************)
\* An order and the traffic name revisions that were made, and a run is at a step the controller has.
ReleaseTypeOK ==
    /\ \A r \in Revisions : revision[r].status \in {"NONE", "MAKING", "normal", "failed"} /\ revision[r].quality \in Qualities
    /\ order.kind \in {"stable", "targeted", "gray", "full"} /\ revision[order.stable].status = "normal"
    /\ order.kind # "stable" => revision[order.cand].status = "normal"
    /\ task # None => revision[task].status \in {"MAKING", "normal"}
    /\ run.pc # "idle" => run.mode \in Modes /\ run.stable \in Revisions /\ run.cand \in Revisions \ {run.stable}

\* 不让失败候选获得普通流量: ordinary traffic only reaches revisions that are as planned and healthy, whatever runs have died,
\* were resumed or have lost answers.
OnlySoundServe ==
    /\ traffic.kind \in {"gray", "full"} => revision[traffic.cand].quality = "sound"
    /\ revision[traffic.stable].quality = "sound"

\* A run that has ended without the mark that the routing was changed has left none of its own: also after requests
\* whose answer was lost.
UnmarkedIsUnrouted ==
    run.pc \in Ended \ {"VERIFIED"} /\ ~run.changed /\ order.cand = run.cand /\ order.open => order.kind = "stable"

\* Together: orders that name revisions that were made, sound revisions that serve, and runs that leave no route
\* they do not know of.
ReleaseSafe == ReleaseTypeOK /\ OnlySoundServe /\ UnmarkedIsUnrouted
==============================================================================
