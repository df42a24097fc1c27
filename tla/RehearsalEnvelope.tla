---------------------------- MODULE RehearsalEnvelope ----------------------------
(* scripts/r3_execution_envelope.py, r3_envelope_journal.py and              *)
(* r3_cloud_write.py: an envelope takes a rehearsal of one service through   *)
(* a candidate, a route to it, one application of the rules and back.  Each  *)
(* of its four actions may be attempted once: the attempt is journalled      *)
(* before a permit to dispatch it is given out, and permits live in memory.  *)
(* The adapter that uses the permits is simulated in the repository; what it *)
(* would do to the platform is the variable world, the rehearsal's outside.  *)
(* The write transport spends an approval in a journal of its own before it  *)
(* makes its single call.                                                    *)
EXTENDS SqlNull, Integers, FiniteSets

CONSTANTS
    Envelopes,   \* ids of envelopes of one service and operation
    Candidates,  \* revisions that the platform may create
    Handles,     \* processes that have the journals open
    Grants,      \* signed approvals of a cloud write: [op, action, ref]
    Grantees     \* processes that use the write transport

VARIABLES
    envelope,    \* rows of envelopes and of their reservations
    permits,     \* Journal._dispatch_permits of each process
    world,       \* the platform: candidates, route, application
    attempted,   \* rows of write_attempts
    sending,     \* local state of each CloudWriteTransport._send
    written      \* calls that the transport has made with each grant

rehearsalVars == <<envelope, permits, world, attempted, sending, written>>

ASSUME RehearsalAssumption ==
    /\ IsFiniteSet(Envelopes) /\ None \notin Candidates \cup Envelopes \cup Grants
    /\ \A g \in Grants : g = [op |-> g.op, action |-> g.action, ref |-> g.ref]

OneShot == {"create", "target", "apply", "restore"}
PendingState == [create |-> "CREATE_PENDING", target |-> "ROUTE_PENDING",
                 apply |-> "APPLY_PENDING", restore |-> "RESTORE_PENDING"]

RehearsalStates == {"NEW", "CANDIDATE", "READY", "APPLIED", "MANUAL_CLOSE", "CLOSED"} \cup {PendingState[a] : a \in OneShot}
EnvelopeRow == [state : RehearsalStates, candidate : Candidates \cup {None}, attempts : SUBSET OneShot, dispatched : SUBSET OneShot,
                routeMayBeActive : BOOLEAN, apply : {"NOT_ATTEMPTED", "UNKNOWN", "NOT_OCCURRED", "VERIFIED"}]
\* An envelope without a row is not opened.
ASSUME EnvelopeAssumption == None \notin EnvelopeRow

NewEnvelope == [state |-> "NEW", candidate |-> None, attempts |-> {}, dispatched |-> {},
                routeMayBeActive |-> FALSE, apply |-> "NOT_ATTEMPTED"]
AtRest == [pc |-> "idle", grant |-> None]

RehearsalInit ==
    /\ envelope = [e \in Envelopes |-> None]
    /\ permits = [h \in Handles |-> {}]
    /\ world = [candidates |-> {}, asPlanned |-> {}, route |-> None, applied |-> {},
                calls |-> [e \in Envelopes |-> [a \in OneShot |-> 0]]]
    /\ attempted = {}
    /\ sending = [g \in Grantees |-> AtRest]
    /\ written = [g \in Grants |-> 0]

(***************************************************************************)
(* The journal.  Evidence is what the platform shows at that moment; a      *)
(* refused event rolls its transaction back.                                *)
(***************************************************************************)
Opened(e) == envelope[e] # None
Stands(e, states) == Opened(e) /\ envelope[e].state \in states
SaveRow(e, row) == envelope' = [envelope EXCEPT ![e] = row]
StableOnly == world.route = None
Routed(e) == world.route # None /\ world.route = envelope[e].candidate

\* Journal.create: the unique index admits one envelope that is not closed.
OpenEnvelope(e) ==
    /\ ~Opened(e)
    /\ \A f \in Envelopes : Opened(f) => envelope[f].state = "CLOSED"
    /\ SaveRow(e, NewEnvelope)
    /\ UNCHANGED <<permits, world, attempted, sending, written>>

\* Envelope._reserve and the insertion into reservations; the permit follows the commit.
Reserve(h, e, action, row) ==
    /\ action \notin row.attempts
    /\ SaveRow(e, [row EXCEPT !.attempts = @ \cup {action}, !.state = PendingState[action]])
    /\ permits' = [permits EXCEPT ![h] = @ \cup {<<e, action>>}]
    /\ UNCHANGED <<world, attempted, sending, written>>

PrepareRehearsal(h, e) == Stands(e, {"NEW"}) /\ StableOnly /\ Reserve(h, e, "create", envelope[e])
Target(h, e) ==
    /\ Stands(e, {"CANDIDATE"})
    /\ Reserve(h, e, "target", [envelope[e] EXCEPT !.routeMayBeActive = TRUE])
ReserveApply(h, e) ==
    /\ Stands(e, {"READY"}) /\ Routed(e)
    /\ Reserve(h, e, "apply", [envelope[e] EXCEPT !.apply = "UNKNOWN"])
RestoreRoute(h, e) ==
    /\ Stands(e, {"ROUTE_PENDING", "READY", "APPLY_PENDING", "APPLIED"})
    /\ Reserve(h, e, "restore", envelope[e])

Observe(e, row) ==
    /\ SaveRow(e, row)
    /\ UNCHANGED <<permits, world, attempted, sending, written>>

\* A candidate that is not as planned is refused, and with the transaction goes its identity.
CandidateReady(e, c) ==
    /\ Stands(e, {"CREATE_PENDING"}) /\ <<e, c>> \in world.candidates /\ c \in world.asPlanned
    /\ Observe(e, [envelope[e] EXCEPT !.candidate = c, !.state = "CANDIDATE"])
VerifyTarget(e) ==
    Stands(e, {"ROUTE_PENDING"}) /\ Routed(e) /\ Observe(e, [envelope[e] EXCEPT !.state = "READY"])
RecordApply(e) ==
    /\ Stands(e, {"APPLY_PENDING"}) /\ envelope[e].apply # "NOT_OCCURRED" /\ e \in world.applied
    /\ Observe(e, [envelope[e] EXCEPT !.apply = "VERIFIED", !.state = "APPLIED"])
\* Of the observations only those of the application are kept.
ObservePending(e) ==
    /\ Stands(e, {"APPLY_PENDING"}) /\ envelope[e].apply = "UNKNOWN" /\ e \notin world.applied
    /\ Observe(e, [envelope[e] EXCEPT !.apply = "NOT_OCCURRED"])
VerifyRestored(e) ==
    /\ Stands(e, {"RESTORE_PENDING"}) /\ StableOnly
    /\ Observe(e, [envelope[e] EXCEPT !.routeMayBeActive = FALSE, !.state = "MANUAL_CLOSE"])
RequestManualCleanup(e) ==
    Stands(e, {"CREATE_PENDING", "CANDIDATE"}) /\ Observe(e, [envelope[e] EXCEPT !.state = "MANUAL_CLOSE"])
VerifyClosed(e) ==
    /\ Stands(e, {"MANUAL_CLOSE"}) /\ envelope[e].candidate # None
    /\ StableOnly /\ \A f \in Envelopes : <<f, envelope[e].candidate>> \notin world.candidates
    /\ Observe(e, [envelope[e] EXCEPT !.state = "CLOSED"])

(***************************************************************************)
(* Dispatch and the platform.                                               *)
(***************************************************************************)
\* What an answered or an unanswered request may leave behind.
TakesEffect(e, action) ==
    CASE action = "create" ->
           \E c \in Candidates, good \in BOOLEAN :
             /\ \A f \in Envelopes : <<f, c>> \notin world.candidates
             /\ world' = [world EXCEPT !.candidates = @ \cup {<<e, c>>}, !.calls[e][action] = @ + 1,
                                       !.asPlanned = IF good THEN @ \cup {c} ELSE @ \ {c}]
      [] action = "target" ->
           world' = [world EXCEPT !.route = envelope[e].candidate, !.calls[e][action] = @ + 1]
      [] action = "apply" ->
           world' = [world EXCEPT !.applied = IF Routed(e) THEN @ \cup {e} ELSE @, !.calls[e][action] = @ + 1]
      [] action = "restore" ->
           world' = [world EXCEPT !.route = None, !.calls[e][action] = @ + 1]
NoEffect(e, action) == world' = [world EXCEPT !.calls[e][action] = @ + 1]

\* Faulty variant: the state is not looked at again under the journal's lock.
UnmarkedOnly(e, action) == action \notin envelope[e].dispatched
MayDispatch(e, action) ==
    envelope[e].state = PendingState[action] /\ action \notin envelope[e].dispatched

\* FakeWriteAdapter.dispatch: the permit is gone whatever happens, and the mark comes before the request.
DispatchOnce(h, e, action) ==
    /\ <<e, action>> \in permits[h]
    /\ permits' = [permits EXCEPT ![h] = @ \ {<<e, action>>}]
    /\ IF MayDispatch(e, action)
       THEN /\ SaveRow(e, [envelope[e] EXCEPT !.dispatched = @ \cup {action}])
            /\ TakesEffect(e, action) \/ NoEffect(e, action)
       ELSE UNCHANGED <<envelope, world>>
    /\ UNCHANGED <<attempted, sending, written>>

\* The process ends, and another opens the journal.
Restart(h) ==
    /\ permits[h] # {}
    /\ permits' = [permits EXCEPT ![h] = {}]
    /\ UNCHANGED <<envelope, world, attempted, sending, written>>

\* By hand: a candidate without a route is removed, a route that should be gone is taken back.
RemoveCandidate(e, c) ==
    /\ <<e, c>> \in world.candidates /\ world.route # c /\ Stands(e, {"MANUAL_CLOSE"})
    /\ world' = [world EXCEPT !.candidates = @ \ {<<e, c>>}]
    /\ UNCHANGED <<envelope, permits, attempted, sending, written>>
TakeRouteBack(e) ==
    /\ Stands(e, {"RESTORE_PENDING"}) /\ Routed(e)
    /\ world' = [world EXCEPT !.route = None]
    /\ UNCHANGED <<envelope, permits, attempted, sending, written>>

Rehearse ==
    \/ \E e \in Envelopes :
         \/ OpenEnvelope(e) \/ VerifyTarget(e) \/ RecordApply(e) \/ ObservePending(e) \/ VerifyRestored(e)
         \/ RequestManualCleanup(e) \/ VerifyClosed(e) \/ TakeRouteBack(e)
         \/ \E c \in Candidates : CandidateReady(e, c) \/ RemoveCandidate(e, c)
    \/ \E h \in Handles :
         \/ Restart(h)
         \/ \E e \in Envelopes :
              \/ PrepareRehearsal(h, e) \/ Target(h, e) \/ ReserveApply(h, e) \/ RestoreRoute(h, e)
              \/ \E action \in OneShot : DispatchOnce(h, e, action)

(***************************************************************************)
(* CloudWriteTransport._send: reserve, call, note the answer.               *)
(***************************************************************************)
SameBudget(g, a) == a.op = g.op /\ a.action = g.action
\* Faulty variant: approvals are spent, but not the operation's action.
SpentRef(g) == \E a \in attempted : a.ref = g.ref
Spent(g) == \E a \in attempted : SameBudget(g, a) \/ a.ref = g.ref

SpendGrant(s, g) ==
    /\ sending[s] = AtRest /\ ~Spent(g)
    /\ attempted' = attempted \cup {[op |-> g.op, action |-> g.action, ref |-> g.ref, outcome |-> "UNKNOWN"]}
    /\ sending' = [sending EXCEPT ![s] = [pc |-> "call", grant |-> g]]
    /\ UNCHANGED <<envelope, permits, world, written>>

\* The approval has not expired meanwhile, and the platform answers or not.
CallPlatform(s, answered) ==
    /\ sending[s].pc = "call"
    /\ written' = [written EXCEPT ![sending[s].grant] = @ + 1]
    /\ sending' = [sending EXCEPT ![s] = IF answered THEN [@ EXCEPT !.pc = "note"] ELSE AtRest]
    /\ UNCHANGED <<envelope, permits, world, attempted>>

NoteResponse(s) ==
    /\ sending[s].pc = "note"
    /\ LET g == sending[s].grant IN
       attempted' = {IF SameBudget(g, a) /\ a.outcome = "UNKNOWN" THEN [a EXCEPT !.outcome = "RESPONSE_RECEIVED"] ELSE a
                       : a \in attempted}
    /\ sending' = [sending EXCEPT ![s] = AtRest]
    /\ UNCHANGED <<envelope, permits, world, written>>

\* It expired, the journal refuses the note, or the process ends.
OutcomeUnknown(s) ==
    /\ sending[s] # AtRest
    /\ sending' = [sending EXCEPT ![s] = AtRest]
    /\ UNCHANGED <<envelope, permits, world, attempted, written>>

Transport ==
    \E s \in Grantees :
      \/ NoteResponse(s) \/ OutcomeUnknown(s)
      \/ \E g \in Grants : SpendGrant(s, g)
      \/ \E answered \in BOOLEAN : CallPlatform(s, answered)

RehearsalNext == Rehearse \/ Transport
RehearsalSpec == RehearsalInit /\ [][RehearsalNext]_rehearsalVars

-----------------------------------------------------------------------------
\* Every variable ranges over the rows of the two journals and what the platform can be.
RehearsalTypeOK ==
    /\ envelope \in [Envelopes -> {None} \cup EnvelopeRow]
    /\ permits \in [Handles -> SUBSET (Envelopes \X OneShot)]
    /\ world \in [candidates : SUBSET (Envelopes \X Candidates), asPlanned : SUBSET Candidates,
                  route : Candidates \cup {None}, applied : SUBSET Envelopes,
                  calls : [Envelopes -> [OneShot -> Nat]]]
    /\ attempted \subseteq [op : {g.op : g \in Grants}, action : {g.action : g \in Grants},
                            ref : {g.ref : g \in Grants}, outcome : {"UNKNOWN", "RESPONSE_RECEIVED"}]
    /\ sending \in [Grantees -> [pc : {"idle", "call", "note"}, grant : Grants \cup {None}]]
    /\ written \in [Grants -> Nat]

\* "A pending state represents an uncertain response and must never allow replay
\* of that action": whatever answers are lost, processes end and others look on,
\* no action of an envelope reaches the platform twice, and none whose attempt
\* is not in the journal.
NeverReplayed ==
    \A e \in Envelopes, a \in OneShot :
        world.calls[e][a] <= 1 /\ (world.calls[e][a] = 1 => Opened(e) /\ a \in envelope[e].attempts)

\* While the platform routes requests to a candidate, the journal says that a
\* route may be active, and the envelope is not closed: a permit that was given
\* out before a restoration cannot bring the route back after it.
RouteIsJournalled ==
    world.route # None =>
        \E e \in Envelopes : /\ Stands(e, RehearsalStates \ {"MANUAL_CLOSE", "CLOSED"})
                             /\ Routed(e) /\ envelope[e].routeMayBeActive

\* What is closed has left nothing running, and what is verified has happened.
ClosedIsClean ==
    \A e \in Envelopes : Opened(e) =>
        /\ envelope[e].state = "CLOSED" => \A c \in Candidates : <<e, c>> \notin world.candidates
        /\ envelope[e].apply = "VERIFIED" => e \in world.applied
        /\ e \in world.applied => envelope[e].apply # "NOT_ATTEMPTED"

\* "Independent durable per-operation/action budget, spent before dispatch": of
\* all grants for one action of an operation one is used, and each approval once;
\* an answer is noted only for a call that was made.
BudgetSpentOnce ==
    /\ \A g, h \in Grants : written[g] > 0 /\ written[h] > 0 /\ (SameBudget(g, h) \/ g.ref = h.ref) => g = h /\ written[g] = 1
    /\ \A a \in attempted : a.outcome = "RESPONSE_RECEIVED" =>
         \E g \in Grants : written[g] > 0 /\ SameBudget(g, a) /\ g.ref = a.ref

\* The rehearsal as a whole: its type and the four properties above.
RehearsalSafe == RehearsalTypeOK /\ NeverReplayed /\ RouteIsJournalled /\ ClosedIsClean /\ BudgetSpentOnce
=============================================================================
