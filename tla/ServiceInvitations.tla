--------------------------- MODULE ServiceInvitations ---------------------------
(* services/followups.py and followup_invitations.py: one service item for a *)
(* member, the invitations to take charge of it or to come along, and the    *)
(* records of it.  Every call reads what it decides by in queries of their   *)
(* own and writes by the row's id in a transaction that looks no further.    *)
EXTENDS Integers, FiniteSets, SqlNull

CONSTANTS
    People,        \* accounts that may be invited; all of them see the item
    Invitations,   \* ids of followup_service_invitations: 1 .. bound
    CareCalls      \* concurrent calls

VARIABLES
    task,          \* the row of followup_tasks, whether it has a record or a visit and,
                   \* for the record, whom it was given to without an invitation
    invitation,    \* followup_service_invitations, None before the insert
    partner,       \* followup_collaborators: person and role; no code ends one
    careCall       \* local state of each call

careVars == <<task, invitation, partner, careCall>>

Roles == {"ASSIGNEE", "COMPANION"}
OpenStates == {"OPEN", "IN_PROGRESS"}
Task == [status : OpenStates \cup {"CLOSED"}, assignee : People, recorded : BOOLEAN, named : People \cup {None}]
InvitationRow == [role : Roles, to : People, status : {"PENDING", "ACCEPTED", "ADJUSTMENT_REQUESTED", "UNAVAILABLE"},
                  lapsed : BOOLEAN]

ASSUME InvitationAssumption ==
    /\ Invitations \subseteq Nat /\ \E bound \in Invitations : Invitations = 1 .. bound
    /\ None \notin People \cup Roles \cup Task \cup InvitationRow

PendingStates == {"PENDING", "ADJUSTMENT_REQUESTED"}
NoCareCall == [op |-> "none", id |-> 0, to |-> None, role |-> None]

CareInit ==
    /\ task = None
    /\ invitation = [i \in Invitations |-> None]
    /\ partner = {}
    /\ careCall = [c \in CareCalls |-> NoCareCall]

Sent(i) == invitation[i] # None
Invited(p, role) == {i \in Invitations : Sent(i) /\ invitation[i].to = p /\ invitation[i].role = role}
Latest(S) == CHOOSE i \in S : \A j \in S : j <= i
NewInvitation(p, role) == [role |-> role, to |-> p, status |-> "PENDING", lapsed |-> FALSE]
NextFree == Cardinality({i \in Invitations : Sent(i)}) + 1

\* _accepted_primary, can_participate, is_primary_assignee.
AcceptedPrimary(p) ==
    LET asked == Invited(p, "ASSIGNEE") IN
    IF asked = {} THEN task.assignee = p ELSE invitation[Latest(asked)].status = "ACCEPTED"
\* Faulty variant: the assignee takes part whether or not an invitation is pending.
AnyAssignee(p) == task.assignee = p \/ \E role \in Roles : <<p, role>> \in partner
TakesPart(p) ==
    \/ task.assignee = p /\ Invited(p, "ASSIGNEE") = {}
    \/ \E role \in Roles : <<p, role>> \in partner
InCharge(p) == task.assignee = p /\ TakesPart(p)

\* create_task, with the invitation of the assignee or without one.
CreateTask(p, inviting) ==
    /\ task = None
    /\ task' = [status |-> "OPEN", assignee |-> p, recorded |-> FALSE,
                named |-> IF inviting THEN None ELSE p]
    /\ invitation' = IF inviting THEN [invitation EXCEPT ![1] = NewInvitation(p, "ASSIGNEE")] ELSE invitation
    /\ UNCHANGED <<partner, careCall>>

Idle(c) == careCall[c] = NoCareCall /\ task # None
Asking(c, op) == careCall[c].op = op
Reads(c, call) == careCall' = [careCall EXCEPT ![c] = call] /\ UNCHANGED <<task, invitation, partner>>
Ends(c) == careCall' = [careCall EXCEPT ![c] = NoCareCall]

\* create_invitation: the creator may always ask for the charge, one who has it for company;
\* then, in its transaction, the search for an active one and the insert.
StartInvitation(c, p, role) ==
    /\ Idle(c) /\ (role = "COMPANION" => \E actor \in People : AcceptedPrimary(actor))
    /\ Reads(c, [op |-> "search", id |-> 0, to |-> p, role |-> role])
SearchActive(c) ==
    /\ Asking(c, "search")
    /\ \A i \in Invited(careCall[c].to, careCall[c].role) : invitation[i].status \notin PendingStates \cup {"ACCEPTED"}
    /\ Reads(c, [careCall[c] EXCEPT !.op = "invite"])
InsertInvitation(c) ==
    /\ Asking(c, "invite") /\ NextFree \in Invitations
    /\ invitation' = [invitation EXCEPT ![NextFree] = NewInvitation(careCall[c].to, careCall[c].role)]
    /\ Ends(c)
    /\ UNCHANGED <<task, partner>>

\* _invitation_for_response and what the answers ask beyond it.
StartResponse(c, i, op) ==
    /\ Idle(c) /\ Sent(i) /\ ~invitation[i].lapsed /\ task.status \in OpenStates
    /\ invitation[i].status \in IF op = "decline" THEN PendingStates ELSE {"PENDING"}
    /\ Reads(c, [op |-> op, id |-> i, to |-> invitation[i].to, role |-> invitation[i].role])
StartReply(c, i) ==
    /\ Idle(c) /\ Sent(i) /\ ~invitation[i].lapsed /\ invitation[i].status = "ADJUSTMENT_REQUESTED"
    /\ Reads(c, [NoCareCall EXCEPT !.op = "reply", !.id = i])

Answered == [accept |-> "ACCEPTED", adjust |-> "ADJUSTMENT_REQUESTED", decline |-> "UNAVAILABLE", reply |-> "PENDING"]
Marked(c) == invitation' = [invitation EXCEPT ![careCall[c].id].status = Answered[careCall[c].op]]
Accept(c) ==
    /\ Asking(c, "accept") /\ Marked(c)
    /\ partner' = partner \cup {<<careCall[c].to, careCall[c].role>>}
    /\ task' = IF careCall[c].role = "ASSIGNEE" THEN [task EXCEPT !.assignee = careCall[c].to] ELSE task
    /\ Ends(c)
AnswerOtherwise(c) ==
    /\ careCall[c].op \in {"adjust", "decline", "reply"} /\ Marked(c) /\ Ends(c)
    /\ UNCHANGED <<task, partner>>
InvitationLapses(i) ==
    /\ Sent(i) /\ ~invitation[i].lapsed
    /\ invitation' = [invitation EXCEPT ![i].lapsed = TRUE]
    /\ UNCHANGED <<task, partner, careCall>>

\* add_followup_record and add_visit_record.
StartRecord(c, p) ==
    /\ Idle(c) /\ TakesPart(p) /\ task.status \in OpenStates
    /\ Reads(c, [NoCareCall EXCEPT !.op = "record"])
AddRecord(c) ==
    /\ Asking(c, "record")
    /\ task' = [task EXCEPT !.status = "IN_PROGRESS", !.recorded = TRUE]
    /\ Ends(c) /\ UNCHANGED <<invitation, partner>>

\* Faulty variant: the number of records is not asked for.
OpenOnly == task.status \in OpenStates
Closable == task.status \in OpenStates /\ task.recorded
StartClose(c, p) ==
    /\ Idle(c) /\ InCharge(p) /\ Closable
    /\ Reads(c, [NoCareCall EXCEPT !.op = "close"])
CloseTask(c) ==
    /\ Asking(c, "close")
    /\ task' = [task EXCEPT !.status = "CLOSED"]
    /\ Ends(c) /\ UNCHANGED <<invitation, partner>>

\* A search that found something, or an invitation beyond the bound.
InvitationFails(c) ==
    /\ careCall[c].op \in {"search", "invite"} /\ Ends(c)
    /\ UNCHANGED <<task, invitation, partner>>

CareNext ==
    \/ \E p \in People, inviting \in BOOLEAN : CreateTask(p, inviting)
    \/ \E i \in Invitations : InvitationLapses(i)
    \/ \E c \in CareCalls :
         \/ SearchActive(c) \/ InsertInvitation(c) \/ InvitationFails(c)
         \/ Accept(c) \/ AnswerOtherwise(c) \/ AddRecord(c) \/ CloseTask(c)
         \/ \E p \in People : StartRecord(c, p) \/ StartClose(c, p)
         \/ \E p \in People, role \in Roles : StartInvitation(c, p, role)
         \/ \E i \in Invitations : StartReply(c, i) \/ \E op \in {"accept", "adjust", "decline"} : StartResponse(c, i, op)

CareSpec == CareInit /\ [][CareNext]_careVars

-----------------------------------------------------------------------------
\* Every variable ranges over the rows the tables admit.
CareTypeOK ==
    /\ task \in {None} \cup Task /\ invitation \in [Invitations -> {None} \cup InvitationRow]
    /\ partner \subseteq People \X Roles
    /\ careCall \in [CareCalls -> [op : {"none", "search", "invite", "record", "close"} \cup DOMAIN Answered,
                                   id : Invitations \cup {0},
                                   to : People \cup {None}, role : Roles \cup {None}]]

\* Nobody is in charge who has not agreed: "只有已接受邀请的担当人可以完成服务事项" -
\* who may close the item has accepted the charge, or was given it without being
\* asked; coming along, an older acceptance by another and stale answers to other
\* invitations do not amount to it.
InChargeHasAgreed ==
    task # None => \A p \in People : InCharge(p) => <<p, "ASSIGNEE">> \in partner \/ p = task.named

\* An invitation that stands accepted has made its person a partner in that role,
\* and once anybody has accepted the charge, the assignee is one who has.
AcceptedTakesPart ==
    /\ \A i \in Invitations : Sent(i) /\ invitation[i].status = "ACCEPTED" => <<invitation[i].to, invitation[i].role>> \in partner
    /\ \A p \in People : <<p, "ASSIGNEE">> \in partner => <<task.assignee, "ASSIGNEE">> \in partner

\* "至少记录一次联系或走访结果后才能关闭任务": a closed item has a record, and so
\* has one that was reopened by a record of a call that began before.
ClosedHasRecord == task # None /\ (task.status # "OPEN" \/ \E c \in CareCalls : Asking(c, "close")) => task.recorded

\* The service item as a whole: its type and the three properties above.
CareSafe == CareTypeOK /\ InChargeHasAgreed /\ AcceptedTakesPart /\ ClosedHasRecord
=============================================================================
