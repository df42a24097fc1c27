----------------------------- MODULE StaffAccounts -----------------------------
(***************************************************************************)
(* Accounts of the staff: logins and their tokens, suspension, password    *)
(* resets, and the staff management that edits an account together with    *)
(* the role grants of its employment.                                      *)
(*                                                                         *)
(* Source: app/services/iam.py (authenticate, reset_user_password),        *)
(* api/auth.py, identity_admin.py (change_account_status) and              *)
(* staff_management.py (create_staff, update_staff).                       *)
(*                                                                         *)
(* A grant stands for a role and its scope; those in Restricted only a     *)
(* system administrator may give or take.  Names, phones, positions and    *)
(* supervisors are left out, and so is the archive of employments.  Plain  *)
(* reads of staff management use connections of their own: they see what   *)
(* is committed by then.  The expiry of tokens is left out, and so is the   *)
(* revocation of single refresh tokens.                                    *)
(***************************************************************************)
EXTENDS Integers, FiniteSets, SqlNull

CONSTANTS
    Employees,    \* accounts
    Grants,       \* role and scope
    Restricted,   \* those that settle credits
    Editors,      \* concurrent administrative calls
    Actors,       \* users that administer
    Highest,      \* those of them that are system administrators
    Generations   \* bound on token_version

ASSUME StaffAssumption ==
    /\ Restricted \subseteq Grants /\ Highest \subseteq Actors /\ Generations \in Nat \ {0}
    /\ None \notin Employees \cup Actors

VARIABLES
    account,   \* app_users; era counts, for the record, resets and suspensions
    login,     \* employees whose password was verified by a call of authenticate: the row it has read
    session,   \* access and refresh tokens that were handed out
    grantRow,  \* active employee_authorization_grants: how many rows, and created_by of the last
    edit       \* local state of each administrative call

staffVars == <<account, login, session, grantRow, edit>>

NoAccount == [active |-> FALSE, ver |-> 0, era |-> 0]
NoEdit == [pc |-> "idle", op |-> None, user |-> None, actor |-> None, active |-> None, grants |-> None,
           was |-> None, found |-> None]
NoGrant == [n |-> 0, by |-> None]

StaffInit ==
    /\ account = [u \in Employees |-> NoAccount]
    /\ login = [u \in Employees |-> None]
    /\ session = {}
    /\ grantRow = [u \in Employees |-> [g \in Grants |-> NoGrant]]
    /\ edit = [e \in Editors |-> NoEdit]

Hired(u) == account[u].ver > 0
GrantsOf(u) == {g \in Grants : grantRow[u][g].n > 0}

(***************************************************************************)
(* Sessions.                                                               *)
(***************************************************************************)
Token(u, row) == [user |-> u, ver |-> row.ver, era |-> row.era]

\* current_user and refresh compare the token with the account as it is; a refreshed token has the version of
\* the one it renews.
Accepted(t) == account[t.user].active /\ account[t.user].ver = t.ver

\* authenticate: the row is read and the password verified ...
Verify(u) ==
    /\ account[u].active /\ login[u] = None
    /\ login' = [login EXCEPT ![u] = account[u]]
    /\ UNCHANGED <<account, session, grantRow, edit>>

\* ... then tokens of that version are handed out.
OpenSession(u) ==
    /\ login[u] # None
    /\ session' = session \cup {Token(u, login[u])}
    /\ login' = [login EXCEPT ![u] = None]
    /\ UNCHANGED <<account, grantRow, edit>>

(***************************************************************************)
(* Staff management.                                                       *)
(***************************************************************************)
\* _validate_actor_grants
MayGrant(actor, wanted, current) == actor \in Highest \/ wanted \cap Restricted = current \cap Restricted

\* create_staff
CreateStaff(u, actor, wanted) ==
    /\ ~Hired(u) /\ wanted # {} /\ MayGrant(actor, wanted, {})
    /\ account' = [account EXCEPT ![u] = [active |-> TRUE, ver |-> 1, era |-> 0]]
    /\ grantRow' = [grantRow EXCEPT ![u] = [g \in Grants |-> IF g \in wanted THEN [n |-> 1, by |-> actor] ELSE NoGrant]]
    /\ UNCHANGED <<login, session, edit>>

\* update_staff, change_account_status and reset_user_password first read whether the account is active;
\* an update says of the account and of the grants what they shall be, or nothing.
Asks(op, active, grants) ==
    CASE op = "status" -> active # None /\ grants = None
      [] op = "password" -> active = None /\ grants = None
      [] op = "staff" -> TRUE
Begin(e, op, u, actor, active, grants) ==
    /\ edit[e].pc = "idle" /\ Hired(u) /\ Asks(op, active, grants)
    /\ op = "status" => active # account[u].active
    /\ op = "password" => account[u].active
    /\ edit' = [edit EXCEPT ![e] = [pc |-> IF op = "staff" THEN "current" ELSE "ready", op |-> op, user |-> u,
                                    actor |-> IF op = "staff" THEN actor ELSE None, active |-> active, grants |-> grants,
                                    was |-> account[u].active, found |-> None]]
    /\ UNCHANGED <<account, login, session, grantRow>>

\* _desired_snapshot: grants that the request does not mention shall stay as they are.
Desire(e) ==
    LET E == edit[e]
        current == GrantsOf(E.user)
        wanted == IF E.grants = None THEN current ELSE E.grants
    IN  /\ E.pc = "current" /\ MayGrant(E.actor, wanted, current)
        /\ edit' = [edit EXCEPT ![e].pc = "ready", ![e].grants = wanted,
                                ![e].active = IF @ = None THEN E.was ELSE @]
        /\ UNCHANGED <<account, login, session, grantRow>>

\* Faulty variant: nobody holds the account's row.
NeverHeld(u) == FALSE
\* The update of the account's row locks it until the commit.
Held(u) == \E e \in Editors : edit[e].pc = "held" /\ edit[e].user = u

\* Update of the account's row; then the grants are read again.
HoldAccount(e) ==
    LET u == edit[e].user IN
    /\ edit[e].pc = "ready" /\ edit[e].op = "staff" /\ ~Held(u)
    /\ edit' = [edit EXCEPT ![e].pc = "held", ![e].found = GrantsOf(u)]
    /\ UNCHANGED <<account, login, session, grantRow>>

\* The version rises when the account has changed since it was read.
AccountChanged(e) == edit[e].active # edit[e].was
CommitStaff(e) ==
    LET E == edit[e]
        u == E.user
    IN  /\ E.pc = "held" /\ account[u].ver < Generations
        /\ account' = [account EXCEPT ![u].active = E.active, ![u].ver = IF AccountChanged(e) THEN @ + 1 ELSE @,
                                      ![u].era = IF E.was /\ ~E.active THEN @ + 1 ELSE @]
        /\ grantRow' = [grantRow EXCEPT ![u] = [g \in Grants |->
                IF g \in E.found \ E.grants THEN NoGrant
                ELSE IF g \in E.grants \ E.found THEN [n |-> grantRow[u][g].n + 1, by |-> E.actor]
                ELSE grantRow[u][g]]]
        /\ edit' = [edit EXCEPT ![e] = NoEdit]
        /\ UNCHANGED <<login, session>>

(***************************************************************************)
(* Suspension and password.                                                *)
(***************************************************************************)
\* Faulty variant: the version is written from what was read.
SameGeneration(u) == account[u].ver
\* Faulty variant: the versions start again.
FirstGeneration(u) == 1
NextGeneration(u) == account[u].ver + 1

\* change_account_status
ChangeStatus(e) ==
    LET E == edit[e]
        u == E.user
    IN  /\ E.pc = "ready" /\ E.op = "status" /\ ~Held(u) /\ account[u].ver < Generations
        /\ account' = [account EXCEPT ![u] = [active |-> E.active, ver |-> NextGeneration(u),
                                              era |-> IF E.active THEN @.era ELSE @.era + 1]]
        /\ edit' = [edit EXCEPT ![e] = NoEdit]
        /\ UNCHANGED <<login, session, grantRow>>

\* reset_user_password
ResetPassword(e) ==
    LET E == edit[e]
        u == E.user
    IN  /\ E.pc = "ready" /\ E.op = "password" /\ ~Held(u) /\ account[u].ver < Generations
        /\ account' = [account EXCEPT ![u].ver = NextGeneration(u), ![u].era = @ + 1]
        /\ edit' = [edit EXCEPT ![e] = NoEdit]
        /\ UNCHANGED <<login, session, grantRow>>

\* A later check of the call fails; a transaction that holds the row is rolled back.
EditFails(e) ==
    /\ edit[e].pc # "idle"
    /\ edit' = [edit EXCEPT ![e] = NoEdit]
    /\ UNCHANGED <<account, login, session, grantRow>>

StaffNext ==
    \/ \E u \in Employees :
         \/ Verify(u) \/ OpenSession(u)
         \/ \E a \in Actors, G \in SUBSET Grants : CreateStaff(u, a, G)
    \/ \E e \in Editors :
         \/ \E op \in {"status", "password", "staff"}, u \in Employees, a \in Actors,
               active \in BOOLEAN \cup {None}, G \in (SUBSET Grants) \cup {None} : Begin(e, op, u, a, active, G)
         \/ Desire(e) \/ HoldAccount(e) \/ CommitStaff(e) \/ ChangeStatus(e) \/ ResetPassword(e) \/ EditFails(e)

StaffSpec == StaffInit /\ [][StaffNext]_staffVars

(***************************************************************************)
(* Properties.                                                             *)
(***************************************************************************)
StaffTypeOK ==
    /\ account \in [Employees -> [active : BOOLEAN, ver : 0 .. Generations, era : Nat]]
    /\ \A u \in Employees : login[u] # None => login[u].ver \in 1 .. account[u].ver /\ login[u].era <= account[u].era
    /\ session \subseteq [user : Employees, ver : 1 .. Generations, era : Nat]
    /\ \A u \in Employees : \A g \in Grants : grantRow[u][g].n \in Nat /\ (grantRow[u][g].n > 0 => grantRow[u][g].by \in Actors)
    /\ \A e \in Editors : edit[e].pc \in {"idle", "current", "ready", "held"}

\* A suspension or a new password ends every session: no token of an earlier login is accepted again, also
\* of a login that has verified the old password and hands out its tokens afterwards (docs/tasks/03-iam.md:
\* 禁用账户或提升 token_version 后旧令牌失效).
SessionsEnd == \A t \in session : Accepted(t) => t.era = account[t.user].era

\* Two updates of one employee that add the same grant do not leave it twice, so that revoking it revokes it.
GrantedOnce == \A u \in Employees : \A g \in Grants : grantRow[u][g].n <= 1

\* "The direct staff workflow must uphold the same system-admin boundary": whoever created a restricted grant
\* that is active was a system administrator.
RestrictedByAdmins ==
    \A u \in Employees : \A g \in Restricted : grantRow[u][g].n > 0 => grantRow[u][g].by \in Highest

\* Together: accounts and grants as the tables admit them, sessions that end with a suspension or a new password,
\* and grants that are given once.
StaffSafe == StaffTypeOK /\ SessionsEnd /\ GrantedOnce
=============================================================================
