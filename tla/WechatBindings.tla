----------------------------- MODULE WechatBindings -----------------------------
(***************************************************************************)
(* The binding of a WeChat login to a natural person: verified by name and *)
(* phone, or by a staff account, revoked by the app's token or by a fresh  *)
(* login, bound anew.  A token names the binding's row and its version;    *)
(* the row is kept and reused.                                             *)
(*                                                                         *)
(* Source: app/services/wechat_identity.py.                                *)
(*                                                                         *)
(* One provider application.  A login (openid) stands for the row that it  *)
(* has or may have.  Persons are given; those in Learners have a member's  *)
(* record, which the person's first verification may have to link.  The    *)
(* expiry of tokens and the provider's own answers are left out.           *)
(***************************************************************************)
EXTENDS Integers, FiniteSets, SqlNull

CONSTANTS
    Logins,      \* openids
    Learners,    \* persons that are members
    Staff,       \* persons with an employee's account and no member's record
    BindCalls,   \* concurrent calls of the binding's operations
    Versions     \* bound on token_version

Bindable == Learners \cup Staff

ASSUME BindingAssumption ==
    /\ Versions \in Nat \ {0}
    /\ Learners \cap Staff = {} /\ None \notin Bindable \cup Logins

VARIABLES
    binding,   \* wechat_member_bindings, by login
    enrolled,  \* learners whose members.status is ACTIVE
    linked,    \* learners with a row of member_identities
    token,     \* tokens that were issued: the row, the version and, for the record, the person
    void,      \* for the record: row and version of tokens that did not resolve any more
    overwritten, \* for the record: logins whose row was written over after a call had read it
    bindCall   \* local state of each call

bindingVars == <<binding, enrolled, linked, token, void, overwritten, bindCall>>

NoRow == [status |-> "NONE", person |-> None, ver |-> 0]
NoCall == [pc |-> "idle", login |-> None, person |-> None, seen |-> NoRow]

BindingsInit ==
    /\ binding = [o \in Logins |-> NoRow]
    /\ enrolled = Learners /\ linked = {}
    /\ token = {} /\ void = {} /\ overwritten = {}
    /\ bindCall = [c \in BindCalls |-> NoCall]

\* Faulty variant: a token goes by its row alone.
AnyVersion(t) == binding[t.login].status = "VERIFIED"
\* resolve_wechat_session
Resolves(t) == binding[t.login].status = "VERIFIED" /\ binding[t.login].ver = t.ver

\* Whatever is written to a row, tokens that cease to resolve are recorded.
Write(o, row) ==
    /\ binding' = [binding EXCEPT ![o] = row]
    /\ void' = void \cup {[login |-> t.login, ver |-> t.ver] : t \in {u \in token : u.login = o /\ Resolves(u)
                               /\ ~(row.status = "VERIFIED" /\ row.ver = u.ver)}}

MayCall(c) == bindCall[c].pc = "idle"
Leave(c) == bindCall' = [bindCall EXCEPT ![c] = NoCall]

(***************************************************************************)
(* Verification.                                                           *)
(***************************************************************************)
\* verify_member_binding, verify_person_binding, verify_staff_binding: the login is exchanged and one
\* person matches.
Match(c, o, p) ==
    /\ MayCall(c) /\ p \in enrolled \cup Staff
    /\ bindCall' = [bindCall EXCEPT ![c] = [NoCall EXCEPT !.pc = "matched", !.login = o, !.person = p]]
    /\ UNCHANGED <<binding, enrolled, linked, token, void, overwritten>>

\* _member_person_for_binding, in a transaction of its own.
LinkPerson(c) ==
    LET p == bindCall[c].person IN
    /\ bindCall[c].pc = "matched"
    /\ p \in Staff \cup linked \cup enrolled
    /\ linked' = linked \cup ({p} \cap Learners)
    /\ bindCall' = [bindCall EXCEPT ![c].pc = "linked"]
    /\ UNCHANGED <<binding, enrolled, token, void, overwritten>>

\* _upsert_person_binding reads the login's row, and refuses a person who has another login or a login
\* that has another person.
BoundTo(o, p) == binding[o].status = "VERIFIED" /\ binding[o].person = p
Free(o, p) ==
    /\ \A q \in Logins \ {o} : ~BoundTo(q, p)
    /\ binding[o].status = "VERIFIED" => binding[o].person = p
ReadRows(c) ==
    LET o == bindCall[c].login IN
    /\ bindCall[c].pc = "linked" /\ Free(o, bindCall[c].person)
    /\ bindCall' = [bindCall EXCEPT ![c].pc = "read", ![c].seen = binding[o]]
    /\ UNCHANGED <<binding, enrolled, linked, token, void, overwritten>>

\* Faulty variant: versions start at zero.
FromZero(seen) == CASE seen.status = "NONE" -> 0 [] seen.status = "REVOKED" -> seen.ver + 1 [] OTHER -> seen.ver
\* The version that is written, of the row as it was read.
NextVersion(seen) ==
    CASE seen.status = "NONE" -> 1
      [] seen.status = "REVOKED" -> seen.ver + 1
      [] OTHER -> seen.ver

\* Faulty variant: the unique key of the active binding leaves the member out.
NeverTaken(o, p) == FALSE
\* uq_wechat_binding_member: it covers rows that name a member.
SlotTaken(o, p) == p \in Learners /\ \E q \in Logins \ {o} : BoundTo(q, p)

\* The rest of the transaction: an update by id, or an insert, under the unique keys.  The row was read without a
\* lock: what others have made of it since is written over.
Upsert(c) ==
    LET C == bindCall[c]
        o == C.login
        v == NextVersion(C.seen)
    IN  /\ C.pc = "read" /\ v <= Versions
        /\ ~SlotTaken(o, C.person)
        /\ C.seen.status = "NONE" => binding[o].status = "NONE"
        /\ Write(o, [status |-> "VERIFIED", person |-> C.person, ver |-> v])
        /\ token' = token \cup {[login |-> o, ver |-> v, person |-> C.person]}
        /\ overwritten' = IF binding[o] = C.seen THEN overwritten ELSE overwritten \cup {o}
        /\ Leave(c)
        /\ UNCHANGED <<enrolled, linked>>

(***************************************************************************)
(* Revocation, resumption.                                                 *)
(***************************************************************************)
\* revoke_member_binding resolves its token, revoke_binding_by_wechat_code reads the login's row.
StartRevoke(c, o) ==
    /\ MayCall(c) /\ binding[o].status = "VERIFIED"
    /\ bindCall' = [bindCall EXCEPT ![c] = [NoCall EXCEPT !.pc = "revoking", !.login = o, !.seen = binding[o]]]
    /\ UNCHANGED <<binding, enrolled, linked, token, void, overwritten>>

\* _revoke_binding_row
RevokedRow(seen) == [seen EXCEPT !.status = "REVOKED", !.ver = @ + 1]
Revoke(c) ==
    LET C == bindCall[c]
        o == C.login
    IN  /\ C.pc = "revoking" /\ C.seen.ver < Versions
        /\ binding[o].status = "VERIFIED" /\ binding[o].ver = C.seen.ver
        /\ Write(o, RevokedRow(binding[o]))
        /\ Leave(c)
        /\ UNCHANGED <<enrolled, linked, token, overwritten>>

\* resume_wechat_binding: a fresh login gets a token of its row as it is.
Resume(o) ==
    /\ binding[o].status = "VERIFIED"
    /\ token' = token \cup {[login |-> o, ver |-> binding[o].ver, person |-> binding[o].person]}
    /\ UNCHANGED <<binding, enrolled, linked, void, overwritten, bindCall>>

\* A check fails or the database refuses: the call reports an error.
Refuse(c) ==
    /\ bindCall[c].pc # "idle" /\ Leave(c)
    /\ UNCHANGED <<binding, enrolled, linked, token, void, overwritten>>

\* A member leaves, or returns (members.py).
ChangeMembership(p) ==
    /\ enrolled' = IF p \in enrolled THEN enrolled \ {p} ELSE enrolled \cup {p}
    /\ UNCHANGED <<binding, linked, token, void, overwritten, bindCall>>

BindingsNext ==
    \/ \E c \in BindCalls :
         \/ \E o \in Logins : StartRevoke(c, o) \/ \E p \in Bindable : Match(c, o, p)
         \/ LinkPerson(c) \/ ReadRows(c) \/ Upsert(c) \/ Revoke(c) \/ Refuse(c)
    \/ \E o \in Logins : Resume(o)
    \/ \E p \in Learners : ChangeMembership(p)

BindingsSpec == BindingsInit /\ [][BindingsNext]_bindingVars

(***************************************************************************)
(* Properties.                                                             *)
(***************************************************************************)
\* Rows and calls are as the table and the code admit them: a call works on a login, and what it has
\* read of the row was there.
BindingsTypeOK ==
    /\ binding \in [Logins -> [status : {"NONE", "VERIFIED", "REVOKED"}, person : Bindable \cup {None},
                               ver : 0 .. Versions]]
    /\ \A o \in Logins : binding[o] # NoRow => binding[o].person # None /\ binding[o].ver > 0
    /\ enrolled \subseteq Learners /\ linked \subseteq Learners
    /\ token \subseteq [login : Logins, ver : 1 .. Versions, person : Bindable]
    /\ void \subseteq [login : Logins, ver : 1 .. Versions] /\ overwritten \subseteq Logins
    /\ bindCall \in [BindCalls -> [pc : {"idle", "matched", "linked", "read", "revoking"}, login : Logins \cup {None},
                                   person : Bindable \cup {None},
                                   seen : [status : {"NONE", "VERIFIED", "REVOKED"}, person : Bindable \cup {None},
                                           ver : 0 .. Versions]]]

\* A token speaks for the person who was verified when it was issued, however often its row is reused for others
\* (migration 0044: 防止旧 token 在记录复用后恢复访问), until a verification writes over a row that has changed since it
\* read it: that one takes no notice of the version, or of the person, that it replaces.
TokensNameTheirPerson ==
    \A t \in token : t.login \notin overwritten /\ Resolves(t) => binding[t.login].person = t.person

\* What has been revoked stays revoked: a token that has ceased to resolve never resolves again, up to the same
\* exception (migration 0044: 每次撤销或从 REVOKED 重新绑定都递增，防止旧 token 在记录复用后恢复访问).
VoidStaysVoid ==
    \A t \in token : t.login \notin overwritten /\ [login |-> t.login, ver |-> t.ver] \in void => ~Resolves(t)

\* A learner is bound to one login at most, also when two logins verify the same learner at the same time:
\* both pass the test of ReadRows (WECHAT_BINDING_MEMBER_CONFLICT_MESSAGE).
OneLoginPerLearner ==
    \A o, q \in Logins : \A p \in Learners : BoundTo(o, p) /\ BoundTo(q, p) => o = q

\* Together: rows as the table admits them, tokens that name their person, what is void stays void, and one login
\* of a learner.
BindingsSafe == BindingsTypeOK /\ TokensNameTheirPerson /\ VoidStaysVoid /\ OneLoginPerLearner
=============================================================================
