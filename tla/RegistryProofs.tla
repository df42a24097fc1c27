----------------------------- MODULE RegistryProofs -----------------------------
(***************************************************************************)
(* Theorems about the registries the staff keep, each of them for every    *)
(* value of its component's constants.                                     *)
(***************************************************************************)
EXTENDS WechatBindings, StaffAccounts, Enrollment, MeetingEvidence, ServiceInvitations, OperationRhythm,
        FiniteSetTheorems, WellFoundedInduction, TLAPS

(***************************************************************************)
(* WechatBindings, whatever calls overlap: the rows and the calls keep     *)
(* their types, and a learner has one login.                               *)
(***************************************************************************)
BindingRows == [status : {"NONE", "VERIFIED", "REVOKED"}, person : Bindable \cup {None}, ver : 0 .. Versions]
\* A row that names no one is a row that is not there.
Sound(row) == row.status # "NONE" => row.person # None /\ row.ver > 0

BindingInv ==
    /\ BindingsTypeOK /\ OneLoginPerLearner
    /\ \A o \in Logins : Sound(binding[o]) /\ (binding[o].status = "NONE" => binding[o] = NoRow)
    /\ \A c \in BindCalls :
         LET C == bindCall[c] IN
         /\ C.pc = "idle" <=> C.login = None
         /\ C.pc \in {"matched", "linked", "read"} => C.person # None
         /\ C.pc \in {"read", "revoking"} => Sound(C.seen)

LEMMA RowTypes == BindingsTypeOK =>
    /\ binding \in [Logins -> BindingRows]
    /\ \A c \in BindCalls : /\ bindCall[c] \in [pc : {"idle", "matched", "linked", "read", "revoking"}, login : Logins \cup {None},
                                                person : Bindable \cup {None}, seen : BindingRows]
                            /\ bindCall[c].seen \in BindingRows
BY DEF BindingsTypeOK, BindingRows

LEMMA BindingsStart == BindingsInit => BindingInv
<1> SUFFICES ASSUME BindingsInit PROVE BindingInv
  OBVIOUS
<1>1. NoRow \in BindingRows
  BY BindingAssumption DEF NoRow, BindingRows
<1>2. BindingsTypeOK
  BY <1>1 DEF BindingsInit, BindingsTypeOK, NoCall, BindingRows
<1>3. OneLoginPerLearner
  BY DEF BindingsInit, OneLoginPerLearner, BoundTo, NoRow
<1> QED BY <1>2, <1>3 DEF BindingsInit, BindingInv, NoRow, NoCall, Sound

\* The calls, when one of them moves.
LEMMA BindCallMoves ==
    ASSUME BindingInv, NEW c \in BindCalls, NEW C,
           C \in [pc : {"idle", "matched", "linked", "read", "revoking"}, login : Logins \cup {None},
                  person : Bindable \cup {None}, seen : BindingRows],
           C.pc = "idle" <=> C.login = None, C.pc \in {"matched", "linked", "read"} => C.person # None,
           C.pc \in {"read", "revoking"} => Sound(C.seen),
           bindCall' = [bindCall EXCEPT ![c] = C], UNCHANGED binding,
           enrolled' \subseteq Learners, linked' \subseteq Learners, token' = token, void' = void,
           overwritten' = overwritten
    PROVE  BindingInv'
<1>1. BindingsTypeOK'
  BY DEF BindingInv, BindingsTypeOK, BindingRows
<1>2. OneLoginPerLearner'
  BY DEF BindingInv, OneLoginPerLearner, BoundTo
<1>3. \A d \in BindCalls : bindCall'[d] = IF d = c THEN C ELSE bindCall[d]
  BY DEF BindingInv, BindingsTypeOK
<1> QED BY <1>1, <1>2, <1>3 DEF BindingInv

\* A row that is written leaves its call at rest.
LEMMA RowIsWritten ==
    ASSUME BindingInv, NEW c \in BindCalls, NEW o \in Logins, NEW row \in BindingRows,
           Sound(row), row.status # "NONE",
           row.status = "VERIFIED" => ~SlotTaken(o, row.person),
           Write(o, row), Leave(c), UNCHANGED <<enrolled, linked>>,
           token' \subseteq [login : Logins, ver : 1 .. Versions, person : Bindable], overwritten' \subseteq Logins
    PROVE  BindingInv'
<1>1. binding' \in [Logins -> BindingRows] /\ \A q \in Logins : binding'[q] = IF q = o THEN row ELSE binding[q]
  BY RowTypes DEF BindingInv, Write
<1>2. void' \subseteq [login : Logins, ver : 1 .. Versions]
  <2>1. \A u \in token : u.login \in Logins /\ u.ver \in 1 .. Versions
    BY DEF BindingInv, BindingsTypeOK
  <2> QED BY <2>1 DEF BindingInv, BindingsTypeOK, Write
<1>3. /\ bindCall' = [bindCall EXCEPT ![c] = NoCall]
      /\ NoCall \in [pc : {"idle", "matched", "linked", "read", "revoking"}, login : Logins \cup {None},
                     person : Bindable \cup {None}, seen : BindingRows]
  BY BindingAssumption DEF Leave, NoCall, NoRow, BindingRows
<1>4. \A q \in Logins : Sound(binding'[q]) /\ (binding'[q].status = "NONE" => binding'[q] = NoRow)
  BY <1>1 DEF BindingInv
<1>5. BindingsTypeOK'
  <2>1. \A q \in Logins : binding'[q] # NoRow => binding'[q].person # None /\ binding'[q].ver > 0
    BY <1>4 DEF Sound
  <2>2. bindCall' \in [BindCalls -> [pc : {"idle", "matched", "linked", "read", "revoking"}, login : Logins \cup {None},
                                     person : Bindable \cup {None}, seen : BindingRows]]
    BY <1>3, RowTypes DEF BindingInv, BindingsTypeOK
  <2> QED BY <1>1, <1>2, <2>1, <2>2 DEF BindingInv, BindingsTypeOK, BindingRows
<1>6. OneLoginPerLearner'
  BY <1>1 DEF BindingInv, OneLoginPerLearner, BoundTo, SlotTaken, BindingRows
<1>7. \A d \in BindCalls : bindCall'[d] = IF d = c THEN NoCall ELSE bindCall[d]
  BY <1>3 DEF BindingInv, BindingsTypeOK
<1>8. NoCall.pc = "idle" /\ NoCall.login = None
  BY DEF NoCall
<1> QED BY <1>4, <1>5, <1>6, <1>7, <1>8 DEF BindingInv

LEMMA BindingCallStep ==
    ASSUME BindingInv, NEW c \in BindCalls,
           \/ \E o \in Logins : StartRevoke(c, o) \/ \E p \in Bindable : Match(c, o, p)
           \/ LinkPerson(c) \/ ReadRows(c) \/ Upsert(c) \/ Revoke(c) \/ Refuse(c)
    PROVE  BindingInv'
<1> DEFINE Calls == [pc : {"idle", "matched", "linked", "read", "revoking"}, login : Logins \cup {None},
                     person : Bindable \cup {None}, seen : BindingRows]
           old == bindCall[c]
<1>1. /\ NoRow \in BindingRows /\ NoCall \in Calls /\ NoCall.pc = "idle" /\ NoCall.login = None
      /\ binding \in [Logins -> BindingRows] /\ old \in Calls
      /\ enrolled \subseteq Learners /\ linked \subseteq Learners
      /\ token \subseteq [login : Logins, ver : 1 .. Versions, person : Bindable]
  BY RowTypes, BindingAssumption DEF NoCall, NoRow, BindingRows, BindingInv, BindingsTypeOK
<1>2. /\ old.pc = "idle" <=> old.login = None
      /\ old.pc \in {"matched", "linked", "read"} => old.person # None
      /\ old.pc \in {"read", "revoking"} => Sound(old.seen)
      /\ \A o \in Logins : Sound(binding[o]) /\ (binding[o].status = "NONE" => binding[o] = NoRow)
  BY DEF BindingInv
<1>3. None \notin Logins /\ None \notin Bindable
  BY BindingAssumption
<1>4. ASSUME NEW o \in Logins, StartRevoke(c, o) PROVE BindingInv'
  <2> DEFINE C == [NoCall EXCEPT !.pc = "revoking", !.login = o, !.seen = binding[o]]
  <2>1. C \in Calls /\ C.pc = "revoking" /\ C.login = o /\ C.seen = binding[o]
    BY <1>1 DEF NoCall
  <2>2. bindCall' = [bindCall EXCEPT ![c] = C] /\ UNCHANGED <<binding, enrolled, linked, token, void, overwritten>>
    BY <1>4 DEF StartRevoke
  <2> HIDE DEF C
  <2> QED BY <1>1, <1>2, <1>3, <2>1, <2>2, BindCallMoves
<1>5. ASSUME NEW o \in Logins, NEW p \in Bindable, Match(c, o, p) PROVE BindingInv'
  <2> DEFINE C == [NoCall EXCEPT !.pc = "matched", !.login = o, !.person = p]
  <2>1. C \in Calls /\ C.pc = "matched" /\ C.login = o /\ C.person = p
    BY <1>1 DEF NoCall
  <2>2. bindCall' = [bindCall EXCEPT ![c] = C] /\ UNCHANGED <<binding, enrolled, linked, token, void, overwritten>>
    BY <1>5 DEF Match
  <2> HIDE DEF C
  <2> QED BY <1>1, <1>3, <2>1, <2>2, BindCallMoves
<1>6. CASE LinkPerson(c)
  <2> DEFINE C == [old EXCEPT !.pc = "linked"]
  <2>1. C \in Calls /\ C.pc = "linked" /\ C.login = old.login /\ C.person = old.person
    BY <1>1
  <2>2. /\ bindCall' = [bindCall EXCEPT ![c] = C] /\ UNCHANGED <<binding, enrolled, token, void, overwritten>>
        /\ linked' = linked \cup ({old.person} \cap Learners) /\ old.pc = "matched"
    BY <1>6 DEF LinkPerson
  <2> HIDE DEF C
  <2> QED BY <1>1, <1>2, <2>1, <2>2, BindCallMoves
<1>7. CASE ReadRows(c)
  <2> DEFINE C == [old EXCEPT !.pc = "read", !.seen = binding[old.login]]
  <2>1. old.pc = "linked" /\ old.login \in Logins
    BY <1>1, <1>2, <1>7 DEF ReadRows
  <2>2. C \in Calls /\ C.pc = "read" /\ C.login = old.login /\ C.person = old.person /\ C.seen = binding[old.login]
    BY <1>1, <2>1
  <2>3. bindCall' = [bindCall EXCEPT ![c] = C] /\ UNCHANGED <<binding, enrolled, linked, token, void, overwritten>>
    BY <1>7 DEF ReadRows
  <2> HIDE DEF C
  <2> QED BY <1>1, <1>2, <2>1, <2>2, <2>3, BindCallMoves
<1>8. CASE Upsert(c)
  <2> DEFINE o == old.login
             v == NextVersion(old.seen)
             row == [status |-> "VERIFIED", person |-> old.person, ver |-> v]
  <2>1. old.pc = "read" /\ o \in Logins /\ old.person \in Bindable /\ v <= Versions
    BY <1>1, <1>2, <1>8 DEF Upsert
  <2>2. v \in 1 .. Versions
    BY <1>1, <1>2, <2>1, BindingAssumption DEF NextVersion, BindingRows, Sound
  <2>3. row \in BindingRows /\ Sound(row) /\ row.status = "VERIFIED" /\ row.person = old.person
    BY <1>3, <2>1, <2>2 DEF BindingRows, Sound
  <2>4. /\ Write(o, row) /\ Leave(c) /\ UNCHANGED <<enrolled, linked>> /\ ~SlotTaken(o, row.person)
        /\ token' = token \cup {[login |-> o, ver |-> v, person |-> old.person]}
    BY <1>8 DEF Upsert
  <2>6. overwritten' \subseteq Logins
    BY <1>8, <2>1 DEF Upsert, BindingInv, BindingsTypeOK
  <2>5. token' \subseteq [login : Logins, ver : 1 .. Versions, person : Bindable]
    BY <1>1, <2>1, <2>2, <2>4
  <2> HIDE DEF row, o, v
  <2> QED BY <2>1, <2>3, <2>4, <2>5, <2>6, RowIsWritten
<1>9. CASE Revoke(c)
  <2> DEFINE o == old.login
             row == RevokedRow(binding[o])
  <2>1. old.pc = "revoking" /\ o \in Logins
    BY <1>1, <1>2, <1>9 DEF Revoke
  <2>2. binding[o].status = "VERIFIED" /\ binding[o].ver < Versions
    BY <1>9 DEF Revoke
  <2>3. row \in BindingRows /\ Sound(row) /\ row.status = "REVOKED"
    <3>1. binding[o] \in BindingRows /\ binding[o].person # None
      BY <1>1, <1>2, <2>1, <2>2 DEF Sound
    <3>2. binding[o].ver + 1 \in 1 .. Versions
      BY <2>2, <3>1, BindingAssumption DEF BindingRows
    <3> DEFINE was == binding[o]
               ver == was.ver + 1
    <3>3. row = [was EXCEPT !.status = "REVOKED", !.ver = ver]
      BY DEF RevokedRow
    <3>4. was \in BindingRows /\ ver \in 0 .. Versions /\ ver > 0
      BY <3>1, <3>2, BindingAssumption
    <3> HIDE DEF row, was, ver
    <3>5. row \in BindingRows /\ row.status = "REVOKED" /\ row.ver = ver /\ row.person = was.person
      <4> DEFINE V == 0 .. Versions
                 P == Bindable \cup {None}
                 S == {"NONE", "VERIFIED", "REVOKED"}
      <4>1. BindingRows = [status : S, person : P, ver : V] /\ ver \in V /\ "REVOKED" \in S
        BY <3>4 DEF BindingRows
      <4> HIDE DEF V, P, S
      <4> QED BY <3>3, <3>4, <4>1
    <3> QED BY <3>1, <3>4, <3>5 DEF Sound, was
  <2>4. Write(o, row) /\ Leave(c) /\ UNCHANGED <<enrolled, linked, token>> /\ overwritten' \subseteq Logins
    BY <1>9 DEF Revoke, BindingInv, BindingsTypeOK
  <2> HIDE DEF row, o
  <2> QED BY <1>1, <2>1, <2>3, <2>4, RowIsWritten
<1>10. CASE Refuse(c)
  <2>1. bindCall' = [bindCall EXCEPT ![c] = NoCall] /\ UNCHANGED <<binding, enrolled, linked, token, void, overwritten>>
    BY <1>10 DEF Refuse, Leave
  <2> QED BY <1>1, <2>1, BindCallMoves
<1> QED BY <1>4, <1>5, <1>6, <1>7, <1>8, <1>9, <1>10

LEMMA BindingStep == BindingInv /\ [BindingsNext]_bindingVars => BindingInv'
<1> SUFFICES ASSUME BindingInv, [BindingsNext]_bindingVars PROVE BindingInv'
  OBVIOUS
<1> USE DEF BindingInv, BindingsTypeOK, OneLoginPerLearner, BoundTo
<1>1. ASSUME NEW o \in Logins, Resume(o) PROVE BindingInv'
  <2>1. [login |-> o, ver |-> binding[o].ver, person |-> binding[o].person] \in
            [login : Logins, ver : 1 .. Versions, person : Bindable]
    BY <1>1, BindingAssumption DEF Resume, Sound
  <2> QED BY <1>1, <2>1 DEF Resume
<1>2. ASSUME NEW p \in Learners, ChangeMembership(p) PROVE BindingInv'
  BY <1>2 DEF ChangeMembership
<1>3. CASE UNCHANGED bindingVars
  BY <1>3 DEF bindingVars
<1> QED BY <1>1, <1>2, <1>3, BindingCallStep DEF BindingsNext

(***************************************************************************)
(* Whatever calls overlap, also of one login: what a token stands for is   *)
(* decided by the version of its row, until a row is written over that has *)
(* changed since it was read.                                              *)
(***************************************************************************)
\* A verification has found the login free, or its own.
SeenIsOwn ==
    \A c \in BindCalls : bindCall[c].pc = "read" /\ bindCall[c].seen.status = "VERIFIED" =>
        bindCall[c].seen.person = bindCall[c].person

TokensAreDated ==
    \A t \in token : t.login \notin overwritten =>
        LET row == binding[t.login] IN
        /\ row.status # "NONE" /\ row.ver >= t.ver
        /\ row.ver = t.ver => row.status = "VERIFIED" /\ row.person = t.person

VoidIsPast == \A u \in void : u.login \notin overwritten => binding[u.login].ver > u.ver

TokenInv == BindingInv /\ SeenIsOwn /\ TokensAreDated /\ VoidIsPast

LEMMA TokensStart == BindingsInit => TokenInv
BY BindingsStart DEF BindingsInit, TokenInv, SeenIsOwn, TokensAreDated, VoidIsPast, NoCall

LEMMA TokenCallMoves ==
    ASSUME TokenInv, NEW c \in BindCalls, NEW C, bindCall' = [bindCall EXCEPT ![c] = C],
           UNCHANGED <<binding, token, void, overwritten>>,
           C.pc = "read" /\ C.seen.status = "VERIFIED" => C.seen.person = C.person
    PROVE  SeenIsOwn' /\ TokensAreDated' /\ VoidIsPast'
<1>1. \A d \in BindCalls : bindCall'[d] = IF d = c THEN C ELSE bindCall[d]
  BY DEF TokenInv, BindingInv, BindingsTypeOK
<1>2. SeenIsOwn'
  BY <1>1 DEF TokenInv, SeenIsOwn
<1>3. TokensAreDated' /\ VoidIsPast'
  BY DEF TokenInv, TokensAreDated, VoidIsPast
<1> QED BY <1>2, <1>3

\* A row is written with a later version, or again for its person.
LEMMA TokenWrite ==
    ASSUME TokenInv, NEW c \in BindCalls, NEW o \in Logins, bindCall[c].login = o, NEW row \in BindingRows,
           row.status # "NONE", Write(o, row), Leave(c),
           overwritten \subseteq overwritten',
           o \notin overwritten' => row.ver > binding[o].ver \/ (row = binding[o] /\ row.status = "VERIFIED"),
           token' \subseteq token \cup {[login |-> o, ver |-> row.ver, person |-> row.person]},
           row.status # "VERIFIED" => token' = token
    PROVE  SeenIsOwn' /\ TokensAreDated' /\ VoidIsPast'
<1>1. \A d \in BindCalls : bindCall'[d] = IF d = c THEN NoCall ELSE bindCall[d]
  BY DEF TokenInv, BindingInv, BindingsTypeOK, Leave
<1>2. \A q \in Logins : binding'[q] = IF q = o THEN row ELSE binding[q]
  BY DEF TokenInv, BindingInv, BindingsTypeOK, Write
<1>3. binding[o] \in BindingRows /\ binding[o].ver \in Int /\ row.ver \in Int
  BY RowTypes, BindingAssumption DEF TokenInv, BindingInv, BindingRows
<1>4. \A t \in token : t.login \in Logins /\ t.ver \in Int
  BY BindingAssumption DEF TokenInv, BindingInv, BindingsTypeOK
<1>5. SeenIsOwn'
  <2>1. NoCall.pc = "idle"
    BY DEF NoCall
  <2> QED BY <1>1, <2>1 DEF TokenInv, SeenIsOwn
<1>6. ASSUME NEW t \in token', t.login \notin overwritten'
      PROVE  /\ binding'[t.login].status # "NONE" /\ binding'[t.login].ver >= t.ver
             /\ binding'[t.login].ver = t.ver => binding'[t.login].status = "VERIFIED" /\ binding'[t.login].person = t.person
  <2>1. CASE t \in token /\ t.login # o
    BY <1>2, <1>4, <1>6, <2>1 DEF TokenInv, TokensAreDated
  <2>2. CASE t \in token /\ t.login = o
    <3>1. /\ binding[o].status # "NONE" /\ binding[o].ver >= t.ver
          /\ binding[o].ver = t.ver => binding[o].status = "VERIFIED" /\ binding[o].person = t.person
      BY <1>6, <2>2 DEF TokenInv, TokensAreDated
    <3>2. binding'[o] = row
      BY <1>2
    <3> QED BY <1>3, <1>4, <1>6, <2>2, <3>1, <3>2
  <2>3. CASE t \notin token
    <3>1. t = [login |-> o, ver |-> row.ver, person |-> row.person] /\ row.status = "VERIFIED"
      BY <1>6, <2>3
    <3>2. t.login = o /\ t.ver = row.ver /\ t.person = row.person /\ binding'[o] = row
      BY <1>2, <3>1
    <3> QED BY <1>3, <3>1, <3>2
  <2> QED BY <2>1, <2>2, <2>3
<1>7. ASSUME NEW u \in void', u.login \notin overwritten' PROVE binding'[u.login].ver > u.ver
  <2>1. CASE u \in void
    <3>1. u.login \in Logins /\ u.ver \in Int /\ binding[u.login].ver > u.ver
      BY <1>7, <2>1, BindingAssumption DEF TokenInv, VoidIsPast, BindingInv, BindingsTypeOK
    <3> QED BY <1>2, <1>3, <1>7, <3>1
  <2>2. CASE u \notin void
    <3>1. PICK t \in token : /\ u = [login |-> t.login, ver |-> t.ver] /\ t.login = o /\ Resolves(t)
                             /\ ~(row.status = "VERIFIED" /\ row.ver = t.ver)
      BY <1>7, <2>2 DEF Write
    <3>2. binding[o].ver = t.ver
      BY <3>1 DEF Resolves
    <3> QED BY <1>2, <1>3, <1>7, <3>1, <3>2
  <2> QED BY <2>1, <2>2
<1> QED BY <1>5, <1>6, <1>7 DEF TokensAreDated, VoidIsPast

LEMMA TokenCallStep ==
    ASSUME TokenInv, BindingInv', NEW c \in BindCalls,
           \/ \E o \in Logins : StartRevoke(c, o) \/ \E p \in Bindable : Match(c, o, p)
           \/ LinkPerson(c) \/ ReadRows(c) \/ Upsert(c) \/ Revoke(c) \/ Refuse(c)
    PROVE  SeenIsOwn' /\ TokensAreDated' /\ VoidIsPast'
<1> DEFINE Calls == [pc : {"idle", "matched", "linked", "read", "revoking"}, login : Logins \cup {None},
                     person : Bindable \cup {None}, seen : BindingRows]
           old == bindCall[c]
<1>1. /\ old \in Calls /\ binding \in [Logins -> BindingRows] /\ NoCall.pc = "idle" /\ NoCall.login = None
      /\ NoCall \in Calls
  BY RowTypes, BindingAssumption DEF NoCall, NoRow, BindingRows, TokenInv, BindingInv, BindingsTypeOK
<1>2. /\ old.pc = "idle" <=> old.login = None
      /\ old.pc \in {"read", "revoking"} => old.login \in Logins /\ Sound(old.seen)
      /\ old.pc = "read" /\ old.seen.status = "VERIFIED" => old.seen.person = old.person
      /\ \A o \in Logins : Sound(binding[o]) /\ (binding[o].status = "NONE" => binding[o] = NoRow)
  BY <1>1 DEF TokenInv, BindingInv, SeenIsOwn
<1>4. ASSUME NEW o \in Logins, StartRevoke(c, o) PROVE SeenIsOwn' /\ TokensAreDated' /\ VoidIsPast'
  <2> DEFINE C == [NoCall EXCEPT !.pc = "revoking", !.login = o, !.seen = binding[o]]
  <2>1. C.pc = "revoking" /\ C.login = o /\ C.seen = binding[o]
    BY <1>1 DEF NoCall
  <2>2. bindCall' = [bindCall EXCEPT ![c] = C] /\ UNCHANGED <<binding, token, void, overwritten>>
    BY <1>4 DEF StartRevoke
  <2> HIDE DEF C
  <2> QED BY <2>1, <2>2, TokenCallMoves
<1>5. ASSUME NEW o \in Logins, NEW p \in Bindable, Match(c, o, p) PROVE SeenIsOwn' /\ TokensAreDated' /\ VoidIsPast'
  <2> DEFINE C == [NoCall EXCEPT !.pc = "matched", !.login = o, !.person = p]
  <2>1. C.pc = "matched" /\ C.login = o
    BY <1>1 DEF NoCall
  <2>2. bindCall' = [bindCall EXCEPT ![c] = C] /\ UNCHANGED <<binding, token, void, overwritten>>
    BY <1>5 DEF Match
  <2> HIDE DEF C
  <2> QED BY <2>1, <2>2, TokenCallMoves
<1>6. CASE LinkPerson(c)
  <2> DEFINE C == [old EXCEPT !.pc = "linked"]
  <2>1. C.pc = "linked" /\ C.login = old.login
    BY <1>1
  <2>2. bindCall' = [bindCall EXCEPT ![c] = C] /\ UNCHANGED <<binding, token, void, overwritten>>
    BY <1>6 DEF LinkPerson
  <2> HIDE DEF C
  <2> QED BY <2>1, <2>2, TokenCallMoves
<1>7. CASE ReadRows(c)
  <2> DEFINE C == [old EXCEPT !.pc = "read", !.seen = binding[old.login]]
  <2>1. C.pc = "read" /\ C.login = old.login /\ C.person = old.person /\ C.seen = binding[old.login]
    BY <1>1
  <2>2. /\ bindCall' = [bindCall EXCEPT ![c] = C] /\ UNCHANGED <<binding, token, void, overwritten>>
        /\ binding[old.login].status = "VERIFIED" => binding[old.login].person = old.person
    BY <1>7 DEF ReadRows, Free
  <2> HIDE DEF C
  <2> QED BY <2>1, <2>2, TokenCallMoves
<1>8. CASE Upsert(c)
  <2> DEFINE o == old.login
             v == NextVersion(old.seen)
             row == [status |-> "VERIFIED", person |-> old.person, ver |-> v]
  <2>1. old.pc = "read" /\ o \in Logins /\ v <= Versions
    BY <1>1, <1>2, <1>8 DEF Upsert
  <2>2. /\ old.seen \in BindingRows /\ old.seen.ver \in Nat
        /\ old.seen = [status |-> old.seen.status, person |-> old.seen.person, ver |-> old.seen.ver]
        /\ old.seen.status \in {"NONE", "VERIFIED", "REVOKED"}
    BY <1>1, <2>1, BindingAssumption DEF BindingRows
  <2>3. /\ Write(o, row) /\ Leave(c) /\ token' = token \cup {[login |-> o, ver |-> v, person |-> old.person]}
        /\ overwritten' = IF binding[o] = old.seen THEN overwritten ELSE overwritten \cup {o}
    BY <1>8 DEF Upsert
  <2>4. o \notin overwritten' => row.ver > binding[o].ver \/ (row = binding[o] /\ row.status = "VERIFIED")
    <3>1. SUFFICES ASSUME binding[o] = old.seen
                   PROVE  v > old.seen.ver \/ (row = old.seen /\ old.seen.status = "VERIFIED")
      BY <2>3
    <3>2. CASE old.seen.status = "NONE"
      BY <1>2, <2>1, <3>1, <3>2 DEF NextVersion, NoRow
    <3>3. CASE old.seen.status = "REVOKED"
      BY <2>2, <3>3 DEF NextVersion
    <3>4. CASE old.seen.status = "VERIFIED"
      BY <1>2, <2>1, <2>2, <3>4 DEF NextVersion
    <3> QED BY <2>2, <3>2, <3>3, <3>4
  <2>6. row \in BindingRows
    <3>1. old.person \in Bindable \cup {None}
      BY <1>1
    <3>2. v \in Nat
      BY <2>1, <2>2 DEF NextVersion
    <3>3. v \in 0 .. Versions
      BY <2>1, <3>2, BindingAssumption
    <3> QED BY <3>1, <3>3 DEF BindingRows
  <2>7. row.status = "VERIFIED" /\ row.ver = v /\ row.person = old.person /\ overwritten \subseteq overwritten'
    BY <2>3
  <2> HIDE DEF row, o, v
  <2> QED BY <2>1, <2>3, <2>4, <2>6, <2>7, TokenWrite DEF o
<1>9. CASE Revoke(c)
  <2> DEFINE o == old.login
             row == RevokedRow(binding[o])
  <2>1. old.pc = "revoking" /\ o \in Logins /\ binding[o].status = "VERIFIED"
    BY <1>1, <1>2, <1>9 DEF Revoke
  <2>2. binding[o] \in BindingRows /\ binding[o].ver \in Nat
    BY <1>1, <2>1, BindingAssumption DEF BindingRows
  <2>3. row.status = "REVOKED" /\ row.ver > binding[o].ver
    BY <2>2 DEF RevokedRow, BindingRows
  <2>4. Write(o, row) /\ Leave(c) /\ token' = token /\ overwritten' = overwritten
    BY <1>9 DEF Revoke
  <2>5. row \in BindingRows
    <3>1. binding' \in [Logins -> BindingRows] /\ binding'[o] = row
      BY <1>1, <2>1, <2>4 DEF Write, BindingInv, BindingsTypeOK, BindingRows
    <3> QED BY <2>1, <3>1
  <2> HIDE DEF row, o
  <2> QED BY <2>1, <2>3, <2>4, <2>5, TokenWrite DEF o
<1>10. CASE Refuse(c)
  <2>1. bindCall' = [bindCall EXCEPT ![c] = NoCall] /\ UNCHANGED <<binding, token, void, overwritten>>
    BY <1>10 DEF Refuse, Leave
  <2> QED BY <1>1, <2>1, TokenCallMoves
<1> QED BY <1>4, <1>5, <1>6, <1>7, <1>8, <1>9, <1>10

LEMMA TokensStep == TokenInv /\ [BindingsNext]_bindingVars => TokenInv'
<1> SUFFICES ASSUME TokenInv, [BindingsNext]_bindingVars PROVE TokenInv'
  OBVIOUS
<1>1. BindingInv'
  BY BindingStep DEF TokenInv
<1>2. ASSUME NEW o \in Logins, Resume(o) PROVE SeenIsOwn' /\ TokensAreDated' /\ VoidIsPast'
  <2> DEFINE t == [login |-> o, ver |-> binding[o].ver, person |-> binding[o].person]
  <2>1. token' = token \cup {t} /\ UNCHANGED <<binding, void, overwritten, bindCall>> /\ binding[o].status = "VERIFIED"
    BY <1>2 DEF Resume
  <2>2. binding[o].ver \in Int
    BY RowTypes, BindingAssumption DEF TokenInv, BindingInv, BindingRows
  <2>3. TokensAreDated'
    BY <2>1, <2>2 DEF TokenInv, TokensAreDated
  <2> QED BY <2>1, <2>3 DEF TokenInv, SeenIsOwn, VoidIsPast
<1>3. ASSUME NEW p \in Learners, ChangeMembership(p) PROVE SeenIsOwn' /\ TokensAreDated' /\ VoidIsPast'
  BY <1>3 DEF ChangeMembership, TokenInv, SeenIsOwn, TokensAreDated, VoidIsPast
<1>4. CASE UNCHANGED bindingVars
  BY <1>1, <1>4 DEF bindingVars, TokenInv, SeenIsOwn, TokensAreDated, VoidIsPast
<1>5. ASSUME BindingsNext PROVE SeenIsOwn' /\ TokensAreDated' /\ VoidIsPast'
  BY <1>1, <1>2, <1>3, <1>5, TokenCallStep DEF BindingsNext
<1> QED BY <1>1, <1>4, <1>5 DEF TokenInv

LEMMA TokensAreSafe == TokenInv => BindingsSafe
<1> SUFFICES ASSUME TokenInv PROVE BindingsSafe
  OBVIOUS
<1>1. \A t \in token : t.login \in Logins /\ t.ver \in Int /\ binding[t.login].ver \in Int
  BY RowTypes, BindingAssumption DEF TokenInv, BindingInv, BindingsTypeOK, BindingRows
<1>2. TokensNameTheirPerson
  BY DEF TokenInv, TokensAreDated, TokensNameTheirPerson, Resolves
<1>3. VoidStaysVoid
  BY <1>1 DEF TokenInv, VoidIsPast, VoidStaysVoid, Resolves
<1> QED BY <1>2, <1>3 DEF TokenInv, BindingInv, BindingsSafe

\* Rows, tokens and calls keep their types, and no learner is bound to two logins, whatever calls overlap, also of one
\* login (uq_wechat_binding_member under _upsert_person_binding).
THEOREM BindingsKeepTheirShape == BindingsSpec => [](BindingsTypeOK /\ OneLoginPerLearner)
<1>1. BindingInv => BindingsTypeOK /\ OneLoginPerLearner
  BY DEF BindingInv
<1> QED BY <1>1, BindingsStart, BindingStep, PTL DEF BindingsSpec

\* Whatever calls overlap, a token speaks for the person who was verified when it was issued, and one that has ceased
\* to resolve never does again, however often its row is reused, until a verification writes over a row of this login
\* that has changed since it was read (resolve_wechat_session, _upsert_person_binding, _revoke_binding_row).
THEOREM BindingsAreSafe == BindingsSpec => []BindingsSafe
BY TokensStart, TokensStep, TokensAreSafe, PTL DEF BindingsSpec

(***************************************************************************)
(* StaffAccounts: the era of an account moves with its version only, and   *)
(* who holds an account's row knows its grants.                            *)
(***************************************************************************)
Accounts == [active : BOOLEAN, ver : 0 .. Generations, era : Nat]
Edits == [pc : {"idle", "current", "ready", "held"}, op : {"status", "password", "staff", None}, user : Employees \cup {None},
          actor : Actors \cup {None}, active : BOOLEAN \cup {None}, grants : (SUBSET Grants) \cup {None},
          was : BOOLEAN \cup {None}, found : (SUBSET Grants) \cup {None}]

\* A row that was read, or a token of it, is of an earlier version or of the same era.
Dated(u, row) ==
    /\ row.ver \in 1 .. Generations /\ row.era \in Nat
    /\ row.ver <= account[u].ver /\ row.era <= account[u].era
    /\ row.ver = account[u].ver => row.era = account[u].era

SessionsDated ==
    /\ \A u \in Employees : login[u] # None => Dated(u, login[u])
    /\ \A t \in session : Dated(t.user, t)

EditOK(E) ==
    /\ E.pc # "idle" => E.user \in Employees /\ Hired(E.user) /\ E.was \in BOOLEAN
    /\ E.pc \in {"current", "held"} => E.op = "staff"
    /\ E.pc # "idle" /\ E.op = "staff" => E.actor \in Actors
    /\ E.pc \in {"ready", "held"} /\ E.op \in {"status", "staff"} => E.active \in BOOLEAN
    /\ E.pc \in {"ready", "held"} /\ E.op = "staff" => E.grants \in SUBSET Grants
    /\ E.pc = "held" => E.found = GrantsOf(E.user)

StaffInv ==
    /\ account \in [Employees -> Accounts] /\ session \subseteq [user : Employees, ver : 1 .. Generations, era : Nat]
    /\ login = [u \in Employees |-> login[u]]
    /\ \A u \in Employees : Hired(u) \/ account[u] = NoAccount
    /\ SessionsDated
    /\ grantRow \in [Employees -> [Grants -> [n : {0, 1}, by : Actors \cup {None}]]]
    /\ \A u \in Employees : \A g \in Grants : grantRow[u][g].n > 0 => grantRow[u][g].by \in Actors
    /\ edit \in [Editors -> Edits]
    /\ \A e \in Editors : EditOK(edit[e])
    /\ \A e, d \in Editors : edit[e].pc = "held" /\ edit[d].pc = "held" /\ edit[e].user = edit[d].user => e = d

LEMMA StaffStart == StaffInit => StaffInv
<1> SUFFICES ASSUME StaffInit PROVE StaffInv
  OBVIOUS
<1>1. NoAccount \in Accounts /\ NoEdit \in Edits /\ EditOK(NoEdit) /\ NoEdit.pc = "idle"
  BY StaffAssumption DEF NoAccount, Accounts, NoEdit, Edits, EditOK
<1>2. NoGrant \in [n : {0, 1}, by : Actors \cup {None}] /\ NoGrant.n = 0
  BY DEF NoGrant
<1> QED BY <1>1, <1>2 DEF StaffInit, StaffInv, SessionsDated

\* An account that gets another version, or keeps its version and era.
LEMMA AccountMoves ==
    ASSUME StaffInv, NEW u \in Employees, NEW row \in Accounts, account' = [account EXCEPT ![u] = row], row.ver > 0,
           \/ row.ver > account[u].ver /\ row.era >= account[u].era
           \/ row.ver = account[u].ver /\ row.era = account[u].era,
           UNCHANGED <<login, session>>
    PROVE  /\ account' \in [Employees -> Accounts]
           /\ SessionsDated'
           /\ \A w \in Employees : (Hired(w) => Hired(w)') /\ (Hired(w)' \/ account'[w] = NoAccount)
<1>1. account' \in [Employees -> Accounts] /\ \A w \in Employees : account'[w] = IF w = u THEN row ELSE account[w]
  BY DEF StaffInv
<1>2. account[u].ver \in Nat /\ account[u].era \in Nat /\ row.ver \in Nat /\ row.era \in Nat
  BY StaffAssumption DEF StaffInv, Accounts
<1>3. ASSUME NEW w \in Employees, NEW r, Dated(w, r) PROVE Dated(w, r)'
  BY <1>1, <1>2, <1>3, StaffAssumption DEF Dated
<1>4. \A t \in session : t.user \in Employees
  BY DEF StaffInv
<1>5. \A w \in Employees : (Hired(w) => Hired(w)') /\ (Hired(w)' \/ account'[w] = NoAccount)
  BY <1>1, <1>2 DEF StaffInv, Hired
<1>6. SessionsDated'
  BY <1>3, <1>4 DEF StaffInv, SessionsDated
<1> QED BY <1>1, <1>5, <1>6

\* An edit that moves on without a write.
LEMMA EditMoves ==
    ASSUME StaffInv, NEW e \in Editors, NEW E \in Edits, EditOK(E), E.pc = "held" => ~Held(E.user),
           edit' = [edit EXCEPT ![e] = E], UNCHANGED <<account, grantRow, login, session>>
    PROVE  StaffInv'
<1>1. edit' \in [Editors -> Edits] /\ \A d \in Editors : edit'[d] = IF d = e THEN E ELSE edit[d]
  BY DEF StaffInv
<1>2. ASSUME NEW F, EditOK(F) PROVE EditOK(F)'
  BY <1>2 DEF EditOK, Hired, GrantsOf
<1>3. ASSUME NEW d \in Editors PROVE EditOK(edit[d])'
  BY <1>1, <1>2 DEF StaffInv
<1>4. ASSUME NEW d1 \in Editors, NEW d2 \in Editors, edit'[d1].pc = "held", edit'[d2].pc = "held", edit'[d1].user = edit'[d2].user
      PROVE  d1 = d2
  BY <1>1, <1>4 DEF StaffInv, Held
<1>5. SessionsDated'
  BY DEF StaffInv, SessionsDated, Dated
<1>6. \A w \in Employees : (Hired(w) \/ account[w] = NoAccount)'
  BY DEF StaffInv, Hired
<1> QED BY <1>1, <1>3, <1>4, <1>5, <1>6 DEF StaffInv

GrantRows == [Grants -> [n : {0, 1}, by : Actors \cup {None}]]

\* An account is written, and its grants, while nobody else holds them.
LEMMA AccountIsWritten ==
    ASSUME StaffInv, NEW u \in Employees, NEW row \in Accounts, account' = [account EXCEPT ![u] = row], row.ver > 0,
           \/ row.ver > account[u].ver /\ row.era >= account[u].era
           \/ row.ver = account[u].ver /\ row.era = account[u].era,
           NEW rows \in GrantRows, grantRow' = [grantRow EXCEPT ![u] = rows],
           \A g \in Grants : rows[g].n > 0 => rows[g].by \in Actors,
           edit' \in [Editors -> Edits], \A d \in Editors : edit'[d] \in {edit[d], NoEdit},
           rows = grantRow[u] \/ \A d \in Editors : edit'[d].pc = "held" => edit'[d].user # u,
           UNCHANGED <<login, session>>
    PROVE  StaffInv'
<1>1. /\ account' \in [Employees -> Accounts] /\ SessionsDated'
      /\ \A w \in Employees : (Hired(w) => Hired(w)') /\ (Hired(w)' \/ account'[w] = NoAccount)
  BY AccountMoves
<1>2. /\ grantRow' \in [Employees -> GrantRows]
      /\ \A w \in Employees : grantRow'[w] = IF w = u THEN rows ELSE grantRow[w]
  BY DEF StaffInv, GrantRows
<1>3. \A w \in Employees : \A g \in Grants : grantRow'[w][g].n > 0 => grantRow'[w][g].by \in Actors
  BY <1>2 DEF StaffInv
<1>4. NoEdit.pc = "idle"
  BY DEF NoEdit
<1>5. ASSUME NEW F, F.pc = "held" => F.user # u \/ rows = grantRow[u], EditOK(F) PROVE EditOK(F)'
  <2>1. F.pc = "held" => F.user \in Employees /\ GrantsOf(F.user)' = GrantsOf(F.user)
    BY <1>2, <1>5 DEF EditOK, GrantsOf
  <2>2. F.pc # "idle" => Hired(F.user)'
    BY <1>1, <1>5 DEF EditOK
  <2> QED BY <1>5, <2>1, <2>2 DEF EditOK
<1>6. EditOK(NoEdit)
  BY <1>4 DEF EditOK
<1>7. ASSUME NEW d \in Editors PROVE EditOK(edit[d])'
  <2>1. EditOK(edit'[d])
    BY <1>6 DEF StaffInv
  <2> QED BY <1>5, <2>1
<1>8. ASSUME NEW d1 \in Editors, NEW d2 \in Editors, edit'[d1].pc = "held", edit'[d2].pc = "held", edit'[d1].user = edit'[d2].user
      PROVE  d1 = d2
  BY <1>4, <1>8 DEF StaffInv
<1> QED BY <1>1, <1>2, <1>3, <1>7, <1>8 DEF StaffInv, GrantRows

LEMMA EditStep ==
    ASSUME StaffInv, NEW e \in Editors,
           \/ \E op \in {"status", "password", "staff"}, u \in Employees, a \in Actors,
                 active \in BOOLEAN \cup {None}, G \in (SUBSET Grants) \cup {None} : Begin(e, op, u, a, active, G)
           \/ Desire(e) \/ HoldAccount(e) \/ CommitStaff(e) \/ ChangeStatus(e) \/ ResetPassword(e) \/ EditFails(e)
    PROVE  StaffInv'
<1> DEFINE E == edit[e]
           u == E.user
<1>1. /\ E \in Edits /\ EditOK(E) /\ NoEdit \in Edits /\ NoEdit.pc = "idle" /\ EditOK(NoEdit)
      /\ account \in [Employees -> Accounts] /\ grantRow \in [Employees -> GrantRows]
      /\ edit \in [Editors -> Edits] /\ None \notin Employees \cup Actors
  BY StaffAssumption DEF StaffInv, NoEdit, Edits, EditOK, GrantRows
<1>2. ASSUME NEW d \in Editors, edit' = [edit EXCEPT ![e] = NoEdit]
      PROVE  edit'[d] \in {edit[d], NoEdit} /\ edit' \in [Editors -> Edits] /\ (d = e => edit'[d] = NoEdit)
  BY <1>1, <1>2
<1>3. ASSUME NEW op \in {"status", "password", "staff"}, NEW w \in Employees, NEW a \in Actors,
             NEW active \in BOOLEAN \cup {None}, NEW G \in (SUBSET Grants) \cup {None}, Begin(e, op, w, a, active, G)
      PROVE  StaffInv'
  <2> DEFINE F == [pc |-> IF op = "staff" THEN "current" ELSE "ready", op |-> op, user |-> w,
                   actor |-> IF op = "staff" THEN a ELSE None, active |-> active, grants |-> G,
                   was |-> account[w].active, found |-> None]
  <2>1. /\ edit' = [edit EXCEPT ![e] = F] /\ UNCHANGED <<account, login, session, grantRow>>
        /\ Hired(w) /\ Asks(op, active, G)
    BY <1>3 DEF Begin
  <2>2. /\ F \in Edits /\ F.op = op /\ F.pc = (IF op = "staff" THEN "current" ELSE "ready") /\ F.user = w
        /\ F.actor = (IF op = "staff" THEN a ELSE None) /\ F.active = active /\ F.was = account[w].active
    <3>1. account[w].active \in BOOLEAN
      BY <1>1 DEF Accounts
    <3> QED BY <1>3, <3>1 DEF Edits
  <2> HIDE DEF F
  <2>3. EditOK(F)
    <3>1. account[w].active \in BOOLEAN
      BY <1>1 DEF Accounts
    <3> QED BY <2>1, <2>2, <3>1 DEF EditOK, Asks
  <2>4. F.pc # "held"
    BY <2>2
  <2> QED BY <2>1, <2>2, <2>3, <2>4, EditMoves
<1>4. CASE Desire(e)
  <2> DEFINE current == GrantsOf(u)
             wanted == IF E.grants = None THEN current ELSE E.grants
             active == IF E.active = None THEN E.was ELSE E.active
             F == [E EXCEPT !.pc = "ready", !.grants = wanted, !.active = active]
  <2>1. /\ edit' = [edit EXCEPT ![e] = F] /\ UNCHANGED <<account, login, session, grantRow>> /\ E.pc = "current"
    BY <1>1, <1>4 DEF Desire
  <2>2. wanted \in SUBSET Grants /\ active \in BOOLEAN
    BY <1>1, <2>1 DEF GrantsOf, Edits, EditOK
  <2>3. /\ F \in Edits /\ F.pc = "ready" /\ F.user = u /\ F.op = E.op /\ F.actor = E.actor /\ F.was = E.was
        /\ F.active = active /\ F.grants = wanted
    <3> HIDE DEF wanted, active
    <3> QED BY <1>1, <2>2 DEF Edits
  <2> HIDE DEF F, wanted, active
  <2>4. EditOK(F)
    BY <1>1, <2>1, <2>2, <2>3 DEF EditOK
  <2> QED BY <2>1, <2>3, <2>4, EditMoves
<1>5. CASE HoldAccount(e)
  <2> DEFINE F == [E EXCEPT !.pc = "held", !.found = GrantsOf(u)]
  <2>1. /\ edit' = [edit EXCEPT ![e] = F] /\ UNCHANGED <<account, login, session, grantRow>>
        /\ E.pc = "ready" /\ E.op = "staff" /\ ~Held(u)
    BY <1>1, <1>5 DEF HoldAccount
  <2>2. GrantsOf(u) \in SUBSET Grants
    BY DEF GrantsOf
  <2>3. /\ F \in Edits /\ F.pc = "held" /\ F.user = u /\ F.op = E.op /\ F.actor = E.actor /\ F.was = E.was
        /\ F.active = E.active /\ F.grants = E.grants /\ F.found = GrantsOf(u)
    BY <1>1, <2>2 DEF Edits
  <2> HIDE DEF F
  <2>4. EditOK(F)
    BY <1>1, <2>1, <2>3 DEF EditOK
  <2> QED BY <2>1, <2>3, <2>4, EditMoves
<1>6. CASE CommitStaff(e)
  <2> DEFINE row == [account[u] EXCEPT !.active = E.active, !.ver = IF AccountChanged(e) THEN account[u].ver + 1 ELSE account[u].ver,
                                      !.era = IF E.was /\ ~E.active THEN account[u].era + 1 ELSE account[u].era]
             rows == [g \in Grants |->
                        IF g \in E.found \ E.grants THEN NoGrant
                        ELSE IF g \in E.grants \ E.found THEN [n |-> grantRow[u][g].n + 1, by |-> E.actor]
                        ELSE grantRow[u][g]]
  <2>1. /\ E.pc = "held" /\ u \in Employees /\ E.active \in BOOLEAN /\ E.was \in BOOLEAN /\ E.op = "staff"
        /\ E.found = GrantsOf(u) /\ E.actor \in Actors /\ account[u].ver < Generations
    BY <1>1, <1>6 DEF CommitStaff, EditOK
  <2>2. account' = [account EXCEPT ![u] = row] /\ grantRow' = [grantRow EXCEPT ![u] = rows]
    BY <1>1, <1>6, <2>1 DEF CommitStaff
  <2>3. edit' = [edit EXCEPT ![e] = NoEdit] /\ UNCHANGED <<login, session>>
    BY <1>6 DEF CommitStaff
  <2>4. account[u] \in Accounts /\ account[u].ver \in Nat /\ account[u].era \in Nat
    BY <1>1, <2>1, StaffAssumption DEF Accounts
  <2>5. /\ row \in Accounts
        /\ \/ row.ver > account[u].ver /\ row.era >= account[u].era
           \/ row.ver = account[u].ver /\ row.era = account[u].era
    <3> DEFINE was == account[u]
               ver == IF AccountChanged(e) THEN account[u].ver + 1 ELSE account[u].ver
               era == IF E.was /\ ~E.active THEN account[u].era + 1 ELSE account[u].era
    <3>1. row = [was EXCEPT !.active = E.active, !.ver = ver, !.era = era]
      OBVIOUS
    <3>2. ver \in 0 .. Generations /\ era \in Nat
      BY <2>1, <2>4, StaffAssumption
    <3>3. (ver > was.ver /\ era >= was.era) \/ (ver = was.ver /\ era = was.era)
      BY <2>1, <2>4 DEF AccountChanged
    <3> HIDE DEF row, was, ver, era
    <3>4. row \in Accounts /\ row.ver = ver /\ row.era = era
      BY <2>1, <2>4, <3>1, <3>2 DEF Accounts, was
    <3> QED BY <3>3, <3>4 DEF was
  <2>6. rows \in GrantRows /\ \A g \in Grants : rows[g].n > 0 => rows[g].by \in Actors
    <3>1. ASSUME NEW g \in Grants
          PROVE  rows[g] \in [n : {0, 1}, by : Actors \cup {None}] /\ (rows[g].n > 0 => rows[g].by \in Actors)
      <4>1. grantRow[u][g] \in [n : {0, 1}, by : Actors \cup {None}] /\ (grantRow[u][g].n > 0 => grantRow[u][g].by \in Actors)
        BY <1>1, <2>1 DEF StaffInv, GrantRows
      <4>2. g \notin E.found => grantRow[u][g].n = 0
        BY <2>1, <4>1 DEF GrantsOf
      <4>3. NoGrant \in [n : {0, 1}, by : Actors \cup {None}] /\ NoGrant.n = 0
        BY DEF NoGrant
      <4> QED BY <2>1, <4>1, <4>2, <4>3
    <3> QED BY <3>1 DEF GrantRows
  <2>7. \A d \in Editors : edit'[d].pc = "held" => edit'[d].user # u
    BY <1>1, <1>2, <2>1, <2>3 DEF StaffInv
  <2>8. account[u].ver > 0
    BY <1>1, <2>1 DEF EditOK, Hired
  <2>9. row.ver > 0
    <3> HIDE DEF row
    <3>1. row.ver \in Nat
      BY <2>5, StaffAssumption DEF Accounts
    <3> QED BY <2>4, <2>5, <2>8, <3>1
  <2> HIDE DEF row, rows, E
  <2> QED BY <1>2, <2>1, <2>2, <2>3, <2>5, <2>9, <2>6, <2>7, AccountIsWritten
<1>7. CASE ChangeStatus(e)
  <2> DEFINE row == [active |-> E.active, ver |-> NextGeneration(u), era |-> IF E.active THEN account[u].era ELSE account[u].era + 1]
  <2>1. E.pc = "ready" /\ u \in Employees /\ E.active \in BOOLEAN /\ account[u].ver < Generations
    BY <1>1, <1>7 DEF ChangeStatus, EditOK
  <2>2. /\ account' = [account EXCEPT ![u] = row] /\ grantRow' = [grantRow EXCEPT ![u] = grantRow[u]]
        /\ edit' = [edit EXCEPT ![e] = NoEdit] /\ UNCHANGED <<login, session>>
    BY <1>1, <1>7, <2>1 DEF ChangeStatus
  <2>3. row \in Accounts /\ row.ver > account[u].ver /\ row.era >= account[u].era
    BY <1>1, <2>1, StaffAssumption DEF Accounts, NextGeneration
  <2>4. grantRow[u] \in GrantRows /\ \A g \in Grants : grantRow[u][g].n > 0 => grantRow[u][g].by \in Actors
    BY <1>1, <2>1 DEF StaffInv
  <2>5. account[u].ver > 0 /\ account[u].ver \in Nat
    BY <1>1, <2>1, StaffAssumption DEF EditOK, Hired, Accounts
  <2>6. row.ver > 0
    <3> HIDE DEF row
    <3>1. row.ver \in Nat
      BY <2>3, StaffAssumption DEF Accounts
    <3> QED BY <2>3, <2>5, <3>1
  <2> HIDE DEF row, E
  <2> QED BY <1>2, <2>1, <2>2, <2>3, <2>4, <2>6, AccountIsWritten
<1>8. CASE ResetPassword(e)
  <2> DEFINE row == [account[u] EXCEPT !.ver = NextGeneration(u), !.era = account[u].era + 1]
  <2>1. E.pc = "ready" /\ u \in Employees /\ account[u].ver < Generations
    BY <1>1, <1>8 DEF ResetPassword, EditOK
  <2>2. /\ account' = [account EXCEPT ![u] = row] /\ grantRow' = [grantRow EXCEPT ![u] = grantRow[u]]
        /\ edit' = [edit EXCEPT ![e] = NoEdit] /\ UNCHANGED <<login, session>>
    BY <1>1, <1>8, <2>1 DEF ResetPassword
  <2>3. row \in Accounts /\ row.ver > account[u].ver /\ row.era >= account[u].era
    <3> DEFINE was == account[u]
               ver == was.ver + 1
               era == was.era + 1
    <3>1. row = [was EXCEPT !.ver = ver, !.era = era]
      BY DEF NextGeneration
    <3>2. was \in Accounts /\ ver \in 0 .. Generations /\ era \in Nat /\ ver > was.ver /\ era >= was.era
      BY <1>1, <2>1, StaffAssumption DEF Accounts
    <3> HIDE DEF row, was, ver, era
    <3>3. row \in Accounts /\ row.ver = ver /\ row.era = era
      BY <3>1, <3>2 DEF Accounts
    <3> QED BY <3>2, <3>3 DEF was
  <2>4. grantRow[u] \in GrantRows /\ \A g \in Grants : grantRow[u][g].n > 0 => grantRow[u][g].by \in Actors
    BY <1>1, <2>1 DEF StaffInv
  <2>5. account[u].ver > 0 /\ account[u].ver \in Nat
    BY <1>1, <2>1, StaffAssumption DEF EditOK, Hired, Accounts
  <2>6. row.ver > 0
    <3> HIDE DEF row
    <3>1. row.ver \in Nat
      BY <2>3, StaffAssumption DEF Accounts
    <3> QED BY <2>3, <2>5, <3>1
  <2> HIDE DEF row, E
  <2> QED BY <1>2, <2>1, <2>2, <2>3, <2>4, <2>6, AccountIsWritten
<1>9. CASE EditFails(e)
  BY <1>1, <1>9, EditMoves DEF EditFails
<1> QED BY <1>3, <1>4, <1>5, <1>6, <1>7, <1>8, <1>9

LEMMA StaffStep == StaffInv /\ [StaffNext]_staffVars => StaffInv'
<1> SUFFICES ASSUME StaffInv, [StaffNext]_staffVars PROVE StaffInv'
  OBVIOUS
<1>1. ASSUME NEW u \in Employees, Verify(u) PROVE StaffInv'
  <2>1. Dated(u, account[u])
    BY <1>1, StaffAssumption DEF Verify, StaffInv, Accounts, Dated, Hired, NoAccount
  <2>2. login' = [login EXCEPT ![u] = account[u]] /\ UNCHANGED <<account, session, grantRow, edit>>
    BY <1>1 DEF Verify
  <2>3. SessionsDated'
    BY <2>1, <2>2 DEF StaffInv, SessionsDated, Dated
  <2> QED BY <2>2, <2>3 DEF StaffInv, Hired, EditOK, GrantsOf
<1>2. ASSUME NEW u \in Employees, OpenSession(u) PROVE StaffInv'
  <2> DEFINE t == Token(u, login[u])
  <2>1. session' = session \cup {t} /\ login' = [login EXCEPT ![u] = None] /\ UNCHANGED <<account, grantRow, edit>>
    BY <1>2 DEF OpenSession
  <2>2. t \in [user : Employees, ver : 1 .. Generations, era : Nat] /\ t.user = u /\ Dated(u, t)
    BY <1>2 DEF OpenSession, StaffInv, SessionsDated, Dated, Token
  <2> HIDE DEF t
  <2>3. SessionsDated'
    BY <2>1, <2>2 DEF StaffInv, SessionsDated, Dated
  <2> QED BY <2>1, <2>2, <2>3 DEF StaffInv, Hired, EditOK, GrantsOf
<1>3. ASSUME NEW u \in Employees, NEW a \in Actors, NEW G \in SUBSET Grants, CreateStaff(u, a, G) PROVE StaffInv'
  <2> DEFINE row == [active |-> TRUE, ver |-> 1, era |-> 0]
             rows == [g \in Grants |-> IF g \in G THEN [n |-> 1, by |-> a] ELSE NoGrant]
  <2>1. /\ account' = [account EXCEPT ![u] = row] /\ grantRow' = [grantRow EXCEPT ![u] = rows]
        /\ UNCHANGED <<login, session, edit>> /\ ~Hired(u)
    BY <1>3 DEF CreateStaff
  <2>2. row \in Accounts /\ row.ver > 0 /\ row.ver > account[u].ver /\ row.era >= account[u].era
    BY <2>1, StaffAssumption DEF StaffInv, Accounts, NoAccount
  <2>3. rows \in GrantRows /\ \A g \in Grants : rows[g].n > 0 => rows[g].by \in Actors
    BY DEF GrantRows, NoGrant
  <2>4. edit' \in [Editors -> Edits] /\ \A d \in Editors : edit'[d] = edit[d] /\ (edit'[d].pc = "held" => edit'[d].user # u)
    BY <2>1 DEF StaffInv, EditOK
  <2> HIDE DEF row, rows
  <2> QED BY <2>1, <2>2, <2>3, <2>4, AccountIsWritten
<1>4. ASSUME UNCHANGED staffVars PROVE StaffInv'
  BY <1>4 DEF staffVars, StaffInv, SessionsDated, Dated, Hired, EditOK, GrantsOf
<1> QED BY <1>1, <1>2, <1>3, <1>4, EditStep DEF StaffNext

LEMMA StaffInvIsSafe == StaffInv => StaffSafe
<1> SUFFICES ASSUME StaffInv PROVE StaffSafe
  OBVIOUS
<1>1. StaffTypeOK
  BY StaffAssumption DEF StaffInv, StaffTypeOK, Accounts, Edits, SessionsDated, Dated
<1>2. SessionsEnd
  BY DEF StaffInv, SessionsDated, Dated, SessionsEnd, Accepted
<1>3. GrantedOnce
  BY DEF StaffInv, GrantedOnce
<1> QED BY <1>1, <1>2, <1>3 DEF StaffSafe

\* However logins, suspensions, new passwords and the updates of staff management overlap: a token of a login before a
\* suspension or a new password is never accepted again, and no grant is left twice (authenticate, change_account_status,
\* reset_user_password, update_staff).
THEOREM StaffIsSafe == StaffSpec => []StaffSafe
<1> QED BY StaffStart, StaffStep, StaffInvIsSafe, PTL DEF StaffSpec

(***************************************************************************)
(* Enrollment: what a call has read of a row's presence stays true, and a  *)
(* call that creates a link holds the root, so that none of its target     *)
(* comes up meanwhile.                                                     *)
(***************************************************************************)
EnrollCallOK(C) ==
    \/ C.op = "none"
    \/ C.op = "linking" /\ C.of \in Targets \cup {None}
    \/ C.op \in {"rotate", "disable"} /\ C.of \in LinkIds /\ link[C.of] \in LinkRow
    \/ C.op = "submit" /\ C.of \in LinkIds /\ link[C.of] \in LinkRow /\ C.with \in Phones
    \/ C.op = "handle" /\ C.of \in Applications /\ application[C.of] \in ApplicationRow /\ C.with \in Operations

\* A guard is of an application at work; who was converted has paid and has a record.
ApplicationOK(A) ==
    /\ A.guard => A.status \in {"SUBMITTED", "APPROVED"}
    /\ A.converted => A.paid /\ A.phone \in registered
\* Where no old review is written, it also stays as it was.
AsConverted(A) == A.converted => A.status = "ENROLLED" /\ A.target # None /\ A.center

EnrollInv ==
    /\ link \in [LinkIds -> {None} \cup LinkRow]
    /\ application \in [Applications -> {None} \cup ApplicationRow]
    /\ registered \subseteq Phones /\ overtaken \subseteq Applications
    /\ enrollCall = [c \in EnrollCalls |-> enrollCall[c]]
    /\ \A c \in EnrollCalls : EnrollCallOK(enrollCall[c])
    /\ OneLinkPerTarget
    /\ \A c, d \in EnrollCalls : enrollCall[c].op = "linking" /\ enrollCall[d].op = "linking" => c = d
    /\ \A c \in EnrollCalls, i \in LinkIds :
         enrollCall[c].op = "linking" /\ ActiveLink(i) => link[i].target # enrollCall[c].of
    /\ \A a \in Applications : application[a] # None => ApplicationOK(application[a])
    /\ \A a \in Applications \ overtaken : application[a] # None => AsConverted(application[a])

LEMMA EnrollStart == EnrollInit => EnrollInv
BY EnrollmentAssumption DEF EnrollInit, EnrollInv, NoEnrollCall, EnrollCallOK, OneLinkPerTarget, ActiveLink

\* Only the calls change.
LEMMA EnrollCallMoves ==
    ASSUME EnrollInv, NEW c \in EnrollCalls, NEW C, EnrollCallOK(C),
           C.op = "linking" => ~RootLocked /\ \A i \in LinkIds : ActiveLink(i) => link[i].target # C.of,
           enrollCall' = [enrollCall EXCEPT ![c] = C], UNCHANGED <<link, application, registered, overtaken>>
    PROVE  EnrollInv'
<1>1. \A d \in EnrollCalls : enrollCall'[d] = IF d = c THEN C ELSE enrollCall[d]
  BY DEF EnrollInv
<1>2. enrollCall' = [d \in EnrollCalls |-> enrollCall'[d]]
  BY DEF EnrollInv
<1>3. \A d \in EnrollCalls : EnrollCallOK(enrollCall[d])'
  BY <1>1 DEF EnrollInv, EnrollCallOK
<1>4. OneLinkPerTarget' /\ \A i \in LinkIds : ActiveLink(i)' <=> ActiveLink(i)
  BY DEF EnrollInv, OneLinkPerTarget, ActiveLink
<1>5. /\ \A a \in Applications : application[a] # None => ApplicationOK(application[a])'
      /\ \A a \in Applications : application[a] # None /\ a \notin overtaken => AsConverted(application[a])
  BY DEF EnrollInv, ApplicationOK
<1>6. \A d, e \in EnrollCalls : (enrollCall[d].op = "linking")' /\ (enrollCall[e].op = "linking")' => d = e
  BY <1>1 DEF EnrollInv, RootLocked
<1>7. \A d \in EnrollCalls, i \in LinkIds :
        (enrollCall[d].op = "linking")' /\ ActiveLink(i)' => link'[i].target # enrollCall'[d].of
  BY <1>1, <1>4 DEF EnrollInv
<1> QED BY <1>2, <1>3, <1>4, <1>5, <1>6, <1>7 DEF EnrollInv

\* A link is written: it is new, of the target its creator has looked for, or keeps its target and does not become active.
LEMMA LinkIsWritten ==
    ASSUME EnrollInv, NEW i \in LinkIds, NEW L \in LinkRow, link' = [link EXCEPT ![i] = L],
           \/ /\ link[i] \in LinkRow /\ L.target = link[i].target /\ (L.status = "ACTIVE" => ActiveLink(i))
           \/ \E c \in EnrollCalls :
                /\ enrollCall[c].op = "linking" /\ enrollCall[c].of = L.target /\ enrollCall'[c].op = "none",
           enrollCall' = [d \in EnrollCalls |-> enrollCall'[d]],
           \A d \in EnrollCalls : enrollCall'[d] = enrollCall[d] \/ enrollCall'[d].op = "none",
           UNCHANGED <<application, registered, overtaken>>
    PROVE  EnrollInv'
<1>1. /\ link' \in [LinkIds -> {None} \cup LinkRow]
      /\ \A j \in LinkIds : link'[j] = IF j = i THEN L ELSE link[j]
  BY DEF EnrollInv
<1>2. ASSUME NEW d \in EnrollCalls PROVE EnrollCallOK(enrollCall[d])'
  BY <1>1 DEF EnrollInv, EnrollCallOK
<1>3. \A j \in LinkIds : ActiveLink(j)' => IF j = i THEN L.status = "ACTIVE" ELSE ActiveLink(j)
  BY <1>1 DEF ActiveLink
<1>4. OneLinkPerTarget'
  <2>1. ASSUME NEW j \in LinkIds, j # i, L.status = "ACTIVE", ActiveLink(j) PROVE link[j].target # L.target
    BY <2>1 DEF EnrollInv, OneLinkPerTarget
  <2>2. ASSUME NEW j \in LinkIds, NEW k \in LinkIds, ActiveLink(j)', ActiveLink(k)', link'[j].target = link'[k].target
        PROVE  j = k
    <3>1. CASE j = i /\ k # i
      BY <1>1, <1>3, <2>1, <2>2, <3>1
    <3>2. CASE k = i /\ j # i
      BY <1>1, <1>3, <2>1, <2>2, <3>2
    <3>3. CASE k # i /\ j # i
      BY <1>1, <1>3, <2>2, <3>3 DEF EnrollInv, OneLinkPerTarget
    <3> QED BY <3>1, <3>2, <3>3
  <2> QED BY <2>2 DEF OneLinkPerTarget
<1>5. \A d, e \in EnrollCalls : (enrollCall[d].op = "linking")' /\ (enrollCall[e].op = "linking")' => d = e
  BY DEF EnrollInv
<1>6. ASSUME NEW d \in EnrollCalls, NEW j \in LinkIds, enrollCall'[d].op = "linking", ActiveLink(j)'
      PROVE  link'[j].target # enrollCall'[d].of
  BY <1>1, <1>3, <1>6 DEF EnrollInv
<1>7. /\ \A a \in Applications : application[a] # None => ApplicationOK(application[a])'
      /\ \A a \in Applications : application[a] # None /\ a \notin overtaken => AsConverted(application[a])
  BY DEF EnrollInv, ApplicationOK
<1> QED BY <1>1, <1>2, <1>4, <1>5, <1>6, <1>7 DEF EnrollInv

LEMMA LinkStep ==
    ASSUME EnrollInv, NEW c \in EnrollCalls,
           (\E i \in LinkIds : InsertLink(c, i)) \/ RotateLink(c) \/ DisableLink(c)
    PROVE  EnrollInv'
<1>1. ASSUME Quit(c)
      PROVE  /\ enrollCall' = [d \in EnrollCalls |-> enrollCall'[d]]
             /\ \A d \in EnrollCalls : enrollCall'[d] = enrollCall[d] \/ enrollCall'[d].op = "none"
             /\ enrollCall'[c].op = "none"
  BY <1>1 DEF EnrollInv, Quit, NoEnrollCall
<1>2. ASSUME NEW i \in LinkIds, InsertLink(c, i) PROVE EnrollInv'
  <2> DEFINE L == [target |-> enrollCall[c].of, status |-> "ACTIVE", ver |-> 1]
  <2>1. link' = [link EXCEPT ![i] = L] /\ Quit(c) /\ enrollCall[c].op = "linking" /\ UNCHANGED <<application, registered, overtaken>>
    BY <1>2 DEF InsertLink
  <2>2. L \in LinkRow /\ L.target = enrollCall[c].of
    BY <2>1 DEF EnrollInv, EnrollCallOK, LinkRow
  <2> HIDE DEF L
  <2> QED BY <1>1, <2>1, <2>2, LinkIsWritten
<1>3. ASSUME RotateLink(c) \/ DisableLink(c) PROVE EnrollInv'
  <2>1. PICK i \in LinkIds : i = enrollCall[c].of /\ link[i] \in LinkRow /\ enrollCall[c].op \in {"rotate", "disable"}
    BY <1>3 DEF EnrollInv, EnrollCallOK, RotateLink, DisableLink
  <2>2. PICK L : /\ L = IF enrollCall[c].op = "rotate" THEN [link[i] EXCEPT !.ver = @ + 1] ELSE [link[i] EXCEPT !.status = "DISABLED"]
    OBVIOUS
  <2>3. link' = [link EXCEPT ![i] = L] /\ Quit(c) /\ UNCHANGED <<application, registered, overtaken>>
    BY <1>3, <2>1, <2>2 DEF RotateLink, DisableLink
  <2>4. L \in LinkRow /\ L.target = link[i].target
    BY <1>3, <2>1, <2>2 DEF LinkRow, RotateLink, DisableLink
  <2>5. L.status = "ACTIVE" => ActiveLink(i)
    BY EnrollmentAssumption, <2>1, <2>2, <1>3 DEF LinkRow, ActiveLink, RotateLink, DisableLink, EnrollInv
  <2> QED BY <1>1, <2>1, <2>3, <2>4, <2>5, LinkIsWritten
<1> QED BY <1>2, <1>3

(***************************************************************************)
(* The applications.                                                       *)
(***************************************************************************)
\* Whatever is done to an application leaves its phone, its conversion and its payment, and never sets its guard.
LEMMA ReviewedKeeps ==
    ASSUME NEW A \in ApplicationRow, NEW op \in ReviewForms
    PROVE  /\ Reviewed(op, A) \in ApplicationRow
           /\ Reviewed(op, A).phone = A.phone /\ Reviewed(op, A).converted = A.converted
           /\ Reviewed(op, A).paid = A.paid /\ Reviewed(op, A).guard = A.guard
           /\ Reviewed(op, A).status \in {A.status, "APPROVED"}
<1>1. PICK s, t, c :
        /\ s = IF op.approve THEN "APPROVED" ELSE A.status
        /\ t = CASE op.target = "KEEP" -> A.target [] op.target = "SET" -> "chosen" [] op.target = "CLEAR" -> None
        /\ c = CASE op.center = "KEEP" -> A.center [] op.center = "SET" -> TRUE [] op.center = "CLEAR" -> FALSE
  OBVIOUS
<1>2. op.target \in {"KEEP", "SET", "CLEAR"} /\ op.center \in {"KEEP", "SET", "CLEAR"} /\ op.approve \in BOOLEAN
  BY DEF ReviewForms
<1>3. s \in {A.status, "APPROVED"} /\ A.status \in {"SUBMITTED", "APPROVED", "REJECTED", "ENROLLED"}
  BY <1>1 DEF ApplicationRow
<1>4. t \in Targets \cup {None, "chosen"}
  BY <1>1, <1>2 DEF ApplicationRow
<1>5. c \in BOOLEAN
  BY <1>1, <1>2 DEF ApplicationRow
<1>6. Reviewed(op, A) = [A EXCEPT !.status = s, !.target = t, !.center = c]
  BY <1>1 DEF Reviewed
<1> QED BY <1>3, <1>4, <1>5, <1>6 DEF ApplicationRow

LEMMA HandledKeeps ==
    ASSUME NEW A \in ApplicationRow, NEW op \in Operations
    PROVE  /\ Handled(op, A) \in ApplicationRow
           /\ Handled(op, A).phone = A.phone /\ Handled(op, A).converted = A.converted
           /\ A.paid => Handled(op, A).paid
           /\ Handled(op, A).guard => A.guard /\ Handled(op, A).status \in {A.status, "APPROVED"}
           /\ op.what = "pay" => /\ Handled(op, A).status = A.status /\ Handled(op, A).target = A.target
                                /\ Handled(op, A).center = A.center
<1>1. CASE op \in Reviews
  <2>1. op \in ReviewForms /\ op.what = "review"
    BY <1>1, ReviewAssumption DEF ReviewForms
  <2>2. Handled(op, A) = Reviewed(op, A)
    BY <2>1 DEF Handled
  <2> QED BY <2>1, <2>2, ReviewedKeeps
<1>2. CASE op = Sends("pay")
  <2>1. Handled(op, A) = [A EXCEPT !.paid = TRUE]
    BY <1>2 DEF Handled, Sends
  <2> QED BY <2>1 DEF ApplicationRow
<1>3. CASE op = Sends("reject")
  <2>1. Handled(op, A) = [A EXCEPT !.status = "REJECTED", !.guard = FALSE] /\ op.what = "reject"
    BY <1>3 DEF Handled, Sends
  <2> QED BY <2>1 DEF ApplicationRow
<1> QED BY <1>1, <1>2, <1>3 DEF Operations

\* An application is written, and records are added.
LEMMA ApplicationIsWritten ==
    ASSUME EnrollInv, NEW a \in Applications, NEW A \in ApplicationRow, application' = [application EXCEPT ![a] = A],
           registered \subseteq registered', registered' \subseteq Phones, ApplicationOK(A)',
           overtaken \subseteq overtaken', overtaken' \subseteq Applications, a \notin overtaken' => AsConverted(A),
           enrollCall' = [d \in EnrollCalls |-> enrollCall'[d]],
           \A d \in EnrollCalls : enrollCall'[d] = enrollCall[d] \/ enrollCall'[d].op = "none",
           UNCHANGED link
    PROVE  EnrollInv'
<1>1. /\ application' \in [Applications -> {None} \cup ApplicationRow]
      /\ \A b \in Applications : application'[b] = IF b = a THEN A ELSE application[b]
  BY DEF EnrollInv
<1>2. ASSUME NEW d \in EnrollCalls PROVE EnrollCallOK(enrollCall[d])'
  BY <1>1 DEF EnrollInv, EnrollCallOK
<1>3. OneLinkPerTarget' /\ \A i \in LinkIds : ActiveLink(i)' <=> ActiveLink(i)
  BY DEF EnrollInv, OneLinkPerTarget, ActiveLink
<1>4. \A d, e \in EnrollCalls : (enrollCall[d].op = "linking")' /\ (enrollCall[e].op = "linking")' => d = e
  BY DEF EnrollInv
<1>5. \A d \in EnrollCalls, i \in LinkIds :
        (enrollCall[d].op = "linking")' /\ ActiveLink(i)' => link'[i].target # enrollCall'[d].of
  BY <1>3 DEF EnrollInv
<1>6. ASSUME NEW b \in Applications, application'[b] # None PROVE ApplicationOK(application[b])'
  BY <1>1, <1>6 DEF EnrollInv, ApplicationOK
<1>7. ASSUME NEW b \in Applications, b \notin overtaken', application'[b] # None PROVE AsConverted(application'[b])
  BY <1>1, <1>7 DEF EnrollInv
<1> QED BY <1>1, <1>2, <1>3, <1>4, <1>5, <1>6, <1>7 DEF EnrollInv, AsConverted

\* What was converted is only written to by a payment, unless the call is overtaken.
LEMMA ApplicationHandled ==
    ASSUME EnrollInv, NEW a \in Applications, NEW op \in Operations, application[a] \in ApplicationRow,
           application' = [application EXCEPT ![a] = Handled(op, @)], UNCHANGED <<link, registered>>,
           overtaken \subseteq overtaken', overtaken' \subseteq Applications,
           a \notin overtaken' /\ application[a].converted => op.what = "pay",
           enrollCall' = [d \in EnrollCalls |-> enrollCall'[d]],
           \A d \in EnrollCalls : enrollCall'[d] = enrollCall[d] \/ enrollCall'[d].op = "none"
    PROVE  EnrollInv'
<1>0. PICK A, B : A = application[a] /\ B = Handled(op, A)
  OBVIOUS
<1>1. /\ B \in ApplicationRow /\ B.phone = A.phone /\ B.converted = A.converted
      /\ A.paid => B.paid
      /\ B.guard => A.guard /\ B.status \in {A.status, "APPROVED"}
      /\ op.what = "pay" => B.status = A.status /\ B.target = A.target /\ B.center = A.center
  BY <1>0, HandledKeeps
<1>2. ApplicationOK(A) /\ (a \notin overtaken => AsConverted(A))
  BY <1>0, EnrollmentAssumption DEF EnrollInv
<1>3. application' = [application EXCEPT ![a] = B] /\ registered \subseteq registered' /\ registered' \subseteq Phones
  BY <1>0 DEF EnrollInv
<1>4. ApplicationOK(B)'
  <2>1. B.guard => B.status \in {"SUBMITTED", "APPROVED"}
    BY <1>1, <1>2 DEF ApplicationOK
  <2>2. B.converted => B.paid /\ B.phone \in registered
    BY <1>1, <1>2 DEF ApplicationOK
  <2> QED BY <2>1, <2>2 DEF ApplicationOK
<1>5. a \notin overtaken' => AsConverted(B)
  BY <1>0, <1>1, <1>2 DEF AsConverted
<1> QED BY <1>1, <1>3, <1>4, <1>5, ApplicationIsWritten

LEMMA ApplicationStep ==
    ASSUME EnrollInv,
           \/ \E c \in EnrollCalls : (\E a \in Applications : Submit(c, a)) \/ Handle(c)
           \/ \E a \in Applications :
                \/ \E op \in Operations : HandleLocked(a, op)
                \/ \E existing \in BOOLEAN : Enroll(a, existing)
    PROVE  EnrollInv'
<1>1. ASSUME NEW c \in EnrollCalls, Quit(c)
      PROVE  /\ enrollCall' = [d \in EnrollCalls |-> enrollCall'[d]]
             /\ \A d \in EnrollCalls : enrollCall'[d] = enrollCall[d] \/ enrollCall'[d].op = "none"
  BY <1>1 DEF EnrollInv, Quit, NoEnrollCall
<1>2. ASSUME NEW c \in EnrollCalls, NEW a \in Applications, Submit(c, a) PROVE EnrollInv'
  <2>0. PICK C, A : /\ C = enrollCall[c]
                    /\ A = [phone |-> C.with, guard |-> TRUE, status |-> "SUBMITTED", target |-> link[C.of].target,
                            paid |-> FALSE, center |-> FALSE, converted |-> FALSE]
    OBVIOUS
  <2>1. application' = [application EXCEPT ![a] = A] /\ Quit(c) /\ C.op = "submit" /\ UNCHANGED <<link, registered, overtaken>>
    BY <1>2, <2>0 DEF Submit
  <2>2. link[C.of] \in LinkRow /\ C.with \in Phones
    BY <2>0, <2>1 DEF EnrollInv, EnrollCallOK
  <2>3. A \in ApplicationRow /\ A.status = "SUBMITTED" /\ ~A.converted
    BY <2>0, <2>2 DEF ApplicationRow, LinkRow
  <2>4. ApplicationOK(A)' /\ AsConverted(A)
    BY <2>3 DEF ApplicationOK, AsConverted
  <2>5. registered \subseteq registered' /\ registered' \subseteq Phones /\ overtaken' = overtaken /\ overtaken \subseteq Applications
    BY <2>1 DEF EnrollInv
  <2> QED BY <1>1, <2>1, <2>3, <2>4, <2>5, ApplicationIsWritten
<1>3. ASSUME NEW c \in EnrollCalls, Handle(c) PROVE EnrollInv'
  <2>1. PICK a \in Applications, op \in Operations :
          a = enrollCall[c].of /\ op = enrollCall[c].with /\ application[a] \in ApplicationRow
    BY <1>3 DEF EnrollInv, EnrollCallOK, Handle
  <2>2. /\ application' = [application EXCEPT ![a] = Handled(op, @)] /\ UNCHANGED <<link, registered>> /\ Quit(c)
        /\ overtaken' = IF application[a].converted /\ op.what # "pay" THEN overtaken \cup {a} ELSE overtaken
    BY <1>3, <2>1 DEF Handle
  <2>3. overtaken \subseteq overtaken' /\ overtaken' \subseteq Applications
    BY <2>2 DEF EnrollInv
  <2> QED BY <1>1, <2>1, <2>2, <2>3, ApplicationHandled
<1>4. ASSUME NEW a \in Applications, NEW op \in Operations, HandleLocked(a, op) PROVE EnrollInv'
  <2>1. application[a] \in ApplicationRow /\ enrollCall' = enrollCall
    BY <1>4 DEF EnrollInv, HandleLocked
  <2>2. application' = [application EXCEPT ![a] = Handled(op, @)] /\ UNCHANGED <<link, registered, overtaken>>
    BY <1>4 DEF HandleLocked
  <2>3. enrollCall' = [d \in EnrollCalls |-> enrollCall'[d]] /\ overtaken \subseteq Applications
    BY <2>1 DEF EnrollInv
  <2>4. ASSUME a \notin overtaken', application[a].converted PROVE op.what = "pay"
    <3>1. application[a].status = "ENROLLED"
      BY <1>4, <2>2, <2>4 DEF EnrollInv, AsConverted, HandleLocked
    <3> QED BY <1>4, <3>1 DEF HandleLocked, Admits
  <2> QED BY <2>1, <2>2, <2>3, <2>4, ApplicationHandled
<1>5. ASSUME NEW a \in Applications, NEW existing \in BOOLEAN, Enroll(a, existing) PROVE EnrollInv'
  <2>0. PICK A, B :
          /\ A = application[a]
          /\ B = IF A.converted THEN A ELSE [A EXCEPT !.status = "ENROLLED", !.guard = FALSE, !.converted = TRUE]
    OBVIOUS
  <2>1. A \in ApplicationRow /\ ApplicationOK(A) /\ Gates(A, existing) /\ registered' = registered \cup {A.phone}
        /\ UNCHANGED <<link, overtaken, enrollCall>> /\ (a \notin overtaken => AsConverted(A))
    BY <1>5, <2>0 DEF EnrollInv, Enroll
  <2>2. application' = [application EXCEPT ![a] = B]
    BY <1>5, <2>0 DEF Enroll, EnrollInv
  <2>3. B \in ApplicationRow /\ B.paid = A.paid /\ B.target = A.target /\ B.center = A.center /\ B.phone = A.phone
        /\ (B.guard => A.guard /\ B.status = A.status)
    BY <2>0, <2>1 DEF ApplicationRow
  <2>4. ApplicationOK(B)'
    BY <2>1, <2>3 DEF ApplicationOK, Gates
  <2>5. registered \subseteq registered' /\ registered' \subseteq Phones /\ overtaken' = overtaken /\ overtaken \subseteq Applications
    BY <2>1 DEF EnrollInv, ApplicationRow
  <2>6. enrollCall' = [d \in EnrollCalls |-> enrollCall'[d]]
    BY <2>1 DEF EnrollInv
  <2>7. a \notin overtaken' => AsConverted(B)
    <3>1. CASE A.converted
      BY <2>0, <2>1, <3>1
    <3>2. CASE ~A.converted
      <4>1. B.status = "ENROLLED" /\ A.target # None /\ A.center
        BY <2>0, <2>1, <3>2 DEF ApplicationRow, Gates
      <4> QED BY <2>3, <4>1 DEF AsConverted
    <3> QED BY <3>1, <3>2
  <2> QED BY <2>1, <2>2, <2>3, <2>4, <2>5, <2>6, <2>7, ApplicationIsWritten
<1> QED BY <1>2, <1>3, <1>4, <1>5

LEMMA EnrollStep == EnrollInv /\ [EnrollNext]_enrollVars => EnrollInv'
<1> SUFFICES ASSUME EnrollInv, [EnrollNext]_enrollVars PROVE EnrollInv'
  OBVIOUS
<1>1. ASSUME NEW c \in EnrollCalls, NEW t \in Targets \cup {None}, LookForLink(c, t) PROVE EnrollInv'
  <2> DEFINE C == [op |-> "linking", of |-> t, with |-> None]
  <2>1. /\ enrollCall' = [enrollCall EXCEPT ![c] = C] /\ UNCHANGED <<link, application, registered, overtaken>> /\ ~RootLocked
        /\ \A i \in LinkIds : ActiveLink(i) => link[i].target # t
    BY <1>1 DEF LookForLink, Take
  <2>2. EnrollCallOK(C) /\ C.of = t
    BY DEF EnrollCallOK
  <2> HIDE DEF C
  <2> QED BY <2>1, <2>2, EnrollCallMoves
<1>2. ASSUME NEW c \in EnrollCalls, NEW i \in LinkIds, NEW op \in {"rotate", "disable"}, StartLinkChange(c, i, op)
      PROVE  EnrollInv'
  <2> DEFINE C == [op |-> op, of |-> i, with |-> None]
  <2>1. enrollCall' = [enrollCall EXCEPT ![c] = C] /\ UNCHANGED <<link, application, registered, overtaken>>
    BY <1>2 DEF StartLinkChange, Take
  <2>2. EnrollCallOK(C) /\ C.op # "linking"
    BY <1>2 DEF EnrollCallOK, StartLinkChange, ActiveLink, EnrollInv
  <2> HIDE DEF C
  <2> QED BY <2>1, <2>2, EnrollCallMoves
<1>3. ASSUME NEW c \in EnrollCalls, NEW i \in LinkIds, NEW v \in 1 .. 2, NEW p \in Phones, StartSubmit(c, i, v, p)
      PROVE  EnrollInv'
  <2> DEFINE C == [op |-> "submit", of |-> i, with |-> p]
  <2>1. enrollCall' = [enrollCall EXCEPT ![c] = C] /\ UNCHANGED <<link, application, registered, overtaken>>
    BY <1>3 DEF StartSubmit, Take
  <2>2. EnrollCallOK(C) /\ C.op # "linking"
    BY <1>3 DEF EnrollCallOK, StartSubmit, ActiveLink, EnrollInv
  <2> HIDE DEF C
  <2> QED BY <2>1, <2>2, EnrollCallMoves
<1>4. ASSUME NEW c \in EnrollCalls, NEW a \in Applications, NEW op \in Operations, StartHandling(c, a, op)
      PROVE  EnrollInv'
  <2> DEFINE C == [op |-> "handle", of |-> a, with |-> op]
  <2>1. enrollCall' = [enrollCall EXCEPT ![c] = C] /\ UNCHANGED <<link, application, registered, overtaken>>
    BY <1>4 DEF StartHandling, Take
  <2>2. EnrollCallOK(C) /\ C.op # "linking"
    BY <1>4 DEF EnrollCallOK, StartHandling, EnrollInv
  <2> HIDE DEF C
  <2> QED BY <2>1, <2>2, EnrollCallMoves
<1>5. ASSUME NEW c \in EnrollCalls, FailEnrollCall(c) PROVE EnrollInv'
  <2>1. EnrollCallOK(NoEnrollCall) /\ NoEnrollCall.op # "linking"
    BY DEF EnrollCallOK, NoEnrollCall
  <2> QED BY <1>5, <2>1, EnrollCallMoves DEF FailEnrollCall, Quit
<1>6. ASSUME NEW p \in Phones, Register(p) PROVE EnrollInv'
  <2>1. registered' \subseteq Phones /\ registered \subseteq registered' /\ UNCHANGED <<link, application, overtaken, enrollCall>>
    BY <1>6 DEF Register, EnrollInv
  <2>2. \A a \in Applications : application'[a] # None => ApplicationOK(application[a])'
    BY <2>1 DEF EnrollInv, ApplicationOK
  <2>3. \A c \in EnrollCalls : EnrollCallOK(enrollCall[c])'
    BY <2>1 DEF EnrollInv, EnrollCallOK
  <2> QED BY <2>1, <2>2, <2>3 DEF EnrollInv, OneLinkPerTarget, ActiveLink
<1>7. CASE UNCHANGED enrollVars
  BY <1>7 DEF enrollVars, EnrollInv, EnrollCallOK, ApplicationOK, AsConverted, OneLinkPerTarget, ActiveLink
<1> QED BY <1>1, <1>2, <1>3, <1>4, <1>5, <1>6, <1>7, LinkStep, ApplicationStep DEF EnrollNext

\* A target has one active link, a phone is guarded by an application at work only, and who was converted has paid and
\* has a record, whatever the admin web has read before other calls wrote; and a converted application stays as it was,
\* unless a review or rejection is written that had read it before (review_enrollment_application,
\* confirm_enrollment_payment, reject_enrollment_application, create_enrollment_link).
THEOREM EnrollmentIsSafe == EnrollSpec => []EnrollmentSafe
<1>1. EnrollInv => EnrollmentSafe
  <2> SUFFICES ASSUME EnrollInv PROVE EnrollmentSafe
    OBVIOUS
  <2>1. EnrollTypeOK
    BY DEF EnrollInv, EnrollTypeOK, EnrollCallOK
  <2>2. GuardsAreAtWork /\ ConvertedHavePaid /\ ConvertedStay
    BY DEF EnrollInv, ApplicationOK, AsConverted, GuardsAreAtWork, ConvertedHavePaid, ConvertedStay
  <2> QED BY <2>1, <2>2 DEF EnrollInv, EnrollmentSafe
<1> QED BY <1>1, EnrollStart, EnrollStep, PTL DEF EnrollSpec

(***************************************************************************)
(* MeetingEvidence: an upload has its row for itself, which is not the one *)
(* of its meeting until the upload is over, and what the cleanup removes   *)
(* has no upload any more.                                                 *)
(***************************************************************************)
UploadRecords == [pc : {"idle", "reserve", "put", "activate", "mark", "remove"},
                  meeting : Meetings \cup {None}, photo : Photos \cup {None}]

\* The row of an upload under way: reserved for it, in the store once it was put, not yet active.
UploadOK(U) ==
    /\ U.pc \in {"put", "activate", "mark", "remove"} <=> U.photo # None
    /\ U.pc = "reserve" => U.meeting \in Meetings
    /\ U.photo # None =>
         /\ photo[U.photo] \in PhotoRow /\ photo[U.photo].age # Removable
         /\ ~photo[U.photo].wiped /\ ~photo[U.photo].active
    /\ U.pc = "activate" => U.photo \in objects

PhotoOK(p) ==
    /\ photo[p].wiped => photo[p].age = Removable
    /\ photo[p].age = Removable => p \notin late
    /\ photo[p].active /\ ~photo[p].wiped /\ photo[p].age # Removable => p \in objects

EvidenceInv ==
    /\ submitted \in [Meetings -> Photos \cup {None}] /\ objects \subseteq Photos /\ late \subseteq Photos
    /\ photo \in [Photos -> {None} \cup PhotoRow]
    /\ upload \in [Uploaders -> UploadRecords]
    /\ \A u \in Uploaders : UploadOK(upload[u])
    /\ \A u, v \in Uploaders : upload[u].photo # None /\ upload[u].photo = upload[v].photo => u = v
    /\ \A p \in Photos : photo[p] # None => PhotoOK(p)
    /\ \A p, q \in Photos : Kept(p) /\ Kept(q) /\ photo[p].active /\ photo[q].active
                              /\ photo[p].meeting = photo[q].meeting => p = q
    /\ \A m \in Meetings, p \in Photos :
         submitted[m] = p => /\ photo[p] # None /\ photo[p].meeting = m
                             /\ photo[p].wiped \/ (photo[p].active /\ ~photo[p].deleted)
    /\ NothingOrphaned

LEMMA EvidenceStart == EvidenceInit => EvidenceInv
<1> SUFFICES ASSUME EvidenceInit PROVE EvidenceInv
  OBVIOUS
<1>1. \A u \in Uploaders : upload[u] = NoUpload /\ UploadOK(NoUpload) /\ NoUpload.photo = None /\ NoUpload \in UploadRecords
  BY DEF EvidenceInit, NoUpload, UploadOK, UploadRecords
<1>2. \A p \in Photos : photo[p] = None /\ p # None
  BY EvidenceAssumption DEF EvidenceInit
<1>3. \A m \in Meetings : submitted[m] = None
  BY DEF EvidenceInit
<1>4. upload \in [Uploaders -> UploadRecords]
  BY <1>1 DEF EvidenceInit
<1> QED BY <1>1, <1>2, <1>3, <1>4 DEF EvidenceInit, EvidenceInv, NothingOrphaned, Kept

\* A row stays the row of one upload.
LEMMA UploadsApart ==
    ASSUME EvidenceInv, NEW u \in Uploaders, NEW U, U.photo = None \/ U.photo = upload[u].photo,
           \A v \in Uploaders : upload'[v] = IF v = u THEN U ELSE upload[v]
    PROVE  \A v, w \in Uploaders : upload'[v].photo # None /\ upload'[v].photo = upload'[w].photo => v = w
<1> SUFFICES ASSUME NEW v \in Uploaders, NEW w \in Uploaders, upload'[v].photo # None, upload'[v].photo = upload'[w].photo
             PROVE  v = w
  OBVIOUS
<1>1. upload[v].photo = upload'[v].photo /\ upload[w].photo = upload'[w].photo
  OBVIOUS
<1> QED BY <1>1 DEF EvidenceInv

\* An upload moves on, and what it has put or removed is not yet of its meeting.
LEMMA UploadMoves ==
    ASSUME EvidenceInv, NEW u \in Uploaders, NEW U \in UploadRecords, UploadOK(U)',
           U.photo = None \/ U.photo = upload[u].photo,
           upload' = [upload EXCEPT ![u] = U], UNCHANGED <<submitted, photo>>,
           objects' \subseteq Photos, late' \subseteq Photos,
           \A p \in objects' \cup late' : p \in objects \cup late \/ p = upload[u].photo,
           \A p \in late' : p \in late \/ p = upload[u].photo,
           \A p \in objects : p \in objects' \/ p = upload[u].photo
    PROVE  EvidenceInv'
<1>1. upload' \in [Uploaders -> UploadRecords] /\ \A v \in Uploaders : upload'[v] = IF v = u THEN U ELSE upload[v]
  BY DEF EvidenceInv
<1>2. UploadOK(upload[u]) /\ upload[u] \in UploadRecords
  BY DEF EvidenceInv
<1>3. ASSUME NEW v \in Uploaders, v # u PROVE UploadOK(upload[v])'
  BY <1>1, <1>3 DEF EvidenceInv, UploadOK, UploadRecords
<1>4. ASSUME NEW v \in Uploaders PROVE UploadOK(upload[v])'
  BY <1>1, <1>3, <1>4
<1>5. \A v, w \in Uploaders : upload'[v].photo # None /\ upload'[v].photo = upload'[w].photo => v = w
  BY <1>1, UploadsApart
<1>6. ASSUME NEW p \in Photos, photo[p] # None PROVE PhotoOK(p)'
  <2>1. PhotoOK(p) /\ photo'[p] = photo[p]
    BY <1>6 DEF EvidenceInv
  <2>2. p = upload[u].photo => ~photo[p].active /\ photo[p].age # Removable
    BY <1>2, <1>6, EvidenceAssumption DEF UploadOK
  <2> QED BY <2>1, <2>2 DEF PhotoOK
<1>7. NothingOrphaned'
  <2>1. upload[u].photo # None => Kept(upload[u].photo)
    BY <1>2, EvidenceAssumption DEF UploadOK, Kept
  <2>2. \A p \in objects' \cup late' : p \in Photos /\ p # None
    BY EvidenceAssumption
  <2> QED BY <2>1, <2>2 DEF EvidenceInv, NothingOrphaned, Kept
<1> QED BY <1>1, <1>4, <1>5, <1>6, <1>7 DEF EvidenceInv, Kept

LEMMA UploadTypes ==
    ASSUME EvidenceInv, NEW u \in Uploaders
    PROVE  /\ upload[u] \in UploadRecords /\ UploadOK(upload[u])
           /\ NoUpload \in UploadRecords /\ UploadOK(NoUpload)' /\ NoUpload.photo = None
           /\ \A pc \in {"activate", "mark", "remove"} :
                upload[u].photo # None =>
                  /\ [upload[u] EXCEPT !.pc = pc] \in UploadRecords
                  /\ [upload[u] EXCEPT !.pc = pc].pc = pc
                  /\ [upload[u] EXCEPT !.pc = pc].photo = upload[u].photo
BY EvidenceAssumption DEF EvidenceInv, UploadRecords, NoUpload, UploadOK

\* The steps of an upload that leave the rows alone.
LEMMA StoreStep ==
    ASSUME EvidenceInv, NEW u \in Uploaders,
           \/ \E m \in Meetings : BeginUpload(u, m)
           \/ \E outcome \in {"stored", "late", "refused"} : PutPhoto(u, outcome)
           \/ \E done \in BOOLEAN : TakeBack(u, done)
           \/ UploaderDies(u)
    PROVE  EvidenceInv'
<1>1. ASSUME NEW m \in Meetings, BeginUpload(u, m) PROVE EvidenceInv'
  <2>0. PICK U : U = [pc |-> "reserve", meeting |-> m, photo |-> None]
    OBVIOUS
  <2>1. U \in UploadRecords /\ U.photo = None /\ UploadOK(U)'
    BY <2>0 DEF UploadRecords, UploadOK
  <2>2. upload' = [upload EXCEPT ![u] = U] /\ UNCHANGED <<submitted, photo, objects, late>>
    BY <1>1, <2>0 DEF BeginUpload
  <2>3. objects' \subseteq Photos /\ late' \subseteq Photos
    BY <2>2 DEF EvidenceInv
  <2> QED BY <2>1, <2>2, <2>3, UploadMoves
<1>2. ASSUME NEW outcome \in {"stored", "late", "refused"}, PutPhoto(u, outcome) PROVE EvidenceInv'
  <2>0. PICK p, U : /\ p = upload[u].photo
                    /\ U = [upload[u] EXCEPT !.pc = IF outcome = "stored" THEN "activate" ELSE "mark"]
    OBVIOUS
  <2>1. p \in Photos /\ UploadOK(upload[u])
    BY <1>2, <2>0, UploadTypes DEF PutPhoto, Uploading, UploadOK, UploadRecords
  <2>2. U \in UploadRecords /\ U.photo = p /\ U.pc = IF outcome = "stored" THEN "activate" ELSE "mark"
    BY <2>0, <2>1, UploadTypes, EvidenceAssumption
  <2>3. /\ upload' = [upload EXCEPT ![u] = U] /\ UNCHANGED <<submitted, photo>>
        /\ objects' = IF outcome = "stored" THEN objects \cup {p} ELSE objects
        /\ late' = IF outcome = "late" THEN late \cup {p} ELSE late
    BY <1>2, <2>0 DEF PutPhoto, Onward
  <2>4. UploadOK(U)'
    BY <2>0, <2>1, <2>2, <2>3, EvidenceAssumption DEF UploadOK
  <2>5. objects' \subseteq Photos /\ late' \subseteq Photos
    BY <2>1, <2>3 DEF EvidenceInv
  <2> QED BY <2>0, <2>2, <2>3, <2>4, <2>5, UploadMoves
<1>3. ASSUME NEW done \in BOOLEAN, TakeBack(u, done) PROVE EvidenceInv'
  <2>1. /\ upload' = [upload EXCEPT ![u] = NoUpload] /\ UNCHANGED <<submitted, photo, late>>
        /\ objects' = IF done THEN objects \ {upload[u].photo} ELSE objects
    BY <1>3 DEF TakeBack, Onward
  <2>2. objects' \subseteq Photos /\ late' \subseteq Photos
    BY <2>1 DEF EvidenceInv
  <2> QED BY <2>1, <2>2, UploadTypes, UploadMoves
<1>4. ASSUME UploaderDies(u) PROVE EvidenceInv'
  <2>1. upload' = [upload EXCEPT ![u] = NoUpload] /\ UNCHANGED <<submitted, photo, objects, late>>
    BY <1>4 DEF UploaderDies, Onward
  <2>2. objects' \subseteq Photos /\ late' \subseteq Photos
    BY <2>1 DEF EvidenceInv
  <2> QED BY <2>1, <2>2, UploadTypes, UploadMoves
<1> QED BY <1>1, <1>2, <1>3, <1>4

\* The rows change: each stays one of its meeting, and those that uploads work on stay as they are.
LEMMA RowsMove ==
    ASSUME EvidenceInv, NEW rows \in [Photos -> {None} \cup PhotoRow], photo' = rows,
           \A p \in Photos : photo[p] # None => rows[p] # None /\ rows[p].meeting = photo[p].meeting,
           \A p \in Photos : rows[p] # None => PhotoOK(p)',
           \A p, q \in Photos : Kept(p)' /\ Kept(q)' /\ rows[p].active /\ rows[q].active
                                   /\ rows[p].meeting = rows[q].meeting => p = q,
           \A p \in Photos : Kept(p) => Kept(p)' \/ p \notin objects' \cup late',
           \A m \in Meetings, p \in Photos :
             submitted[m] = p => rows[p].wiped \/ (rows[p].active /\ ~rows[p].deleted),
           upload' \in [Uploaders -> UploadRecords],
           \A u \in Uploaders : UploadOK(upload[u])',
           \A u, v \in Uploaders : upload'[u].photo # None /\ upload'[u].photo = upload'[v].photo => u = v,
           objects' \subseteq objects, UNCHANGED <<submitted, late>>
    PROVE  EvidenceInv'
<1>1. NothingOrphaned'
  BY DEF EvidenceInv, NothingOrphaned
<1>2. \A m \in Meetings, p \in Photos :
         submitted'[m] = p => /\ photo'[p] # None /\ photo'[p].meeting = m
                              /\ photo'[p].wiped \/ (photo'[p].active /\ ~photo'[p].deleted)
  BY DEF EvidenceInv
<1> QED BY <1>1, <1>2 DEF EvidenceInv

\* One row changes, and the upload that works on it.
LEMMA RowMoves ==
    ASSUME EvidenceInv, NEW p \in Photos, NEW row \in PhotoRow, photo' = [photo EXCEPT ![p] = row],
           photo[p] # None => row.meeting = photo[p].meeting,
           PhotoOK(p)', row.active => row.wiped \/ (photo[p] # None /\ photo[p].active /\ ~photo[p].wiped),
           row.wiped => p \notin objects' \cup late',
           \A m \in Meetings : submitted[m] = p => row.wiped \/ (row.active /\ ~row.deleted),
           upload' \in [Uploaders -> UploadRecords],
           \A u \in Uploaders : (upload'[u] = upload[u] /\ upload[u].photo # p) \/ UploadOK(upload[u])',
           \A u, v \in Uploaders : upload'[u].photo # None /\ upload'[u].photo = upload'[v].photo => u = v,
           objects' \subseteq objects, objects \ {p} \subseteq objects', UNCHANGED <<submitted, late>>
    PROVE  EvidenceInv'
<1> DEFINE rows == [photo EXCEPT ![p] = row]
<1>1. rows \in [Photos -> {None} \cup PhotoRow] /\ \A q \in Photos : rows[q] = IF q = p THEN row ELSE photo[q]
  BY DEF EvidenceInv
<1> HIDE DEF rows
<1>2. row # None
  BY EvidenceAssumption
<1>3. ASSUME NEW q \in Photos, rows[q] # None PROVE PhotoOK(q)'
  <2>1. CASE q = p
    BY <2>1
  <2>2. CASE q # p
    BY <1>1, <1>3, <2>2 DEF EvidenceInv, PhotoOK, rows
  <2> QED BY <2>1, <2>2
<1>4. photo' = rows
  BY DEF rows
<1>5. \A q, r \in Photos : Kept(q)' /\ Kept(r)' /\ rows[q].active /\ rows[r].active
                              /\ rows[q].meeting = rows[r].meeting => q = r
  <2>1. \A q \in Photos : Kept(q)' /\ rows[q].active => Kept(q) /\ photo[q].active /\ rows[q].meeting = photo[q].meeting
    BY <1>1, <1>4 DEF Kept
  <2> QED BY <2>1 DEF EvidenceInv
<1>6. \A q \in Photos : Kept(q) => Kept(q)' \/ q \notin objects' \cup late'
  BY <1>1, <1>2, <1>4 DEF Kept
<1>7. \A m \in Meetings, q \in Photos :
        submitted[m] = q => rows[q].wiped \/ (rows[q].active /\ ~rows[q].deleted)
  BY <1>1 DEF EvidenceInv
<1>8. ASSUME NEW u \in Uploaders PROVE UploadOK(upload[u])'
  <2>1. CASE upload'[u] = upload[u] /\ upload[u].photo # p
    <3>1. UploadOK(upload[u]) /\ upload[u] \in UploadRecords
      BY DEF EvidenceInv
    <3>2. upload[u].photo # None => upload[u].photo \in Photos /\ photo'[upload[u].photo] = photo[upload[u].photo]
      BY <1>1, <1>4, <2>1, <3>1 DEF UploadRecords
    <3> QED BY <2>1, <3>1, <3>2, EvidenceAssumption DEF UploadOK
  <2> QED BY <2>1
<1>9. \A q \in Photos : photo[q] # None => rows[q] # None /\ rows[q].meeting = photo[q].meeting
  BY <1>1, <1>2
<1> QED BY <1>1, <1>3, <1>4, <1>5, <1>6, <1>7, <1>8, <1>9, RowsMove

LEMMA ReserveStep == ASSUME EvidenceInv, NEW u \in Uploaders, ReserveRow(u) PROVE EvidenceInv'
<1>1. UploadOK(upload[u]) /\ upload[u] \in UploadRecords /\ upload[u].pc = "reserve" /\ UNCHANGED <<submitted, objects, late>>
      /\ upload[u].photo = None
  BY UploadTypes DEF ReserveRow, Uploading, UploadOK
<1>2. CASE Draft(upload[u].meeting)
  <2>1. PICK p \in Photos :
          /\ photo[p] = None
          /\ photo' = [photo EXCEPT ![p] = [meeting |-> upload[u].meeting, active |-> FALSE, deleted |-> FALSE,
                                            wiped |-> FALSE, age |-> Retained]]
          /\ upload' = [upload EXCEPT ![u].photo = p, ![u].pc = "put"]
    BY <1>2 DEF ReserveRow
  <2>2. PICK row, U : /\ row = [meeting |-> upload[u].meeting, active |-> FALSE, deleted |-> FALSE,
                                wiped |-> FALSE, age |-> Retained]
                      /\ U = [upload[u] EXCEPT !.photo = p, !.pc = "put"]
    OBVIOUS
  <2>3. row \in PhotoRow /\ ~row.active /\ ~row.wiped /\ row.age = Retained
    BY <1>1, <2>2 DEF UploadOK, PhotoRow
  <2>4. U \in UploadRecords /\ U.photo = p /\ U.pc = "put"
    BY <1>1, <2>2 DEF UploadRecords
  <2>5. photo' = [photo EXCEPT ![p] = row] /\ upload' = [upload EXCEPT ![u] = U]
    BY <2>1, <2>2 DEF EvidenceInv
  <2>6. upload' \in [Uploaders -> UploadRecords] /\ \A v \in Uploaders : upload'[v] = IF v = u THEN U ELSE upload[v]
    BY <2>4, <2>5 DEF EvidenceInv
  <2>7. photo'[p] = row
    BY <2>5 DEF EvidenceInv
  <2>8. \A v \in Uploaders : upload[v].photo # p
    BY <2>1, EvidenceAssumption DEF EvidenceInv, UploadOK
  <2>9. UploadOK(U)'
    BY <2>3, <2>4, <2>7, EvidenceAssumption DEF UploadOK, Retained, Removable
  <2>10. \A v \in Uploaders : (upload'[v] = upload[v] /\ upload[v].photo # p) \/ UploadOK(upload[v])'
    BY <2>6, <2>8, <2>9
  <2>11. \A v, w \in Uploaders : upload'[v].photo # None /\ upload'[v].photo = upload'[w].photo => v = w
    BY <2>4, <2>6, <2>8 DEF EvidenceInv
  <2>12. PhotoOK(p)'
    BY <2>3, <2>7 DEF PhotoOK, Retained, Removable
  <2>13. \A m \in Meetings : submitted[m] # p
    BY <2>1 DEF EvidenceInv
  <2> QED BY <1>1, <2>1, <2>3, <2>5, <2>6, <2>10, <2>11, <2>12, <2>13, RowMoves
<1>3. CASE ~Draft(upload[u].meeting)
  <2>1. upload' = [upload EXCEPT ![u] = NoUpload] /\ photo' = photo
    BY <1>3 DEF ReserveRow, Onward
  <2>2. objects' \subseteq Photos /\ late' \subseteq Photos
    BY <1>1 DEF EvidenceInv
  <2> QED BY <1>1, <2>1, <2>2, UploadTypes, UploadMoves
<1> QED BY <1>2, <1>3

LEMMA MarkStep == ASSUME EvidenceInv, NEW u \in Uploaders, NEW done \in BOOLEAN, MarkUploadFailed(u, done) PROVE EvidenceInv'
<1>1. UploadOK(upload[u]) /\ upload[u] \in UploadRecords /\ upload[u].pc = "mark" /\ UNCHANGED <<submitted, objects, late>>
  BY UploadTypes DEF MarkUploadFailed, Uploading
<1>0. PICK p \in Photos : p = upload[u].photo
  BY <1>1, EvidenceAssumption DEF UploadOK, UploadRecords
<1>2. PICK U : p = upload[u].photo /\ U = [upload[u] EXCEPT !.pc = "remove"]
  BY <1>0
<1>3. U \in UploadRecords /\ U.photo = p /\ U.pc = "remove" /\ p # None
  BY <1>2, UploadTypes, EvidenceAssumption
<1>4. /\ upload' = [upload EXCEPT ![u] = U]
      /\ photo' = IF done /\ ~photo[p].active THEN [photo EXCEPT ![p].deleted = TRUE] ELSE photo
  BY <1>2 DEF MarkUploadFailed, Onward
<1>5. upload' \in [Uploaders -> UploadRecords] /\ \A v \in Uploaders : upload'[v] = IF v = u THEN U ELSE upload[v]
  BY <1>3, <1>4 DEF EvidenceInv
<1>6. photo[p] \in PhotoRow /\ photo[p] # None /\ ~photo[p].active /\ ~photo[p].wiped /\ photo[p].age # Removable /\ PhotoOK(p)
  BY <1>1, <1>2, <1>3, EvidenceAssumption DEF UploadOK, EvidenceInv
<1>7. PICK row : row = IF done THEN [photo[p] EXCEPT !.deleted = TRUE] ELSE photo[p]
  OBVIOUS
<1>8. /\ row \in PhotoRow /\ row.meeting = photo[p].meeting /\ ~row.active /\ ~row.wiped /\ row.age = photo[p].age
  BY <1>6, <1>7 DEF PhotoRow
<1>9. photo' = [photo EXCEPT ![p] = row]
  BY <1>4, <1>6, <1>7 DEF EvidenceInv
<1>10. photo'[p] = row
  BY <1>9 DEF EvidenceInv
<1>11. UploadOK(U)'
  BY <1>3, <1>6, <1>8, <1>10 DEF UploadOK
<1>12. \A v \in Uploaders : (upload'[v] = upload[v] /\ upload[v].photo # p) \/ UploadOK(upload[v])'
  BY <1>2, <1>3, <1>5, <1>11 DEF EvidenceInv
<1>13. \A v, w \in Uploaders : upload'[v].photo # None /\ upload'[v].photo = upload'[w].photo => v = w
  <2>1. \A v \in Uploaders : upload'[v] = IF v = u THEN U ELSE upload[v]
    BY <1>5
  <2>2. U.photo = upload[u].photo
    BY <1>2, <1>3
  <2> QED BY <2>1, <2>2, UploadsApart
<1>14. PhotoOK(p)'
  BY <1>1, <1>6, <1>8, <1>10 DEF PhotoOK
<1>15. \A m \in Meetings : submitted[m] # p
  BY <1>6 DEF EvidenceInv
<1> QED BY <1>1, <1>5, <1>8, <1>9, <1>12, <1>13, <1>14, <1>15, RowMoves

LEMMA AgeStep == ASSUME EvidenceInv, NEW p \in Photos, PhotoAges(p) PROVE EvidenceInv'
<1>1. photo[p] # None /\ photo[p] \in PhotoRow /\ ~photo[p].wiped /\ photo[p].age # Removable /\ PhotoOK(p)
  BY DEF PhotoAges, Kept, EvidenceInv, Removable
<1>2. /\ UNCHANGED <<submitted, objects, late, upload>>
      /\ photo[p].age = Expired => p \notin late /\ \A u \in Uploaders : upload[u].photo # p
  BY DEF PhotoAges
<1>3. PICK older, row : older = photo[p].age + 1 /\ row = [photo[p] EXCEPT !.age = older]
  OBVIOUS
<1>4. /\ row \in PhotoRow /\ row.meeting = photo[p].meeting /\ row.active = photo[p].active /\ ~row.wiped
      /\ row.deleted = photo[p].deleted /\ (row.age = Removable => photo[p].age = Expired)
  <2>1. photo[p].age \in {Retained, Expired} /\ Retained + 1 = Expired /\ Expired + 1 = Removable
    BY <1>1 DEF PhotoRow, Retained, Expired, Removable
  <2>2. older \in {Retained, Expired, Removable} /\ (older = Removable => photo[p].age = Expired)
    BY <1>3, <2>1 DEF Retained, Expired, Removable
  <2> QED BY <1>1, <1>3, <2>2 DEF PhotoRow
<1>5. photo' = [photo EXCEPT ![p] = row] /\ photo'[p] = row
  BY <1>3 DEF PhotoAges, EvidenceInv
<1>6. PhotoOK(p)'
  BY <1>1, <1>2, <1>4, <1>5 DEF PhotoOK
<1>7. \A m \in Meetings : submitted[m] = p => row.wiped \/ (row.active /\ ~row.deleted)
  BY <1>1, <1>4 DEF EvidenceInv
<1>8. ASSUME NEW u \in Uploaders, upload[u].photo = p PROVE UploadOK(upload[u])'
  <2>1. UploadOK(upload[u]) /\ p # None /\ photo[p].age # Expired
    BY <1>2, <1>8, EvidenceAssumption DEF EvidenceInv
  <2> QED BY <1>2, <1>4, <1>5, <1>8, <2>1 DEF UploadOK
<1>9. \A u \in Uploaders : (upload'[u] = upload[u] /\ upload[u].photo # p) \/ UploadOK(upload[u])'
  BY <1>2, <1>8
<1>10. /\ upload' \in [Uploaders -> UploadRecords] /\ objects' \subseteq objects /\ objects \ {p} \subseteq objects'
       /\ \A u, v \in Uploaders : upload'[u].photo # None /\ upload'[u].photo = upload'[v].photo => u = v
  BY <1>2 DEF EvidenceInv
<1> QED BY <1>1, <1>2, <1>4, <1>5, <1>6, <1>7, <1>9, <1>10, RowMoves

LEMMA CleanUpStep ==
    ASSUME EvidenceInv, NEW p \in Photos, NEW removed \in BOOLEAN, NEW committed \in BOOLEAN, CleanUpPhoto(p, removed, committed)
    PROVE  EvidenceInv'
<1>1. photo[p] # None /\ photo[p] \in PhotoRow /\ ~photo[p].wiped /\ photo[p].age = Removable /\ PhotoOK(p)
  BY DEF CleanUpPhoto, ToClean, Kept, EvidenceInv
<1>2. /\ UNCHANGED <<submitted, late, upload>>
      /\ objects' = IF removed THEN objects \ {p} ELSE objects
  BY DEF CleanUpPhoto
<1>3. PICK row : row = IF removed /\ committed THEN [photo[p] EXCEPT !.wiped = TRUE, !.active = FALSE, !.deleted = TRUE] ELSE photo[p]
  OBVIOUS
<1>4. /\ row \in PhotoRow /\ row.meeting = photo[p].meeting /\ row.age = Removable
      /\ row.wiped => removed
      /\ row.wiped \/ (row.active = photo[p].active /\ row.deleted = photo[p].deleted)
      /\ row.active => photo[p].active
  BY <1>1, <1>3 DEF PhotoRow
<1>5. photo' = [photo EXCEPT ![p] = row] /\ photo'[p] = row
  BY <1>1, <1>3 DEF CleanUpPhoto, Wiped, EvidenceInv
<1>6. PhotoOK(p)'
  BY <1>1, <1>2, <1>4, <1>5 DEF PhotoOK
<1>7. \A m \in Meetings : submitted[m] = p => row.wiped \/ (row.active /\ ~row.deleted)
  BY <1>1, <1>4 DEF EvidenceInv
<1>8. \A u \in Uploaders : upload[u].photo # p
  BY <1>1, EvidenceAssumption DEF EvidenceInv, UploadOK
<1>9. row.wiped => p \notin objects' \cup late'
  BY <1>1, <1>2, <1>4 DEF PhotoOK
<1>10. /\ upload' \in [Uploaders -> UploadRecords] /\ objects' \subseteq objects /\ objects \ {p} \subseteq objects'
       /\ \A u, v \in Uploaders : upload'[u].photo # None /\ upload'[u].photo = upload'[v].photo => u = v
  BY <1>2 DEF EvidenceInv
<1>11. \A u \in Uploaders : upload'[u] = upload[u] /\ upload[u].photo # p
  BY <1>2, <1>8
<1> QED BY <1>1, <1>2, <1>4, <1>5, <1>6, <1>7, <1>9, <1>10, <1>11, RowMoves

LEMMA ActivateStep ==
    ASSUME "UNSURE" \notin Mishaps, EvidenceInv, NEW u \in Uploaders,
           \E answer \in {"ok", "unsure", "failed"} : Activate(u, answer)
    PROVE  EvidenceInv'
<1>1. UploadOK(upload[u]) /\ upload[u] \in UploadRecords /\ upload[u].pc = "activate" /\ UNCHANGED <<submitted, objects, late>>
  BY UploadTypes DEF Activate, Uploading
<1>2. PICK p \in Photos : p = upload[u].photo /\ p # None
  BY <1>1, EvidenceAssumption DEF UploadOK, UploadRecords
<1>3. photo[p] \in PhotoRow /\ photo[p] # None /\ ~photo[p].wiped /\ photo[p].age # Removable /\ PhotoOK(p) /\ p \in objects
  BY <1>1, <1>2, EvidenceAssumption DEF UploadOK, EvidenceInv
<1>4. CASE photo' = photo /\ Onward(u, "mark")
  <2>1. PICK U : U = [upload[u] EXCEPT !.pc = "mark"]
    OBVIOUS
  <2>2. U \in UploadRecords /\ U.photo = p /\ U.pc = "mark" /\ upload' = [upload EXCEPT ![u] = U]
    BY <1>2, <1>4, <2>1, UploadTypes DEF Onward
  <2>3. UploadOK(U)'
    BY <1>1, <1>2, <1>4, <2>2 DEF UploadOK
  <2>4. objects' \subseteq Photos /\ late' \subseteq Photos
    BY <1>1 DEF EvidenceInv
  <2> QED BY <1>1, <1>2, <1>4, <2>2, <2>3, <2>4, UploadMoves
<1>5. CASE MayActivate(p) /\ photo' = Activated(p) /\ Onward(u, "idle")
  <2>1. PICK rows : rows = Activated(p)
    OBVIOUS
  <2>2. rows[p] = [photo[p] EXCEPT !.active = TRUE]
    BY <2>1 DEF Activated
  <2>3. /\ rows[p] \in PhotoRow /\ rows[p] # None /\ rows[p].meeting = photo[p].meeting /\ rows[p].active
        /\ rows[p].wiped = photo[p].wiped /\ rows[p].age = photo[p].age
    BY <1>3, <2>2, EvidenceAssumption DEF PhotoRow
  <2>4. ASSUME NEW q \in Photos, q # p
        PROVE  \/ rows[q] = photo[q] /\ (photo[q] = None \/ photo[q].meeting # photo[p].meeting \/ ~photo[q].active)
               \/ /\ photo[q] # None /\ photo[q].meeting = photo[p].meeting /\ photo[q].active
                  /\ rows[q] = [photo[q] EXCEPT !.active = FALSE, !.deleted = TRUE]
    BY <2>1, <2>4 DEF Activated
  <2>5. ASSUME NEW q \in Photos, q # p
        PROVE  /\ rows[q] \in {None} \cup PhotoRow /\ (photo[q] # None <=> rows[q] # None)
               /\ photo[q] # None =>
                    /\ rows[q].meeting = photo[q].meeting /\ rows[q].wiped = photo[q].wiped /\ rows[q].age = photo[q].age
                    /\ rows[q].active => photo[q].active /\ photo[q].meeting # photo[p].meeting
                    /\ rows[q] = photo[q] \/ (photo[q].meeting = photo[p].meeting /\ photo[q].active)
    <3>1. photo[q] \in {None} \cup PhotoRow
      BY DEF EvidenceInv
    <3>2. CASE rows[q] = photo[q] /\ (photo[q] = None \/ photo[q].meeting # photo[p].meeting \/ ~photo[q].active)
      BY <3>1, <3>2
    <3>3. CASE /\ photo[q] # None /\ photo[q].meeting = photo[p].meeting /\ photo[q].active
               /\ rows[q] = [photo[q] EXCEPT !.active = FALSE, !.deleted = TRUE]
      BY <3>1, <3>3, EvidenceAssumption DEF PhotoRow
    <3> QED BY <2>4, <2>5, <3>2, <3>3
  <2>6. rows = [q \in Photos |-> rows[q]] /\ photo' = rows
    BY <1>5, <2>1 DEF Activated
  <2>7. rows \in [Photos -> {None} \cup PhotoRow]
    BY <2>3, <2>5, <2>6
  <2>8. upload' = [upload EXCEPT ![u] = NoUpload]
    BY <1>5 DEF Onward
  <2>9. /\ upload' \in [Uploaders -> UploadRecords]
        /\ \A v \in Uploaders : upload'[v] = IF v = u THEN NoUpload ELSE upload[v]
    BY <2>8, UploadTypes DEF EvidenceInv
  <2>10. \A v, w \in Uploaders : upload'[v].photo # None /\ upload'[v].photo = upload'[w].photo => v = w
    <3>1. \A v \in Uploaders : upload'[v] = IF v = u THEN NoUpload ELSE upload[v]
      BY <2>9
    <3>2. NoUpload.photo = None
      BY UploadTypes
    <3> QED BY <3>1, <3>2, UploadsApart
  <2>11. ASSUME NEW v \in Uploaders PROVE UploadOK(upload[v])'
    <3>1. CASE v = u
      BY <2>9, <3>1, UploadTypes
    <3>2. CASE v # u
      <4>1. UploadOK(upload[v]) /\ upload[v] \in UploadRecords /\ upload[v].photo # p
        BY <1>2, <3>2 DEF EvidenceInv
      <4>2. upload[v].photo # None => upload[v].photo \in Photos /\ rows[upload[v].photo] = photo[upload[v].photo]
        BY <2>5, <4>1, EvidenceAssumption DEF UploadRecords, UploadOK
      <4>3. upload'[v] = upload[v]
        BY <2>9, <3>2
      <4> QED BY <1>1, <2>6, <4>1, <4>2, <4>3 DEF UploadOK
    <3> QED BY <3>1, <3>2
  <2>12. ASSUME NEW q \in Photos, rows[q] # None PROVE PhotoOK(q)'
    <3>1. CASE q = p
      BY <1>1, <1>3, <2>3, <2>6, <3>1 DEF PhotoOK
    <3>2. CASE q # p
      <4>1. photo[q] # None /\ PhotoOK(q)
        BY <2>5, <2>12, <3>2 DEF EvidenceInv
      <4> QED BY <1>1, <2>5, <2>6, <3>2, <4>1 DEF PhotoOK
    <3> QED BY <3>1, <3>2
  <2>13. \A q, r \in Photos : Kept(q)' /\ Kept(r)' /\ rows[q].active /\ rows[r].active
                                  /\ rows[q].meeting = rows[r].meeting => q = r
    <3> SUFFICES ASSUME NEW q \in Photos, NEW r \in Photos, Kept(q)', Kept(r)', rows[q].active, rows[r].active,
                        rows[q].meeting = rows[r].meeting, q # r
                 PROVE  FALSE
      OBVIOUS
    <3>1. q # p /\ r # p
      BY <2>3, <2>5, <2>6 DEF Kept
    <3>2. Kept(q) /\ Kept(r) /\ photo[q].active /\ photo[r].active /\ photo[q].meeting = photo[r].meeting
      BY <2>5, <2>6, <3>1 DEF Kept
    <3> QED BY <3>2 DEF EvidenceInv
  <2>14. \A q \in Photos : Kept(q) => Kept(q)'
    BY <1>3, <2>3, <2>5, <2>6 DEF Kept
  <2>15. ASSUME NEW m \in Meetings, NEW q \in Photos, submitted[m] = q PROVE rows[q].wiped \/ (rows[q].active /\ ~rows[q].deleted)
    <3>1. photo[q] # None /\ photo[q].meeting = m /\ (photo[q].wiped \/ (photo[q].active /\ ~photo[q].deleted))
      BY <2>15 DEF EvidenceInv
    <3>2. photo[p].meeting # m
      BY <1>5, <2>15, EvidenceAssumption DEF MayActivate, Draft
    <3>3. q # p
      BY <3>1, <3>2
    <3>4. rows[q] = photo[q]
      BY <2>5, <3>1, <3>2, <3>3
    <3> QED BY <3>1, <3>4
  <2>16. \A q \in Photos : photo[q] # None => rows[q] # None /\ rows[q].meeting = photo[q].meeting
    BY <2>3, <2>5
  <2> QED BY <1>1, <2>6, <2>7, <2>9, <2>10, <2>11, <2>12, <2>13, <2>14, <2>15, <2>16, RowsMove
<1>6. (photo' = photo /\ Onward(u, "mark")) \/ (MayActivate(p) /\ photo' = Activated(p) /\ Onward(u, "idle"))
  BY <1>2 DEF Activate
<1> QED BY <1>4, <1>5, <1>6

LEMMA EvidenceStep ==
    ASSUME "UNSURE" \notin Mishaps, EvidenceInv, [EvidenceNext]_evidenceVars
    PROVE  EvidenceInv'
<1>1. ASSUME NEW m \in Meetings, SubmitWithPhoto(m) PROVE EvidenceInv'
  <2>1. PICK p \in Photos : EvidenceShown(p, m) /\ submitted' = [submitted EXCEPT ![m] = p]
    BY <1>1 DEF SubmitWithPhoto
  <2>2. UNCHANGED <<photo, objects, late, upload>>
    BY <1>1 DEF SubmitWithPhoto
  <2>3. /\ submitted' \in [Meetings -> Photos \cup {None}]
        /\ \A n \in Meetings : submitted'[n] = IF n = m THEN p ELSE submitted[n]
    BY <2>1 DEF EvidenceInv
  <2>4. ASSUME NEW n \in Meetings, NEW q \in Photos, submitted'[n] = q
        PROVE  photo[q] # None /\ photo[q].meeting = n /\ (photo[q].wiped \/ (photo[q].active /\ ~photo[q].deleted))
    BY <2>1, <2>3, <2>4 DEF EvidenceInv, EvidenceShown, Kept
  <2>5. \A v \in Uploaders : UploadOK(upload[v])'
    BY <2>2 DEF EvidenceInv, UploadOK
  <2>6. \A q \in Photos : photo[q] # None => PhotoOK(q)'
    BY <2>2 DEF EvidenceInv, PhotoOK
  <2> QED BY <2>2, <2>3, <2>4, <2>5, <2>6 DEF EvidenceInv, NothingOrphaned, Kept
<1>2. ASSUME NEW p \in Photos, Arrives(p) PROVE EvidenceInv'
  <2>1. p \in late /\ late' = late \ {p} /\ objects' = objects \cup {p} /\ UNCHANGED <<submitted, photo, upload>>
    BY <1>2 DEF Arrives
  <2>2. \A v \in Uploaders : UploadOK(upload[v])'
    BY <2>1 DEF EvidenceInv, UploadOK
  <2>3. \A q \in Photos : photo[q] # None => PhotoOK(q)'
    BY <2>1 DEF EvidenceInv, PhotoOK
  <2>4. NothingOrphaned'
    BY <2>1 DEF EvidenceInv, NothingOrphaned, Kept
  <2> QED BY <2>1, <2>2, <2>3, <2>4 DEF EvidenceInv, Kept
<1>3. CASE UNCHANGED evidenceVars
  BY <1>3 DEF evidenceVars, EvidenceInv, UploadOK, PhotoOK, NothingOrphaned, Kept
<1> QED BY <1>1, <1>2, <1>3, StoreStep, ReserveStep, MarkStep, ActivateStep, AgeStep, CleanUpStep DEF EvidenceNext

\* Unless the answer to a commit is lost, a photo that the pages show can be opened, a submitted meeting keeps the
\* photo it was submitted with, and no object is without a row, whatever uploads fail, die or arrive late
\* (upload_evidence, cleanup_evidence).
THEOREM EvidenceIsSafe ==
    ASSUME "UNSURE" \notin Mishaps
    PROVE  EvidenceSpec => []EvidenceSafe
<1>1. EvidenceInv => EvidenceSafe
  <2> SUFFICES ASSUME EvidenceInv PROVE EvidenceSafe
    OBVIOUS
  <2>1. EvidenceTypeOK
    BY DEF EvidenceInv, EvidenceTypeOK, UploadRecords
  <2>2. ShownIsStored
    BY DEF EvidenceInv, ShownIsStored, EvidenceShown, Kept, PhotoOK, Retained, Removable
  <2>3. SubmittedKeepsPhoto
    BY DEF EvidenceInv, SubmittedKeepsPhoto
  <2> QED BY <2>1, <2>2, <2>3 DEF EvidenceInv, EvidenceSafe
<1>2. EvidenceInv /\ [EvidenceNext]_evidenceVars => EvidenceInv'
  BY EvidenceStep
<1> QED BY <1>1, <1>2, EvidenceStart, PTL DEF EvidenceSpec

(***************************************************************************)
(* ServiceInvitations: rows of invitations are never written over, and as  *)
(* long as nobody has accepted the charge of an item that somebody was     *)
(* asked to take, nobody can be asked to come along.                       *)
(***************************************************************************)
CareCallRecords == [op : {"none", "search", "invite", "record", "close", "accept", "adjust", "decline", "reply"},
                    id : Invitations \cup {0}, to : People \cup {None}, role : Roles \cup {None}]

\* Whom a call answers for is whom its invitation is addressed to.
CareCallOK(C) ==
    /\ IF C.op = "none" THEN C.role = None ELSE task # None
    /\ C.op \in {"search", "invite"} => C.to \in People /\ C.role \in Roles
    /\ C.op \in {"accept", "adjust", "decline", "reply"} => C.id \in Invitations /\ Sent(C.id)
    /\ C.op = "accept" => invitation[C.id].to = C.to /\ invitation[C.id].role = C.role
    /\ C.op = "close" => task.recorded

Uncharged == \A p \in People : <<p, "ASSIGNEE">> \notin partner
\* The item waits for somebody who was asked to take charge of it.
Awaiting == task # None /\ Uncharged /\ task.named = None
Alone ==
    /\ \A i \in Invitations : Sent(i) => invitation[i].role = "ASSIGNEE"
    /\ \A c \in CareCalls : careCall[c].role # "COMPANION"
    /\ partner = {}

Numbered == \E k \in Nat : \A i \in Invitations : Sent(i) <=> i <= k

CareInv ==
    /\ task \in {None} \cup Task /\ invitation \in [Invitations -> {None} \cup InvitationRow]
    /\ partner \subseteq People \X Roles /\ careCall \in [CareCalls -> CareCallRecords]
    /\ task = None => partner = {} /\ \A i \in Invitations : ~Sent(i)
    /\ Numbered
    /\ \A c \in CareCalls : CareCallOK(careCall[c])
    /\ AcceptedTakesPart
    /\ task # None /\ task.status # "OPEN" => task.recorded
    /\ task # None /\ Uncharged /\ task.named # None => task.assignee = task.named
    /\ Awaiting => Alone /\ \E i \in Invitations : Sent(i) /\ invitation[i].to = task.assignee

LEMMA CareStart == CareInit => CareInv
<1> SUFFICES ASSUME CareInit PROVE CareInv
  OBVIOUS
<1>1. NoCareCall \in CareCallRecords /\ NoCareCall.op = "none" /\ NoCareCall.role = None
  BY DEF NoCareCall, CareCallRecords
<1>2. \A i \in Invitations : invitation[i] = None /\ i \in Nat /\ i >= 1
  BY InvitationAssumption DEF CareInit
<1>3. Numbered
  <2>1. \A i \in Invitations : Sent(i) <=> i <= 0
    BY <1>2 DEF Sent
  <2> QED BY <2>1 DEF Numbered
<1>4. \A c \in CareCalls : careCall[c] = NoCareCall /\ CareCallOK(careCall[c])
  BY <1>1 DEF CareInit, CareCallOK
<1>5. AcceptedTakesPart
  BY <1>2 DEF CareInit, AcceptedTakesPart, Sent
<1> QED BY <1>1, <1>2, <1>3, <1>4, <1>5 DEF CareInit, CareInv, Awaiting, Sent

\* A set of numbers below a bound that is not empty has a highest one.
LEMMA HighestExists ==
    ASSUME NEW bound \in Nat, NEW S, S \subseteq 1 .. bound, S # {}
    PROVE  \E i \in S : \A j \in S : j <= i
<1>0. \E j \in S : j \in Nat /\ j # 0
  <2>1. PICK j : j \in S
    OBVIOUS
  <2>2. j \in 1 .. bound
    BY <2>1
  <2> QED BY <2>1, <2>2
<1> DEFINE Above == {n \in Nat : \A j \in S : j <= n}
           Smaller == {ss \in Nat \X Nat : ss[1] < ss[2]}
<1>1. bound \in Above /\ Above \in SUBSET Nat
  OBVIOUS
<1>2. IsWellFoundedOn(Smaller, Nat)
  BY NatLessThanWellFounded DEF OpToRel
<1>3. PICK n \in Above : \A m \in Above : ~(<<m, n>> \in Smaller)
  <2> HIDE DEF Above
  <2> QED BY <1>1, <1>2, WFMin
<1>4. CASE n \in S
  BY <1>4
<1>5. CASE n \notin S
  <2>1. n # 0 /\ \A j \in S : j \in Nat /\ j <= n /\ j # n
    <3>1. \A j \in S : j \in Nat /\ j <= n /\ j # n
      BY <1>5
    <3> QED BY <1>0, <3>1
  <2>2. n - 1 \in Above
    <3>1. n \in Nat /\ n - 1 \in Nat /\ \A j \in S : j <= n - 1
      BY <2>1
    <3> QED BY <3>1
  <2>3. <<n - 1, n>> \in Smaller
    BY <2>1
  <2> QED BY <1>3, <2>2, <2>3
<1> QED BY <1>4, <1>5

\* The next number is one that no row has.
LEMMA NextIsFree == CareInv /\ NextFree \in Invitations => ~Sent(NextFree) /\ \A i \in Invitations : Sent(i) <=> i < NextFree
<1> SUFFICES ASSUME CareInv, NextFree \in Invitations
             PROVE  \A i \in Invitations : Sent(i) <=> i < NextFree
  BY InvitationAssumption
<1>1. PICK bound \in Invitations : Invitations = 1 .. bound /\ bound \in Nat
  BY InvitationAssumption
<1>2. PICK k \in Nat : \A i \in Invitations : Sent(i) <=> i <= k
  BY DEF CareInv, Numbered
<1>3. PICK h \in Nat : h <= bound /\ \A i \in Invitations : Sent(i) <=> i <= h
  <2>1. CASE k <= bound
    BY <1>2, <2>1
  <2>2. CASE k > bound
    BY <1>1, <1>2, <2>2
  <2> QED BY <1>1, <2>1, <2>2
<1>4. {i \in Invitations : Sent(i)} = 1 .. h
  BY <1>1, <1>3
<1>5. Cardinality(1 .. h) = h
  BY FS_Interval
<1>6. NextFree = h + 1
  BY <1>4, <1>5 DEF NextFree
<1> QED BY <1>1, <1>3, <1>6

\* A call reads, or ends without a write.
LEMMA CareCallMoves ==
    ASSUME CareInv, NEW c \in CareCalls, NEW C \in CareCallRecords, CareCallOK(C),
           C.role = "COMPANION" => ~Awaiting,
           careCall' = [careCall EXCEPT ![c] = C], UNCHANGED <<task, invitation, partner>>
    PROVE  CareInv'
<1>1. careCall' \in [CareCalls -> CareCallRecords] /\ \A d \in CareCalls : careCall'[d] = IF d = c THEN C ELSE careCall[d]
  BY DEF CareInv
<1>2. \A d \in CareCalls : CareCallOK(careCall[d])'
  BY <1>1 DEF CareInv, CareCallOK, Sent
<1>3. Awaiting' <=> Awaiting
  BY DEF Awaiting, Uncharged
<1>4. Awaiting => Alone'
  BY <1>1 DEF CareInv, Alone, Sent
<1>5. Numbered' /\ AcceptedTakesPart'
  BY DEF CareInv, Numbered, AcceptedTakesPart, Sent
<1> QED BY <1>1, <1>2, <1>3, <1>4, <1>5 DEF CareInv, Sent, Uncharged

\* An invitation is answered, lapses, or is sent under a number that is free.
LEMMA InvitationIsWritten ==
    ASSUME CareInv, NEW i \in Invitations, NEW I \in InvitationRow, invitation' = [invitation EXCEPT ![i] = I], task # None,
           Sent(i) => I.to = invitation[i].to /\ I.role = invitation[i].role,
           ~Sent(i) => i = NextFree /\ (I.role = "COMPANION" => ~Awaiting),
           I.status = "ACCEPTED" => <<I.to, I.role>> \in partner',
           careCall' \in [CareCalls -> CareCallRecords],
           \A d \in CareCalls : careCall'[d] \in {careCall[d], NoCareCall},
           \/ UNCHANGED <<task, partner>>
           \/ /\ Sent(i) /\ partner' = partner \cup {<<I.to, I.role>>}
              /\ task' = IF I.role = "ASSIGNEE" THEN [task EXCEPT !.assignee = I.to] ELSE task
    PROVE  CareInv'
<1>1. /\ invitation' \in [Invitations -> {None} \cup InvitationRow]
      /\ \A j \in Invitations : invitation'[j] = IF j = i THEN I ELSE invitation[j]
  BY DEF CareInv
<1>2. I # None /\ I.to \in People /\ I.role \in Roles
  BY InvitationAssumption DEF InvitationRow
<1>3. /\ task \in Task /\ task' \in Task /\ task' # None
      /\ task'.status = task.status /\ task'.recorded = task.recorded /\ task'.named = task.named
  BY <1>2, InvitationAssumption DEF CareInv, Task
<1>4. \A j \in Invitations : Sent(j)' <=> j = i \/ Sent(j)
  BY <1>1, <1>2 DEF Sent
<1>5. \A j \in Invitations : Sent(j) => Sent(j)' /\ invitation'[j].to = invitation[j].to /\ invitation'[j].role = invitation[j].role
  BY <1>1, <1>4
<1>6. partner \subseteq partner' /\ partner' \subseteq People \X Roles
  BY <1>2 DEF CareInv
<1>7. Numbered'
  <2>1. CASE Sent(i)
    BY <1>4, <2>1 DEF CareInv, Numbered
  <2>2. CASE ~Sent(i)
    <3>1. i \in Nat /\ \A j \in Invitations : j \in Nat /\ (Sent(j) <=> j < i)
      BY <2>2, NextIsFree, InvitationAssumption
    <3>2. \A j \in Invitations : Sent(j)' <=> j <= i
      BY <1>4, <3>1
    <3> QED BY <3>1, <3>2 DEF Numbered
  <2> QED BY <2>1, <2>2
<1>8. ASSUME NEW d \in CareCalls PROVE CareCallOK(careCall[d])'
  <2>1. CASE careCall'[d] = NoCareCall
    BY <2>1 DEF NoCareCall, CareCallOK
  <2>2. CASE careCall'[d] = careCall[d]
    BY <1>3, <1>5, <2>2 DEF CareInv, CareCallOK
  <2> QED BY <2>1, <2>2
<1>9. AcceptedTakesPart'
  <2>1. \A j \in Invitations : Sent(j)' /\ invitation'[j].status = "ACCEPTED" => <<invitation'[j].to, invitation'[j].role>> \in partner'
    BY <1>1, <1>4, <1>6 DEF CareInv, AcceptedTakesPart
  <2>2. CASE UNCHANGED <<task, partner>>
    BY <2>1, <2>2 DEF CareInv, AcceptedTakesPart
  <2>3. CASE /\ partner' = partner \cup {<<I.to, I.role>>}
             /\ task' = IF I.role = "ASSIGNEE" THEN [task EXCEPT !.assignee = I.to] ELSE task
    <3>1. CASE I.role = "ASSIGNEE"
      <4>1. task'.assignee = I.to
        BY <1>3, <2>3, <3>1 DEF Task
      <4> QED BY <2>1, <2>3, <3>1, <4>1 DEF AcceptedTakesPart
    <3>2. CASE I.role # "ASSIGNEE"
      BY <2>1, <2>3, <3>2 DEF CareInv, AcceptedTakesPart
    <3> QED BY <3>1, <3>2
  <2> QED BY <2>2, <2>3
<1>10. Uncharged' => Uncharged /\ task'.assignee = task.assignee
  BY <1>2, <1>6 DEF Uncharged
<1>11. Awaiting' => Awaiting
  BY <1>3, <1>10 DEF Awaiting
<1>12. Awaiting' => Alone'
  <2> SUFFICES ASSUME Awaiting', Awaiting, Alone PROVE Alone'
    BY <1>11 DEF CareInv
  <2>1. I.role = "ASSIGNEE"
    BY <1>2 DEF Roles, Alone
  <2>2. \A j \in Invitations : Sent(j)' => invitation'[j].role = "ASSIGNEE"
    BY <1>1, <1>4, <2>1 DEF Alone
  <2>3. <<I.to, "ASSIGNEE">> \notin partner'
    BY <1>2 DEF Awaiting, Uncharged
  <2>4. partner' = {}
    BY <2>1, <2>3 DEF Alone
  <2>5. \A d \in CareCalls : careCall'[d].role # "COMPANION"
    BY InvitationAssumption DEF Alone, NoCareCall, Roles
  <2> QED BY <2>2, <2>4, <2>5 DEF Alone
<1>13. Awaiting' => \E j \in Invitations : Sent(j)' /\ invitation'[j].to = task'.assignee
  BY <1>5, <1>10, <1>11 DEF CareInv, Awaiting
<1>14. Uncharged' /\ task'.named # None => task'.assignee = task'.named
  BY <1>3, <1>10 DEF CareInv
<1> QED BY <1>1, <1>3, <1>6, <1>7, <1>8, <1>9, <1>12, <1>13, <1>14 DEF CareInv

\* The item as it stands, when only its status moves on.
LEMMA TaskMoves ==
    ASSUME CareInv, NEW c \in CareCalls, NEW T \in Task, task # None, task' = T,
           T.assignee = task.assignee, T.named = task.named, T.recorded,
           careCall' = [careCall EXCEPT ![c] = NoCareCall], UNCHANGED <<invitation, partner>>
    PROVE  CareInv'
<1>1. /\ careCall' \in [CareCalls -> CareCallRecords]
      /\ \A d \in CareCalls : careCall'[d] = IF d = c THEN NoCareCall ELSE careCall[d]
  BY DEF CareInv, NoCareCall, CareCallRecords
<1>2. \A d \in CareCalls : CareCallOK(careCall[d])'
  BY <1>1, InvitationAssumption DEF CareInv, CareCallOK, Sent, NoCareCall
<1>3. Awaiting' => Awaiting
  BY DEF Awaiting, Uncharged
<1>4. Awaiting => Alone'
  BY <1>1, InvitationAssumption DEF CareInv, Alone, Sent, NoCareCall, Roles
<1>5. Numbered' /\ AcceptedTakesPart' /\ (Uncharged' <=> Uncharged)
  BY DEF CareInv, Numbered, AcceptedTakesPart, Sent, Uncharged
<1>6. task' # None
  BY InvitationAssumption
<1> QED BY <1>1, <1>2, <1>3, <1>4, <1>5, <1>6 DEF CareInv, Sent

\* While the item waits for somebody's answer, nobody is in charge.
LEMMA AwaitingHasNoPrimary == CareInv /\ Awaiting => \A p \in People : ~AcceptedPrimary(p) /\ ~InCharge(p)
<1> SUFFICES ASSUME CareInv, Awaiting, NEW p \in People PROVE ~AcceptedPrimary(p) /\ ~InCharge(p)
  OBVIOUS
<1>1. Alone /\ (task.assignee = p => Invited(p, "ASSIGNEE") # {})
  BY DEF CareInv, Invited, Alone
<1>2. ~InCharge(p)
  BY <1>1 DEF InCharge, TakesPart, Alone
<1>3. ASSUME Invited(p, "ASSIGNEE") # {} PROVE invitation[Latest(Invited(p, "ASSIGNEE"))].status # "ACCEPTED"
  <2> DEFINE asked == Invited(p, "ASSIGNEE")
  <2>1. PICK bound \in Nat : asked \subseteq 1 .. bound
    BY InvitationAssumption DEF Invited
  <2>2. \E i \in asked : \A j \in asked : j <= i
    BY <1>3, <2>1, HighestExists
  <2>3. Latest(asked) \in asked
    BY <2>2 DEF Latest
  <2>4. \A i \in asked : invitation[i].status # "ACCEPTED"
    BY DEF Invited, CareInv, AcceptedTakesPart, Awaiting, Uncharged
  <2> QED BY <2>3, <2>4
<1>4. ~AcceptedPrimary(p)
  BY <1>1, <1>3 DEF AcceptedPrimary
<1> QED BY <1>2, <1>4

LEMMA CareCallTypes ==
    ASSUME CareInv, NEW c \in CareCalls, careCall' = [careCall EXCEPT ![c] = NoCareCall]
    PROVE  /\ careCall' \in [CareCalls -> CareCallRecords]
           /\ \A d \in CareCalls : careCall'[d] \in {careCall[d], NoCareCall}
BY DEF CareInv, NoCareCall, CareCallRecords

LEMMA CreateStep ==
    ASSUME CareInv, NEW p \in People, NEW inviting \in BOOLEAN, CreateTask(p, inviting)
    PROVE  CareInv'
<1>0. PICK named \in People \cup {None} : IF inviting THEN named = None ELSE named = p
  BY Zenon
<1>1. PICK T : T = [status |-> "OPEN", assignee |-> p, recorded |-> FALSE, named |-> named]
  OBVIOUS
<1>2. /\ T \in Task /\ T # None /\ T.status = "OPEN" /\ T.assignee = p /\ (T.named = None <=> inviting)
      /\ T.named # None => T.named = p
  <2>1. T \in Task /\ T.status = "OPEN" /\ T.assignee = p /\ T.named = named
    BY <1>1 DEF Task, OpenStates
  <2> QED BY <1>0, <2>1, InvitationAssumption
<1>3. /\ task = None /\ task' = T /\ UNCHANGED <<partner, careCall>>
      /\ invitation' = IF inviting THEN [invitation EXCEPT ![1] = NewInvitation(p, "ASSIGNEE")] ELSE invitation
  BY <1>0, <1>1 DEF CreateTask
<1>4. 1 \in Invitations /\ \A i \in Invitations : i \in Nat /\ (i <= 1 <=> i = 1)
  BY InvitationAssumption
<1>5. PICK I : I = NewInvitation(p, "ASSIGNEE")
  OBVIOUS
<1>6. I \in InvitationRow /\ I # None /\ I.to = p /\ I.role = "ASSIGNEE" /\ I.status = "PENDING"
  <2>1. I \in InvitationRow /\ I.to = p /\ I.role = "ASSIGNEE" /\ I.status = "PENDING"
    BY <1>5 DEF NewInvitation, InvitationRow, Roles
  <2> QED BY <2>1, InvitationAssumption
<1>7. /\ invitation' \in [Invitations -> {None} \cup InvitationRow]
      /\ \A i \in Invitations : invitation'[i] = IF inviting /\ i = 1 THEN I ELSE invitation[i]
  BY <1>3, <1>5, <1>6 DEF CareInv
<1>8. \A i \in Invitations : ~Sent(i) /\ (Sent(i)' <=> inviting /\ i = 1)
  BY <1>3, <1>6, <1>7 DEF CareInv, Sent
<1>9. Numbered'
  <2>1. CASE inviting
    BY <1>4, <1>8, <2>1 DEF Numbered
  <2>2. CASE ~inviting
    <3>1. \A i \in Invitations : Sent(i)' <=> i <= 0
      BY <1>8, <2>2, InvitationAssumption
    <3> QED BY <3>1 DEF Numbered
  <2> QED BY <2>1, <2>2
<1>10. \A c \in CareCalls : careCall[c].op = "none" /\ careCall[c] \in CareCallRecords /\ CareCallOK(careCall[c])'
  <2>1. \A c \in CareCalls : careCall[c].op = "none"
    BY <1>3 DEF CareInv, CareCallOK
  <2> QED BY <1>3, <2>1 DEF CareInv, CareCallOK
<1>11. AcceptedTakesPart'
  BY <1>3, <1>6, <1>7, <1>8 DEF CareInv, AcceptedTakesPart
<1>12. Awaiting' => Alone' /\ \E i \in Invitations : Sent(i)' /\ invitation'[i].to = task'.assignee
  <2> SUFFICES ASSUME inviting PROVE Alone' /\ \E i \in Invitations : Sent(i)' /\ invitation'[i].to = task'.assignee
    BY <1>2, <1>3 DEF Awaiting
  <2>1. Alone'
    <3>1. \A c \in CareCalls : careCall'[c].role # "COMPANION"
      BY <1>3, <1>10, InvitationAssumption DEF CareInv, CareCallOK, Roles
    <3> QED BY <1>3, <1>6, <1>7, <1>8, <3>1 DEF CareInv, Alone
  <2> QED BY <1>2, <1>3, <1>4, <1>6, <1>7, <1>8, <2>1
<1> QED BY <1>2, <1>3, <1>7, <1>9, <1>10, <1>11, <1>12 DEF CareInv

\* The calls that read.
LEMMA CareReadStep ==
    ASSUME CareInv, NEW c \in CareCalls,
           \/ SearchActive(c) \/ InvitationFails(c)
           \/ \E p \in People : StartRecord(c, p) \/ StartClose(c, p)
           \/ \E p \in People, role \in Roles : StartInvitation(c, p, role)
           \/ \E i \in Invitations : StartReply(c, i) \/ \E op \in {"accept", "adjust", "decline"} : StartResponse(c, i, op)
    PROVE  CareInv'
<1>0. NoCareCall \in CareCallRecords /\ CareCallOK(NoCareCall) /\ NoCareCall.role # "COMPANION"
  BY InvitationAssumption DEF NoCareCall, CareCallRecords, CareCallOK, Roles
<1>1. CASE SearchActive(c)
  <2>1. PICK C : C = [careCall[c] EXCEPT !.op = "invite"]
    OBVIOUS
  <2>2. /\ careCall' = [careCall EXCEPT ![c] = C] /\ UNCHANGED <<task, invitation, partner>>
        /\ careCall[c] \in CareCallRecords /\ CareCallOK(careCall[c]) /\ careCall[c].op = "search"
    BY <1>1, <2>1 DEF SearchActive, Reads, Asking, CareInv
  <2>3. C \in CareCallRecords /\ CareCallOK(C) /\ C.role = careCall[c].role
    BY <2>1, <2>2 DEF CareCallRecords, CareCallOK
  <2>4. C.role = "COMPANION" => ~Awaiting
    BY <2>3 DEF CareInv, Alone
  <2> QED BY <2>2, <2>3, <2>4, CareCallMoves
<1>2. CASE InvitationFails(c)
  BY <1>0, <1>2, CareCallMoves DEF InvitationFails, Ends
<1>3. ASSUME NEW p \in People, StartRecord(c, p) \/ StartClose(c, p) PROVE CareInv'
  <2>0. PICK op : op \in {"record", "close"} /\ (op = "record" <=> StartRecord(c, p))
    BY Zenon
  <2>1. PICK C :
          /\ C = [NoCareCall EXCEPT !.op = op] /\ careCall' = [careCall EXCEPT ![c] = C]
          /\ UNCHANGED <<task, invitation, partner>> /\ task # None /\ (op = "close" => task.recorded)
    BY <1>3, <2>0 DEF StartRecord, StartClose, Reads, Idle, Closable
  <2>2. C \in CareCallRecords /\ CareCallOK(C) /\ C.role # "COMPANION"
    BY <2>0, <2>1, InvitationAssumption DEF CareCallRecords, CareCallOK, NoCareCall, Roles
  <2> QED BY <2>1, <2>2, CareCallMoves
<1>4. ASSUME NEW p \in People, NEW role \in Roles, StartInvitation(c, p, role) PROVE CareInv'
  <2>1. PICK C : C = [op |-> "search", id |-> 0, to |-> p, role |-> role]
    OBVIOUS
  <2>2. /\ careCall' = [careCall EXCEPT ![c] = C] /\ UNCHANGED <<task, invitation, partner>> /\ task # None
        /\ role = "COMPANION" => \E actor \in People : AcceptedPrimary(actor)
    BY <1>4, <2>1 DEF StartInvitation, Reads, Idle
  <2>3. C \in CareCallRecords /\ CareCallOK(C) /\ C.role = role
    BY <2>1, <2>2 DEF CareCallRecords, CareCallOK
  <2>4. C.role = "COMPANION" => ~Awaiting
    BY <2>2, <2>3, AwaitingHasNoPrimary
  <2> QED BY <2>2, <2>3, <2>4, CareCallMoves
<1>5. ASSUME NEW i \in Invitations, StartReply(c, i) PROVE CareInv'
  <2>1. PICK C : C = [NoCareCall EXCEPT !.op = "reply", !.id = i]
    OBVIOUS
  <2>2. careCall' = [careCall EXCEPT ![c] = C] /\ UNCHANGED <<task, invitation, partner>> /\ task # None /\ Sent(i)
    BY <1>5, <2>1 DEF StartReply, Reads, Idle
  <2>3. C \in CareCallRecords /\ CareCallOK(C) /\ C.role # "COMPANION"
    BY <2>1, <2>2, InvitationAssumption DEF CareCallRecords, CareCallOK, NoCareCall, Roles
  <2> QED BY <2>2, <2>3, CareCallMoves
<1>6. ASSUME NEW i \in Invitations, NEW op \in {"accept", "adjust", "decline"}, StartResponse(c, i, op) PROVE CareInv'
  <2>1. PICK C : C = [op |-> op, id |-> i, to |-> invitation[i].to, role |-> invitation[i].role]
    OBVIOUS
  <2>2. careCall' = [careCall EXCEPT ![c] = C] /\ UNCHANGED <<task, invitation, partner>> /\ task # None /\ Sent(i)
    BY <1>6, <2>1 DEF StartResponse, Reads, Idle
  <2>3. invitation[i] \in InvitationRow
    BY <2>2 DEF CareInv, Sent
  <2>4. C \in CareCallRecords /\ CareCallOK(C) /\ C.role = invitation[i].role
    BY <2>1, <2>2, <2>3 DEF CareCallRecords, CareCallOK, InvitationRow
  <2>5. C.role = "COMPANION" => ~Awaiting
    BY <2>2, <2>4 DEF CareInv, Alone
  <2> QED BY <2>2, <2>4, <2>5, CareCallMoves
<1> QED BY <1>1, <1>2, <1>3, <1>4, <1>5, <1>6

\* The calls that write.
LEMMA CareWriteStep ==
    ASSUME CareInv, NEW c \in CareCalls,
           InsertInvitation(c) \/ Accept(c) \/ AnswerOtherwise(c) \/ AddRecord(c) \/ CloseTask(c)
    PROVE  CareInv'
<1>1. PICK C \in CareCallRecords : C = careCall[c] /\ CareCallOK(C)
  BY DEF CareInv
<1>2. C.op # "none" => task \in Task /\ task # None
  BY <1>1 DEF CareCallOK, CareInv
<1>3. CASE InsertInvitation(c)
  <2>1. PICK i \in Invitations : i = NextFree
    BY <1>3 DEF InsertInvitation
  <2>2. PICK I : I = NewInvitation(C.to, C.role)
    OBVIOUS
  <2>3. C.op = "invite" /\ invitation' = [invitation EXCEPT ![i] = I] /\ Ends(c) /\ UNCHANGED <<task, partner>>
    BY <1>1, <1>3, <2>1, <2>2 DEF InsertInvitation, Asking
  <2>4. I \in InvitationRow /\ I.role = C.role /\ I.status = "PENDING"
    BY <1>1, <2>2, <2>3 DEF CareCallOK, NewInvitation, InvitationRow
  <2>5. ~Sent(i)
    BY <2>1, NextIsFree
  <2>6. I.role = "COMPANION" => ~Awaiting
    BY <1>1, <2>4 DEF CareInv, Alone
  <2> QED BY <1>2, <2>1, <2>3, <2>4, <2>5, <2>6, CareCallTypes, InvitationIsWritten DEF Ends
<1>4. CASE Accept(c) \/ AnswerOtherwise(c)
  <2>1. C.op \in {"accept", "adjust", "decline", "reply"} /\ Marked(c) /\ Ends(c)
    BY <1>1, <1>4 DEF Accept, AnswerOtherwise, Asking
  <2>2. PICK i \in Invitations : i = C.id /\ Sent(i)
    BY <1>1, <2>1 DEF CareCallOK
  <2>3. PICK s : s = Answered[C.op]
    OBVIOUS
  <2>4. s \in {"PENDING", "ACCEPTED", "ADJUSTMENT_REQUESTED", "UNAVAILABLE"} /\ (s = "ACCEPTED" => C.op = "accept")
    BY <2>1, <2>3 DEF Answered
  <2>5. PICK I : I = [invitation[i] EXCEPT !.status = s]
    OBVIOUS
  <2>6. invitation[i] \in InvitationRow
    BY <2>2 DEF CareInv, Sent
  <2>7. I \in InvitationRow /\ I.to = invitation[i].to /\ I.role = invitation[i].role /\ I.status = s
    BY <2>4, <2>5, <2>6 DEF InvitationRow
  <2>8. invitation' = [invitation EXCEPT ![i] = I]
    BY <1>1, <2>1, <2>2, <2>3, <2>5 DEF Marked
  <2>9. CASE Accept(c)
    <3>1. I.to = C.to /\ I.role = C.role
      BY <1>1, <2>2, <2>7, <2>9 DEF CareCallOK, Accept, Asking
    <3>2. /\ partner' = partner \cup {<<I.to, I.role>>}
          /\ task' = IF I.role = "ASSIGNEE" THEN [task EXCEPT !.assignee = I.to] ELSE task
      BY <1>1, <2>9, <3>1 DEF Accept
    <3>3. <<I.to, I.role>> \in partner'
      BY <3>2
    <3> QED BY <1>2, <2>1, <2>2, <2>7, <2>8, <3>2, <3>3, CareCallTypes, InvitationIsWritten DEF Ends
  <2>10. CASE AnswerOtherwise(c)
    <3>1. UNCHANGED <<task, partner>> /\ I.status # "ACCEPTED"
      BY <1>1, <2>4, <2>7, <2>10 DEF AnswerOtherwise
    <3> QED BY <1>2, <2>1, <2>2, <2>7, <2>8, <3>1, CareCallTypes, InvitationIsWritten DEF Ends
  <2> QED BY <1>4, <2>9, <2>10
<1>5. CASE AddRecord(c)
  <2>1. PICK T : T = [task EXCEPT !.status = "IN_PROGRESS", !.recorded = TRUE]
    OBVIOUS
  <2>2. task \in Task /\ task # None /\ task' = T /\ Ends(c) /\ UNCHANGED <<invitation, partner>>
    BY <1>1, <1>2, <1>5, <2>1 DEF AddRecord, Asking
  <2>3. T \in Task /\ T.assignee = task.assignee /\ T.named = task.named /\ T.recorded
    BY <2>1, <2>2 DEF Task, OpenStates
  <2> QED BY <2>2, <2>3, TaskMoves DEF Ends
<1>6. CASE CloseTask(c)
  <2>1. PICK T : T = [task EXCEPT !.status = "CLOSED"]
    OBVIOUS
  <2>2. task \in Task /\ task # None /\ task.recorded /\ task' = T /\ Ends(c) /\ UNCHANGED <<invitation, partner>>
    BY <1>1, <1>2, <1>6, <2>1 DEF CloseTask, Asking, CareCallOK
  <2>3. T \in Task /\ T.assignee = task.assignee /\ T.named = task.named /\ T.recorded
    BY <2>1, <2>2 DEF Task, OpenStates
  <2> QED BY <2>2, <2>3, TaskMoves DEF Ends
<1> QED BY <1>3, <1>4, <1>5, <1>6

LEMMA CareStep == CareInv /\ [CareNext]_careVars => CareInv'
<1> SUFFICES ASSUME CareInv, [CareNext]_careVars PROVE CareInv'
  OBVIOUS
<1>1. ASSUME NEW i \in Invitations, InvitationLapses(i) PROVE CareInv'
  <2>1. PICK I : I = [invitation[i] EXCEPT !.lapsed = TRUE]
    OBVIOUS
  <2>2. Sent(i) /\ invitation' = [invitation EXCEPT ![i] = I] /\ UNCHANGED <<task, partner, careCall>>
    BY <1>1, <2>1 DEF InvitationLapses
  <2>3. invitation[i] \in InvitationRow /\ task # None
    BY <2>2 DEF CareInv, Sent
  <2>4. I \in InvitationRow /\ I.to = invitation[i].to /\ I.role = invitation[i].role /\ I.status = invitation[i].status
    BY <2>1, <2>3 DEF InvitationRow
  <2>5. I.status = "ACCEPTED" => <<I.to, I.role>> \in partner'
    BY <2>2, <2>4 DEF CareInv, AcceptedTakesPart
  <2>6. careCall' \in [CareCalls -> CareCallRecords] /\ \A d \in CareCalls : careCall'[d] \in {careCall[d], NoCareCall}
    BY <2>2 DEF CareInv
  <2> QED BY <2>2, <2>3, <2>4, <2>5, <2>6, InvitationIsWritten
<1>2. CASE UNCHANGED careVars
  BY <1>2 DEF careVars, CareInv, CareCallOK, Awaiting, Alone, Uncharged, Numbered, AcceptedTakesPart, Sent
<1> QED BY <1>1, <1>2, CreateStep, CareReadStep, CareWriteStep DEF CareNext

\* Nobody is in charge of an item who has not agreed to it, an accepted invitation makes its person a partner in the
\* role it names, and a closed item has a record, however many calls answer, invite and record at the same time from
\* what they read before (create_invitation, the answers, add_followup_record, close_task).
THEOREM CareIsSafe == CareSpec => []CareSafe
<1>1. CareInv => CareSafe
  <2> SUFFICES ASSUME CareInv PROVE CareSafe
    OBVIOUS
  <2>1. CareTypeOK
    <3>1. DOMAIN Answered = {"accept", "adjust", "decline", "reply"}
      BY DEF Answered
    <3> QED BY <3>1 DEF CareInv, CareTypeOK, CareCallRecords
  <2>2. InChargeHasAgreed
    <3> SUFFICES ASSUME task # None, NEW p \in People, InCharge(p) PROVE <<p, "ASSIGNEE">> \in partner \/ p = task.named
      BY DEF InChargeHasAgreed
    <3>1. p = task.assignee
      BY DEF InCharge
    <3>2. CASE ~Uncharged
      BY <3>1, <3>2 DEF CareInv, AcceptedTakesPart, Uncharged
    <3>3. CASE Uncharged
      BY <3>1, <3>3, AwaitingHasNoPrimary DEF CareInv, Awaiting
    <3> QED BY <3>2, <3>3
  <2>3. ClosedHasRecord
    BY DEF CareInv, CareCallOK, ClosedHasRecord, Asking
  <2> QED BY <2>1, <2>2, <2>3 DEF CareInv, CareSafe
<1> QED BY <1>1, CareStart, CareStep, PTL DEF CareSpec

(***************************************************************************)
(* OperationRhythm: the month of a class, whatever calls overlap.          *)
(***************************************************************************)
\* A row that people have touched is as they left it, but for the date of the meeting; another one has a date or is
\* pending.
RowOK(i, row, hand) ==
    IF row = None THEN hand = None
    ELSE /\ row \in ItemRows
         /\ IF row.manual THEN hand # None /\ row.status = hand[1] /\ (i # "meeting" => row.due = hand[2])
            ELSE hand = None /\ (row.status = "PENDING" <=> row.due = None)

\* What a view has seen is still there: rows stay, and stay touched.
SeenStands(seen) ==
    \A i \in Items : /\ seen[i] \in {"none", "manual", "untouched"}
                     /\ seen[i] # "none" => item[i] # None
                     /\ seen[i] = "manual" => item[i].manual
MonthCallOK(C) ==
    /\ C.op \in {"none", "generate", "calendar", "edit", "care", "fact"}
    /\ C.op = "none" => C = NoRhythmCall
    /\ C.op \in {"generate", "calendar"} => C.day \in Days \cup {None} /\ C.offset \in {0, 1} /\ SeenStands(C.seen)
    /\ C.op = "generate" => C.of \in SUBSET Items /\ "meeting" \in C.of
    /\ C.op = "edit" => C.id \in Items /\ C.status \in ItemStatuses /\ C.day \in Dates /\ item[C.id] # None
    /\ C.op = "care" => item["birthday"] # None /\ C.status # "COMPLETED"

\* A call that is alone works on what it has seen.
Fresh(C) ==
    /\ C.op = "generate" => C.day = calendar
    /\ C.op = "calendar" /\ C.seen["meeting"] = "none" => item["meeting"] = None
    /\ C.op = "calendar" /\ C.seen["meeting"] = "untouched" => ~item["meeting"].manual
    /\ C.op = "edit" /\ C.id = "meeting" => C.day = item["meeting"].due
AloneIsFresh ==
    ~met => \A c \in RhythmCalls :
               /\ Fresh(rhythmCall[c])
               /\ \A d \in RhythmCalls : rhythmCall[c].op # "none" /\ rhythmCall[d].op # "none" => c = d

MonthInv ==
    /\ calendar \in Days \cup {None} /\ offset \in {0, 1} /\ cared \in BOOLEAN /\ met \in BOOLEAN
    /\ told \in Nat /\ raced \in BOOLEAN
    /\ item \in [Items -> ItemRows \cup {None}]
    /\ byHand \in [Items -> (ItemStatuses \X Dates) \cup {None}]
    /\ rhythmCall = [c \in RhythmCalls |-> rhythmCall[c]]
    /\ \A i \in Items : RowOK(i, item[i], byHand[i])
    /\ \A c \in RhythmCalls : MonthCallOK(rhythmCall[c])
    /\ AloneIsFresh
    /\ BirthdayOnce
    /\ MeetingFollowsCalendar

LEMMA MonthBegins == RhythmInit => MonthInv
<1> SUFFICES ASSUME RhythmInit PROVE MonthInv
  OBVIOUS
<1>1. \A i \in Items : RowOK(i, item[i], byHand[i])
  BY DEF RhythmInit, RowOK
<1>2. \A c \in RhythmCalls : MonthCallOK(rhythmCall[c])
  BY DEF RhythmInit, MonthCallOK, NoRhythmCall
<1>3. AloneIsFresh
  BY DEF RhythmInit, AloneIsFresh, Fresh, NoRhythmCall
<1>4. BirthdayOnce /\ MeetingFollowsCalendar
  BY DEF RhythmInit, BirthdayOnce, MeetingFollowsCalendar, HasCycle, Items
<1>5. rhythmCall = [c \in RhythmCalls |-> rhythmCall[c]]
  BY DEF RhythmInit
<1> QED BY <1>1, <1>2, <1>3, <1>4, <1>5 DEF RhythmInit, MonthInv

LEMMA MonthIsEnough == MonthInv => MonthSafe
<1> SUFFICES ASSUME MonthInv PROVE MonthSafe
  OBVIOUS
<1>1. BirthdayOnce /\ MeetingFollowsCalendar
  BY DEF MonthInv
<1>2. RhythmTypeOK
  BY <1>1 DEF MonthInv, RhythmTypeOK, RowOK, BirthdayOnce
<1>3. ManualStands
  BY DEF MonthInv, ManualStands, RowOK
<1> QED BY <1>1, <1>2, <1>3 DEF MonthSafe

LEMMA DatesOfItems ==
    ASSUME NEW i \in Items, NEW day \in Days \cup {None}, NEW days \in {0, 1}
    PROVE  DateOf(i, day, days) \in Dates
BY RhythmAssumption DEF DateOf, Dates, Items

LEMMA UpdatedRow ==
    ASSUME NEW i \in Items, NEW row, row # None, NEW hand, RowOK(i, row, hand), NEW seen \in {"manual", "untouched"},
           seen = "manual" => row.manual, NEW day \in Dates, NEW new, new = Updated(row, seen, i, day)
    PROVE  /\ new \in ItemRows /\ RowOK(i, new, hand) /\ new.manual = row.manual
           /\ i = "meeting" /\ ~(seen = "untouched" /\ row.manual) => new.due = day
           /\ i = "meeting" => new.due \in {row.due, day}
           /\ i # "meeting" /\ row.manual => new = row
<1>1. row \in ItemRows
  BY DEF RowOK
<1>2. CASE seen = "untouched" /\ row.manual
  BY <1>1, <1>2 DEF Updated
<1>3. CASE seen = "untouched" /\ ~row.manual
  <2>1. PICK s : s = Scheduled(day)
    OBVIOUS
  <2>2. s \in ItemStatuses /\ (s = "PENDING" <=> day = None)
    BY <2>1 DEF Scheduled, ItemStatuses
  <2>3. new = [row EXCEPT !.status = s, !.due = day]
    BY <1>3, <2>1 DEF Updated
  <2>4. new \in ItemRows /\ new.status = s /\ new.due = day /\ new.manual = row.manual
    BY <1>1, <2>2, <2>3 DEF ItemRows
  <2> QED BY <1>3, <2>2, <2>4, RhythmAssumption DEF RowOK
<1>4. CASE seen = "manual" /\ i = "meeting"
  <2>1. new = [row EXCEPT !.due = day]
    BY <1>4 DEF Updated
  <2>2. new \in ItemRows /\ new.status = row.status /\ new.due = day /\ new.manual = row.manual
    BY <1>1, <2>1 DEF ItemRows
  <2> QED BY <1>4, <2>2, RhythmAssumption DEF RowOK
<1>5. CASE seen = "manual" /\ i # "meeting"
  BY <1>1, <1>5 DEF Updated
<1> QED BY <1>2, <1>3, <1>4, <1>5

\* A call that has opened its view.
LEMMA CallStarts ==
    ASSUME MonthInv, NEW c \in RhythmCalls, Vacant(c), NEW call, Sees(c, call), call.op # "none", MonthCallOK(call),
           Fresh(call), UNCHANGED offset
    PROVE  MonthInv'
<1>1. /\ UNCHANGED <<calendar, offset, item, byHand, careFacts>>
      /\ \A d \in RhythmCalls : rhythmCall'[d] = IF d = c THEN call ELSE rhythmCall[d]
      /\ rhythmCall' = [d \in RhythmCalls |-> rhythmCall'[d]]
  BY DEF Sees, MonthInv
<1>2. met' \in BOOLEAN /\ (~met' => ~met /\ \A d \in RhythmCalls \ {c} : rhythmCall[d] = NoRhythmCall)
  BY DEF Sees, MonthInv, Vacant
<1>3. \A d \in RhythmCalls : MonthCallOK(rhythmCall[d])'
  <2> SUFFICES ASSUME NEW d \in RhythmCalls, NEW C, C = rhythmCall'[d] PROVE MonthCallOK(C)'
    OBVIOUS
  <2>1. MonthCallOK(C)
    BY <1>1 DEF MonthInv
  <2> QED BY <1>1, <2>1 DEF MonthCallOK, SeenStands
<1>4. AloneIsFresh'
  <2> SUFFICES ASSUME ~met', NEW d \in RhythmCalls, NEW C, C = rhythmCall'[d]
               PROVE  /\ Fresh(C)'
                      /\ \A e \in RhythmCalls : C.op # "none" /\ rhythmCall'[e].op # "none" => d = e
    BY DEF AloneIsFresh
  <2>1. Fresh(C) /\ (d # c => C.op = "none")
    BY <1>1, <1>2 DEF Fresh, NoRhythmCall
  <2> QED BY <1>1, <1>2, <2>1 DEF Fresh, NoRhythmCall
<1>5. BirthdayOnce' /\ MeetingFollowsCalendar'
  BY <1>1, <1>2 DEF careFacts, MonthInv, BirthdayOnce, MeetingFollowsCalendar, HasCycle
<1>6. \A i \in Items : RowOK(i, item'[i], byHand'[i])
  BY <1>1 DEF MonthInv
<1> QED BY <1>1, <1>2, <1>3, <1>4, <1>5, <1>6 DEF MonthInv, careFacts

\* A call that has written, and returns.
LEMMA CallReturns ==
    ASSUME MonthInv, NEW c \in RhythmCalls, Returns(c), rhythmCall[c].op # "none",
           calendar' \in Days \cup {None}, UNCHANGED offset, cared' \in BOOLEAN, told' \in Nat, raced' \in BOOLEAN,
           item' \in [Items -> ItemRows \cup {None}], byHand' \in [Items -> (ItemStatuses \X Dates) \cup {None}],
           \A i \in Items : RowOK(i, item'[i], byHand'[i]),
           \A i \in Items : item[i] # None => item'[i] # None /\ (item[i].manual => item'[i].manual),
           BirthdayOnce', ~met /\ item'["meeting"] # None => item'["meeting"].due = calendar'
    PROVE  MonthInv'
<1>1. /\ \A d \in RhythmCalls : rhythmCall'[d] = IF d = c THEN NoRhythmCall ELSE rhythmCall[d]
      /\ rhythmCall' = [d \in RhythmCalls |-> rhythmCall'[d]] /\ met' = met
  BY DEF Returns, MonthInv
<1>2. \A d \in RhythmCalls : MonthCallOK(rhythmCall[d])'
  <2> SUFFICES ASSUME NEW d \in RhythmCalls, NEW C, C = rhythmCall'[d] PROVE MonthCallOK(C)'
    OBVIOUS
  <2>1. MonthCallOK(C)
    BY <1>1 DEF MonthInv, MonthCallOK, NoRhythmCall
  <2>2. SeenStands(C.seen) => SeenStands(C.seen)'
    BY DEF SeenStands
  <2> QED BY <2>1, <2>2 DEF MonthCallOK, Items
<1>3. AloneIsFresh'
  <2> SUFFICES ASSUME ~met', NEW d \in RhythmCalls, NEW C, C = rhythmCall'[d]
               PROVE  Fresh(C)' /\ C.op = "none"
    BY DEF AloneIsFresh
  <2>1. C.op = "none"
    BY <1>1 DEF NoRhythmCall, MonthInv, AloneIsFresh
  <2> QED BY <2>1 DEF Fresh
<1>4. MeetingFollowsCalendar'
  BY <1>1 DEF MeetingFollowsCalendar, HasCycle
<1> QED BY <1>1, <1>2, <1>3, <1>4 DEF MonthInv

LEMMA GenerationStarts == ASSUME MonthInv, NEW c \in RhythmCalls, NEW celebrated \in BOOLEAN, StartGeneration(c, celebrated)
                          PROVE  MonthInv'
<1>1. PICK call : call = [op |-> "generate", day |-> calendar, offset |-> offset, seen |-> Seen,
                          of |-> IF celebrated THEN Items ELSE Items \ {"birthday"}]
  OBVIOUS
<1>2. Vacant(c) /\ Sees(c, call) /\ UNCHANGED offset
  BY <1>1 DEF StartGeneration, Sees
<1>3. SeenStands(Seen)
  BY DEF SeenStands, Seen
<1>4. /\ call.op = "generate" /\ call.day = calendar /\ call.offset = offset /\ call.seen = Seen
      /\ call.of \in SUBSET Items /\ "meeting" \in call.of
  BY <1>1 DEF Items
<1>5. MonthCallOK(call)
  BY <1>3, <1>4 DEF MonthCallOK, MonthInv
<1>6. Fresh(call)
  BY <1>4 DEF Fresh
<1> QED BY <1>2, <1>4, <1>5, <1>6, CallStarts

LEMMA CalendarStarts == ASSUME MonthInv, NEW c \in RhythmCalls, NEW day \in Days \cup {None}, StartCalendar(c, day)
                        PROVE  MonthInv'
<1>1. PICK call : call = [op |-> "calendar", day |-> day, offset |-> offset, seen |-> Seen]
  OBVIOUS
<1>2. Vacant(c) /\ Sees(c, call) /\ UNCHANGED offset
  BY <1>1 DEF StartCalendar, Sees
<1>3. SeenStands(Seen) /\ (Seen["meeting"] = "none" => item["meeting"] = None)
      /\ (Seen["meeting"] = "untouched" => ~item["meeting"].manual)
  BY DEF SeenStands, Seen, Items
<1>4. call.op = "calendar" /\ call.day = day /\ call.offset = offset /\ call.seen = Seen
  BY <1>1
<1>5. MonthCallOK(call)
  BY <1>3, <1>4 DEF MonthCallOK, MonthInv
<1>6. Fresh(call)
  BY <1>3, <1>4 DEF Fresh
<1> QED BY <1>2, <1>4, <1>5, <1>6, CallStarts

LEMMA EditStarts ==
    ASSUME MonthInv, NEW c \in RhythmCalls, NEW i \in Items, NEW status \in ItemStatuses, NEW day \in Dates,
           StartEdit(c, i, status, day)
    PROVE  MonthInv'
<1>1. PICK call : call = [op |-> "edit", id |-> i, status |-> status, day |-> day]
  OBVIOUS
<1>2. Vacant(c) /\ Sees(c, call) /\ UNCHANGED offset /\ item[i] # None /\ (day = item[i].due \/ i # "meeting")
  BY <1>1 DEF StartEdit, Sees
<1>3. MonthCallOK(call) /\ Fresh(call) /\ call.op # "none"
  BY <1>1, <1>2 DEF MonthCallOK, Fresh
<1> QED BY <1>2, <1>3, CallStarts

LEMMA CareStarts == ASSUME MonthInv, NEW c \in RhythmCalls, StartCare(c) \/ StartFact(c) PROVE MonthInv'
<1>1. CASE StartCare(c)
  <2>1. PICK call : call = [op |-> "care", status |-> item["birthday"].status]
    OBVIOUS
  <2>2. Vacant(c) /\ Sees(c, call) /\ UNCHANGED offset /\ MonthCallOK(call) /\ Fresh(call) /\ call.op # "none"
    BY <1>1, <2>1 DEF StartCare, Completable, Sees, MonthCallOK, Fresh
  <2> QED BY <2>2, CallStarts
<1>2. CASE StartFact(c)
  <2>1. PICK call : call = [op |-> "fact"]
    OBVIOUS
  <2>2. Vacant(c) /\ Sees(c, call) /\ UNCHANGED offset /\ MonthCallOK(call) /\ Fresh(call) /\ call.op # "none"
    BY <1>2, <2>1 DEF StartFact, Sees, MonthCallOK, Fresh
  <2> QED BY <2>2, CallStarts
<1> QED BY <1>1, <1>2

LEMMA GenerateKeeps == ASSUME MonthInv, NEW c \in RhythmCalls, Generate(c) PROVE MonthInv'
<1>1. PICK call : call = rhythmCall[c]
  OBVIOUS
<1>2. /\ call.op = "generate" /\ call.day \in Days \cup {None} /\ call.offset \in {0, 1} /\ SeenStands(call.seen)
      /\ call.of \in SUBSET Items /\ "meeting" \in call.of
  BY <1>1 DEF Generate, AtCall, MonthInv, MonthCallOK
<1>3. ~met => call.day = calendar
  BY <1>1, <1>2 DEF MonthInv, AloneIsFresh, Fresh
<1>4. Returns(c) /\ UNCHANGED <<calendar, offset, byHand, careFacts>>
  BY DEF Generate
<1>5. item' = IF \E i \in call.of : call.seen[i] = "none" /\ item[i] # None THEN item
              ELSE [i \in Items |->
                      IF i \notin call.of THEN item[i]
                      ELSE LET day == DateOf(i, call.day, call.offset) IN
                           IF item[i] = None THEN NewItem(day) ELSE Updated(item[i], call.seen[i], i, day)]
  BY <1>1 DEF Generate
<1>6. ASSUME NEW i \in Items
      PROVE  /\ RowOK(i, item'[i], byHand[i]) /\ item'[i] \in ItemRows \cup {None}
             /\ item[i] # None => item'[i] # None /\ (item[i].manual => item'[i].manual)
             /\ i = "meeting" /\ item[i] = None /\ item'[i] # None => item'[i].due = call.day
             /\ i = "meeting" /\ item[i] # None => item'[i].due \in {item[i].due, call.day}
             /\ i # "meeting" /\ item[i] # None /\ item[i].manual => item'[i] = item[i]
  <2>1. RowOK(i, item[i], byHand[i]) /\ item[i] \in ItemRows \cup {None}
    BY DEF MonthInv
  <2>2. CASE item'[i] = item[i]
    BY <2>1, <2>2
  <2>3. CASE item'[i] # item[i]
    <3>1. PICK day : day = DateOf(i, call.day, call.offset)
      OBVIOUS
    <3>2. day \in Dates /\ (i = "meeting" => day = call.day)
      BY <1>2, <3>1, DatesOfItems DEF DateOf
    <3>3. i \in call.of /\ ~(call.seen[i] = "none" /\ item[i] # None)
      BY <1>5, <2>3
    <3>4. item'[i] = IF item[i] = None THEN NewItem(day) ELSE Updated(item[i], call.seen[i], i, day)
      BY <1>5, <2>3, <3>1
    <3>5. CASE item[i] = None
      <4>1. NewItem(day) \in ItemRows /\ ~NewItem(day).manual /\ NewItem(day).due = day
            /\ (NewItem(day).status = "PENDING" <=> day = None)
        BY <3>2 DEF NewItem, ItemRows, Scheduled, ItemStatuses
      <4>2. RowOK(i, NewItem(day), byHand[i])
        BY <2>1, <3>5, <4>1, RhythmAssumption DEF RowOK
      <4> QED BY <3>2, <3>4, <3>5, <4>1, <4>2
    <3>6. CASE item[i] # None
      <4>1. PICK seen, row, new : seen = call.seen[i] /\ row = item[i] /\ new = Updated(item[i], call.seen[i], i, day)
        OBVIOUS
      <4>2. seen \in {"manual", "untouched"} /\ (seen = "manual" => row.manual)
        BY <1>2, <3>3, <3>6, <4>1 DEF SeenStands
      <4>3. /\ new \in ItemRows /\ RowOK(i, new, byHand[i]) /\ new.manual = row.manual
            /\ i = "meeting" => new.due \in {row.due, day}
            /\ i # "meeting" /\ row.manual => new = row
        BY <2>1, <3>2, <3>6, <4>1, <4>2, UpdatedRow
      <4> QED BY <3>2, <3>4, <3>6, <4>1, <4>3, RhythmAssumption
    <3> QED BY <3>5, <3>6
  <2> QED BY <2>2, <2>3
<1>7. item' \in [Items -> ItemRows \cup {None}]
  <2>1. item' = [i \in Items |-> item'[i]]
    BY <1>5 DEF MonthInv
  <2> QED BY <1>6, <2>1
<1>8. ~met /\ item'["meeting"] # None => item'["meeting"].due = calendar'
  <2>1. "meeting" \in Items
    BY DEF Items
  <2>2. ~met /\ item["meeting"] # None => item["meeting"].due = calendar
    BY DEF MonthInv, MeetingFollowsCalendar, HasCycle
  <2> QED BY <1>3, <1>4, <1>6, <2>1, <2>2
<1>9. BirthdayOnce'
  <2>1. told > 0 => item'["birthday"] = item["birthday"]
    BY <1>6 DEF MonthInv, BirthdayOnce, Items
  <2> QED BY <1>4, <2>1 DEF BirthdayOnce, MonthInv, careFacts
<1> QED BY <1>1, <1>2, <1>4, <1>6, <1>7, <1>8, <1>9, CallReturns DEF MonthInv, careFacts

LEMMA SetCalendarKeeps == ASSUME MonthInv, NEW c \in RhythmCalls, SetCalendar(c) PROVE MonthInv'
<1>1. PICK call : call = rhythmCall[c]
  OBVIOUS
<1>2. call.op = "calendar" /\ call.day \in Days \cup {None} /\ call.offset \in {0, 1} /\ SeenStands(call.seen)
  BY <1>1 DEF SetCalendar, AtCall, MonthInv, MonthCallOK
<1>3. ~met => /\ call.seen["meeting"] = "none" => item["meeting"] = None
              /\ call.seen["meeting"] = "untouched" => ~item["meeting"].manual
  BY <1>1, <1>2 DEF MonthInv, AloneIsFresh, Fresh
<1>4. Returns(c) /\ UNCHANGED <<offset, byHand, careFacts>> /\ calendar' = call.day
  BY <1>1 DEF SetCalendar
<1>5. item' = [i \in Items |-> IF call.seen[i] = "none" \/ i = "birthday" THEN item[i]
                               ELSE Updated(item[i], call.seen[i], i, DateOf(i, call.day, call.offset))]
  BY <1>1 DEF SetCalendar
<1>6. ASSUME NEW i \in Items
      PROVE  /\ RowOK(i, item'[i], byHand[i]) /\ item'[i] \in ItemRows \cup {None}
             /\ item[i] # None => item'[i] # None /\ (item[i].manual => item'[i].manual)
             /\ i = "meeting" => \/ item'[i] = item[i] /\ call.seen[i] = "none"
                                 \/ item'[i] = item[i] /\ call.seen[i] = "untouched" /\ item[i].manual
                                 \/ item'[i].due = call.day
  <2>1. RowOK(i, item[i], byHand[i]) /\ item[i] \in ItemRows \cup {None}
    BY DEF MonthInv
  <2>2. CASE call.seen[i] = "none" \/ i = "birthday"
    BY <1>5, <2>1, <2>2
  <2>3. CASE ~(call.seen[i] = "none" \/ i = "birthday")
    <3>1. PICK day, seen, row, new : /\ day = DateOf(i, call.day, call.offset) /\ seen = call.seen[i] /\ row = item[i]
                                     /\ new = Updated(row, seen, i, day)
      OBVIOUS
    <3>2. day \in Dates /\ (i = "meeting" => day = call.day)
      BY <1>2, <3>1, DatesOfItems DEF DateOf
    <3>3. seen \in {"manual", "untouched"} /\ (seen = "manual" => row.manual) /\ row # None
      BY <1>2, <2>3, <3>1 DEF SeenStands
    <3>4. /\ new \in ItemRows /\ RowOK(i, new, byHand[i]) /\ new.manual = row.manual
          /\ i = "meeting" /\ ~(seen = "untouched" /\ row.manual) => new.due = day
      <4>1. RowOK(i, row, byHand[i])
        BY <2>1, <3>1
      <4>2. new = Updated(row, seen, i, day)
        BY <3>1
      <4> QED BY <3>2, <3>3, <4>1, <4>2, UpdatedRow
    <3>5. item'[i] = new /\ (seen = "untouched" /\ row.manual => new = row)
      BY <1>5, <2>3, <3>1 DEF Updated
    <3> QED BY <3>1, <3>2, <3>3, <3>4, <3>5, RhythmAssumption
  <2> QED BY <2>2, <2>3
<1>7. item' \in [Items -> ItemRows \cup {None}]
  <2>1. item' = [i \in Items |-> item'[i]]
    BY <1>5
  <2> QED BY <1>6, <2>1
<1>8. ~met /\ item'["meeting"] # None => item'["meeting"].due = calendar'
  <2>1. "meeting" \in Items
    BY DEF Items
  <2> QED BY <1>3, <1>4, <1>6, <2>1
<1>9. BirthdayOnce'
  <2>1. told > 0 => item'["birthday"] = item["birthday"]
    BY <1>5 DEF Items
  <2> QED BY <1>4, <2>1 DEF BirthdayOnce, MonthInv, careFacts
<1> QED BY <1>1, <1>2, <1>4, <1>6, <1>7, <1>8, <1>9, CallReturns DEF MonthInv, careFacts

\* A row that people write.
Touches(i, row) ==
    /\ item' \in [Items -> ItemRows \cup {None}] /\ byHand' \in [Items -> (ItemStatuses \X Dates) \cup {None}]
    /\ \A j \in Items : RowOK(j, item'[j], byHand'[j])
    /\ \A j \in Items : item'[j] = IF j = i THEN row ELSE item[j]
    /\ row # None /\ row.manual
LEMMA TouchedRow ==
    ASSUME MonthInv, NEW i \in Items, NEW st \in ItemStatuses, NEW day \in Dates,
           NEW row, row = [status |-> st, due |-> day, manual |-> TRUE],
           item' = [item EXCEPT ![i] = row], byHand' = [byHand EXCEPT ![i] = <<st, day>>]
    PROVE  Touches(i, row)
<1>1. row \in ItemRows /\ row.manual /\ row.due = day /\ row.status = st
  BY DEF ItemRows
<1>2. PICK hand : hand = <<st, day>>
  OBVIOUS
<1>3. hand \in ItemStatuses \X Dates /\ hand[1] = st /\ hand[2] = day
  BY <1>2
<1>4. \A j \in Items : item'[j] = (IF j = i THEN row ELSE item[j]) /\ byHand'[j] = IF j = i THEN hand ELSE byHand[j]
  BY <1>2 DEF MonthInv
<1>5. RowOK(i, row, hand)
  BY <1>1, <1>3, RhythmAssumption DEF RowOK
<1> QED BY <1>1, <1>2, <1>3, <1>4, <1>5, RhythmAssumption DEF MonthInv, Touches

LEMMA MonthEditKeeps == ASSUME MonthInv, NEW c \in RhythmCalls, Edit(c) PROVE MonthInv'
<1>1. PICK call : call = rhythmCall[c]
  OBVIOUS
<1>0. PICK i \in Items, st \in ItemStatuses, day \in Dates :
          call.op = "edit" /\ i = call.id /\ st = call.status /\ day = call.day
  BY <1>1 DEF Edit, AtCall, MonthInv, MonthCallOK
<1>2. PICK row : row = [status |-> st, due |-> day, manual |-> TRUE]
  OBVIOUS
<1>3. ~met /\ i = "meeting" => day = item["meeting"].due
  BY <1>0, <1>1, <1>2 DEF MonthInv, AloneIsFresh, Fresh
<1>4. /\ item' = [item EXCEPT ![i] = row] /\ byHand' = [byHand EXCEPT ![i] = <<st, day>>]
      /\ Returns(c) /\ UNCHANGED <<calendar, offset, cared, thanked, raced>>
      /\ told' = IF i = "birthday" /\ st # "COMPLETED" THEN 0 ELSE told
  BY <1>0, <1>1, <1>2 DEF Edit
<1>5. /\ item' \in [Items -> ItemRows \cup {None}] /\ byHand' \in [Items -> (ItemStatuses \X Dates) \cup {None}]
      /\ \A j \in Items : RowOK(j, item'[j], byHand'[j])
      /\ \A j \in Items : item'[j] = IF j = i THEN row ELSE item[j]
      /\ row # None /\ row.manual /\ row.due = day /\ row.status = st
  <2>1. Touches(i, row)
    BY <1>2, <1>4, TouchedRow
  <2>2. row.due = day /\ row.status = st
    BY <1>2
  <2> QED BY <2>1, <2>2 DEF Touches
<1>6. ~met /\ item'["meeting"] # None => item'["meeting"].due = calendar'
  <2>1. "meeting" \in Items /\ item[i] # None
    BY <1>0, <1>1, <1>2 DEF Items, MonthInv, MonthCallOK
  <2>2. ~met /\ item["meeting"] # None => item["meeting"].due = calendar
    BY DEF MonthInv, MeetingFollowsCalendar, HasCycle
  <2> QED BY <1>0, <1>3, <1>4, <1>5, <2>1, <2>2
<1>7. told' \in Nat /\ BirthdayOnce'
  <2>1. thanked' = (IF cared' THEN 1 ELSE 0) /\ told \in Nat
    BY <1>4 DEF BirthdayOnce, MonthInv
  <2>2. "birthday" \in Items
    BY DEF Items
  <2>3. CASE i = "birthday" /\ st # "COMPLETED"
    BY <1>4, <2>1, <2>3 DEF BirthdayOnce
  <2>4. CASE i = "birthday" /\ st = "COMPLETED"
    BY <1>4, <1>5, <2>1, <2>2, <2>4 DEF BirthdayOnce, MonthInv
  <2>5. CASE i # "birthday"
    BY <1>4, <1>5, <2>1, <2>2, <2>5 DEF BirthdayOnce, MonthInv
  <2> QED BY <2>3, <2>4, <2>5
<1>8. cared' \in BOOLEAN /\ raced' \in BOOLEAN /\ rhythmCall[c].op = "edit"
  BY <1>0, <1>1, <1>4 DEF MonthInv
<1> QED BY <1>0, <1>1, <1>2, <1>4, <1>5, <1>6, <1>7, <1>8, CallReturns DEF MonthInv

LEMMA CareKeeps == ASSUME MonthInv, NEW c \in RhythmCalls, Care(c) PROVE MonthInv'
<1>1. PICK old : old = item["birthday"]
  OBVIOUS
<1>2. old \in ItemRows /\ "birthday" \in Items /\ "meeting" \in Items /\ rhythmCall[c].op = "care"
  BY <1>1 DEF Care, AtCall, MonthInv, MonthCallOK, Items
<1>0. PICK day \in Dates : day = old.due
  BY <1>2 DEF ItemRows
<1>3. PICK row : row = [status |-> "COMPLETED", due |-> day, manual |-> TRUE]
  OBVIOUS
<1>4. "COMPLETED" \in ItemStatuses
  BY DEF ItemStatuses
<1>5. /\ item' = [item EXCEPT !["birthday"] = row] /\ byHand' = [byHand EXCEPT !["birthday"] = <<"COMPLETED", day>>]
      /\ Returns(c) /\ UNCHANGED <<calendar, offset, cared, thanked>>
      /\ told' = told + 1 /\ raced' = (raced \/ old.status # rhythmCall[c].status)
  <2>1. item' = [item EXCEPT !["birthday"] = row]
    BY <1>0, <1>1, <1>2, <1>3 DEF Care, MonthInv
  <2>2. byHand' = [byHand EXCEPT !["birthday"] = <<"COMPLETED", item["birthday"].due>>]
    BY DEF Care
  <2>3. /\ Returns(c) /\ UNCHANGED <<calendar, offset, cared, thanked>>
        /\ told' = told + 1 /\ raced' = (raced \/ old.status # rhythmCall[c].status)
    BY <1>1 DEF Care
  <2> QED BY <1>0, <1>1, <2>1, <2>2, <2>3
<1>6. /\ item' \in [Items -> ItemRows \cup {None}] /\ byHand' \in [Items -> (ItemStatuses \X Dates) \cup {None}]
      /\ \A j \in Items : RowOK(j, item'[j], byHand'[j])
      /\ \A j \in Items : item'[j] = IF j = "birthday" THEN row ELSE item[j]
      /\ row # None /\ row.manual
  <2>1. Touches("birthday", row)
    BY <1>2, <1>3, <1>4, <1>5, TouchedRow
  <2> QED BY <2>1 DEF Touches
<1>7. ~met /\ item'["meeting"] # None => item'["meeting"].due = calendar'
  BY <1>2, <1>5, <1>6 DEF MonthInv, MeetingFollowsCalendar, HasCycle
<1>8. told' \in Nat /\ raced' \in BOOLEAN /\ BirthdayOnce'
  <2>1. thanked' = (IF cared' THEN 1 ELSE 0) /\ told \in Nat /\ raced \in BOOLEAN
    BY <1>5 DEF BirthdayOnce, MonthInv
  <2>5. raced' \in BOOLEAN
    BY <1>5, <2>1
  <2>2. rhythmCall[c].status # "COMPLETED"
    BY <1>2 DEF MonthInv, MonthCallOK
  <2>3. told' > 1 => raced'
    <3>1. told' > 1 => old.status = "COMPLETED"
      BY <1>1, <1>5, <2>1 DEF BirthdayOnce, MonthInv
    <3> QED BY <1>5, <2>2, <3>1
  <2>4. item'["birthday"] = row /\ row.manual /\ row.status = "COMPLETED" /\ row # None
    BY <1>2, <1>3, <1>6
  <2> QED BY <1>5, <2>1, <2>3, <2>4, <2>5 DEF BirthdayOnce
<1>9. cared' \in BOOLEAN
  BY <1>5 DEF MonthInv
<1> QED BY <1>2, <1>5, <1>6, <1>7, <1>8, <1>9, CallReturns DEF MonthInv

LEMMA FactKeeps == ASSUME MonthInv, NEW c \in RhythmCalls, RecordFact(c) PROVE MonthInv'
<1>1. /\ Returns(c) /\ UNCHANGED <<calendar, offset, item, byHand, told, raced>> /\ cared' = TRUE /\ rhythmCall[c].op = "fact"
      /\ thanked' = IF ~cared THEN thanked + 1 ELSE thanked
  BY DEF RecordFact, AtCall, Unrecorded
<1>2. BirthdayOnce'
  BY <1>1 DEF BirthdayOnce, MonthInv
<1>3. ~met /\ item'["meeting"] # None => item'["meeting"].due = calendar'
  BY <1>1 DEF MonthInv, MeetingFollowsCalendar, HasCycle
<1> QED BY <1>1, <1>2, <1>3, CallReturns DEF MonthInv

LEMMA OffsetKeeps == ASSUME MonthInv, NEW days \in {0, 1}, SetOffset(days) PROVE MonthInv'
<1>1. offset' \in {0, 1} /\ UNCHANGED <<calendar, item, byHand, careFacts, met, rhythmCall>>
  BY DEF SetOffset
<1> QED BY <1>1 DEF careFacts, MonthInv, MonthCallOK, SeenStands, AloneIsFresh, Fresh, BirthdayOnce, MeetingFollowsCalendar, HasCycle

LEMMA MonthKeeps == ASSUME MonthInv, [RhythmNext]_rhythmVars PROVE MonthInv'
<1>1. CASE UNCHANGED rhythmVars
  BY <1>1 DEF rhythmVars, careFacts, MonthInv, MonthCallOK, SeenStands, AloneIsFresh, Fresh, BirthdayOnce, MeetingFollowsCalendar,
              HasCycle
<1>2. ASSUME NEW days \in {0, 1}, SetOffset(days) PROVE MonthInv'
  BY <1>2, OffsetKeeps
<1>3. ASSUME NEW c \in RhythmCalls,
             Generate(c) \/ SetCalendar(c) \/ Edit(c) \/ StartCare(c) \/ Care(c) \/ StartFact(c) \/ RecordFact(c)
      PROVE  MonthInv'
  BY <1>3, GenerateKeeps, SetCalendarKeeps, MonthEditKeeps, CareStarts, CareKeeps, FactKeeps
<1>4. ASSUME NEW c \in RhythmCalls, NEW celebrated \in BOOLEAN, StartGeneration(c, celebrated) PROVE MonthInv'
  BY <1>4, GenerationStarts
<1>5. ASSUME NEW c \in RhythmCalls, NEW day \in Days \cup {None}, StartCalendar(c, day) PROVE MonthInv'
  BY <1>5, CalendarStarts
<1>6. ASSUME NEW c \in RhythmCalls, NEW i \in Items, NEW status \in ItemStatuses, NEW day \in Dates,
             StartEdit(c, i, status, day)
      PROVE  MonthInv'
  BY <1>6, EditStarts
<1> QED BY <1>1, <1>2, <1>3, <1>4, <1>5, <1>6 DEF RhythmNext

\* Whatever calls overlap, an item that was maintained by hand stays as it was left and a birthday is
\* recorded once; and as long as no calls have overlapped, the meeting has the calendar's date: MonthSafe, for any
\* dates, statuses and calls.
THEOREM MonthsAreSafe == RhythmSpec => []MonthSafe
<1>1. RhythmInit => MonthInv
  BY MonthBegins
<1>2. MonthInv /\ [RhythmNext]_rhythmVars => MonthInv'
  BY MonthKeeps
<1>3. MonthInv => MonthSafe
  BY MonthIsEnough
<1> QED BY <1>1, <1>2, <1>3, PTL DEF RhythmSpec
================================================================================
