---------------------------- MODULE OperationsProofs ----------------------------
(***************************************************************************)
(* Theorems about the unattended operations: workbooks of readings for     *)
(* every set of learners, groups, files and relations and any number of    *)
(* concurrent imports and confirmations; the chain of reading reports for  *)
(* every number of tasks and bound; releases for every set of revisions;   *)
(* rehearsals for every set of envelopes, candidates, approvals and        *)
(* processes; monthly workbooks for every number of centres and workers.   *)
(***************************************************************************)
EXTENDS HqReadings, ReadingSync, ReleaseOperations, MonthlyReports, FiniteSetTheorems, WellFoundedInduction, TLAPS

(***************************************************************************)
(* The inductive invariant.                                                *)
(***************************************************************************)
\* What of a view the arguments need.
ViewTyped(v) ==
    /\ v.identity \in [Keys -> Identities \cup {None}]
    /\ v.noted \in [Cells -> Observations \cup {None}]
    /\ v.credited \in [Cells -> Facts \cup {None}]

\* A view is of an earlier state: what it has is there, of the same learner.
Earlier(v) ==
    /\ \A k \in Keys : v.identity[k] # None => identity[k] # None /\ identity[k].who = v.identity[k].who
    /\ \A c \in Cells : v.noted[c] # None => noted[c] # None
    /\ \A c \in Cells : v.credited[c] # None => credited[c] # None /\ credited[c].who = v.credited[c].who

\* Of a batch that the view has there is no row but those that the view counts to it, and none has lost its confirmation.
Counted(v, f) ==
    \A c \in Cells :
        noted[c] # None /\ noted[c].batch = f =>
            /\ v.noted[c] # None /\ v.noted[c].batch = f
            /\ v.noted[c].match = "CONFIRMED_BINDING" => noted[c].match = "CONFIRMED_BINDING"

\* A confirmation gives an identity that its view has as bound to the same learner.
CallTyped(r) ==
    /\ r = [pc |-> r.pc, f |-> r.f, pick |-> r.pick, view |-> r.view]
    /\ r.pc \in {"idle", "import", "confirm"}
    /\ r.pc # "idle" => r.f \in Sheets /\ ViewTyped(r.view)
    /\ r.pc = "confirm" =>
         /\ DOMAIN r.pick \subseteq Keys
         /\ \A k \in DOMAIN r.pick :
              /\ r.pick[k] \in Pupils /\ InSheet(r.view, r.f, k) # {}
              /\ EarliestLook(r.view, r.f, k) \in Looks
              /\ r.view.identity[k] # None => r.view.identity[k].who = r.pick[k]

\* What a call may rely on of the state it finds when it writes.
Current(r) ==
    /\ CallTyped(r)
    /\ r.pc # "idle" => Earlier(r.view)
    /\ r.pc = "confirm" => sheet[r.f] # None /\ Counted(r.view, r.f)

Calls ==
    /\ readingCall = [t \in ReadingCalls |-> readingCall[t]]
    /\ \A t \in ReadingCalls : Current(readingCall[t])

\* What an observation names as its batch has been imported.
BatchesExist == \A c \in Cells : noted[c] # None => sheet[noted[c].batch] # None

ReadingInv ==
    ReadingsTypeOK /\ FactsAreBound /\ FactsFollow /\ ConfirmedIsWhole /\ BatchesExist /\ Calls

(***************************************************************************)
(* What a call writes.                                                     *)
(***************************************************************************)
LEMMA RowsOfACell ==
    ASSUME NEW f \in Sheets, NEW c \in {CellOf(row) : row \in Workbook[f]},
           NEW person, person = {row \in Workbook[f] : KeyOf(row.look) = c[1]},
           NEW rows, rows = {row \in person : row.day = c[2]}
    PROVE  FirstRow(rows) \in rows /\ c \in Cells
<1>1. PICK row \in Workbook[f] : c = <<KeyOf(row.look), row.day>>
  BY DEF CellOf
<1>2. row \in rows
  BY <1>1
<1>3. FirstRow(rows) \in rows
  BY <1>2 DEF FirstRow
<1>4. row.look \in Looks /\ row.day \in Days
  BY DEF Looks, Days
<1>5. KeyOf(row.look) \in Keys
  BY <1>4 DEF Keys
<1> QED BY <1>1, <1>3, <1>4, <1>5 DEF Cells

\* A row is matched with whom the view has its identity bound to, or is not confirmed.
LEMMA MatchedIsBound ==
    ASSUME NEW v, ViewTyped(v), NEW look, KeyOf(look) \in Keys, NEW days
    PROVE  /\ Matched(v, look, days) = Match(Matched(v, look, days).status, Matched(v, look, days).who)
           /\ Matched(v, look, days).status \in MatchStatuses /\ Matched(v, look, days).who \in Pupils \cup {None}
           /\ Matched(v, look, days).status = "CONFIRMED_BINDING" =>
                v.identity[KeyOf(look)] # None /\ Matched(v, look, days).who = v.identity[KeyOf(look)].who
<1> DEFINE bound == v.identity[KeyOf(look)]
           there == MemberCandidates(v, look.name, Room(look), days)
           known == {p \in there : look.account \in AccountsOf[p]}
<1>1. bound # None => bound.who \in Pupils
  BY DEF ViewTyped, Identities
<1>2. known \subseteq Pupils
  BY DEF MemberCandidates
<1>3. Cardinality(known) = 1 => (CHOOSE p \in known : TRUE) \in Pupils
  <2>1. known = {} => Cardinality(known) = 0
    BY FS_EmptySet
  <2> QED BY <1>2, <2>1
<1> HIDE DEF known, there
<1> DEFINE found == CHOOSE p \in known : TRUE
           unmatched == {Match("GROUP_MAPPING_MISSING", None), Match("SOURCE_IDENTITY_CONFLICT", None),
                         Match("CANDIDATE", None), Match("MEMBER_MAPPING_REQUIRED", None)}
<1>4. \/ Matched(v, look, days) \in unmatched
      \/ Matched(v, look, days) = Match("AUTO_MATCHED", found) /\ Cardinality(known) = 1
      \/ Matched(v, look, days) = Match("CONFIRMED_BINDING", bound.who) /\ bound # None
  <2>1. CASE Unmapped(look)
    BY <2>1 DEF Matched
  <2>2. CASE ~Unmapped(look) /\ bound # None
    BY <2>2 DEF Matched
  <2>3. CASE ~Unmapped(look) /\ bound = None /\ look.account # None
    BY <2>3 DEF Matched, known, there
  <2>4. CASE ~Unmapped(look) /\ bound = None /\ look.account = None
    BY <2>4 DEF Matched, known, there
  <2> QED BY <2>1, <2>2, <2>3, <2>4
<1>5. found \in Pupils \/ Cardinality(known) # 1
  BY <1>3
<1> HIDE DEF found
<1> QED BY <1>1, <1>4, <1>5 DEF Match, MatchStatuses

LEMMA ObservationIsBound ==
    ASSUME NEW v, ViewTyped(v), NEW f \in Sheets, NEW c \in {CellOf(row) : row \in Workbook[f]}
    PROVE  /\ Upserted(v, f, c) \in Observations
           /\ Upserted(v, f, c).match = "CONFIRMED_BINDING" \/ Upserted(v, f, c).personal =>
                v.identity[c[1]] # None /\ Upserted(v, f, c).who = v.identity[c[1]].who
           /\ Upserted(v, f, c).batch = f
           /\ Upserted(v, f, c).personal =>
                Upserted(v, f, c).match = "CONFIRMED_BINDING" /\ Upserted(v, f, c).row.recording = "COMPLETE"
<1> DEFINE person == {row \in Workbook[f] : KeyOf(row.look) = c[1]}
           rows == {row \in person : row.day = c[2]}
           row == FirstRow(rows)
           days == {r.day : r \in person}
           match == IF Cardinality({r.look : r \in person}) > 1 \/ Cardinality(rows) > 1
                    THEN Match("SOURCE_IDENTITY_CONFLICT", None) ELSE Matched(v, row.look, days)
           new == Observation(v, f, c)
           old == v.noted[c]
<1>1. row \in rows /\ c \in Cells
  BY RowsOfACell
<1>2. row \in Workbook[f] /\ KeyOf(row.look) = c[1] /\ c[1] \in Keys
  BY <1>1 DEF Cells
<1> HIDE DEF row, rows, days, person
<1>3. /\ match = Match(match.status, match.who) /\ match.status \in MatchStatuses /\ match.who \in Pupils \cup {None}
      /\ match.status = "CONFIRMED_BINDING" => v.identity[c[1]] # None /\ match.who = v.identity[c[1]].who
  BY <1>2, MatchedIsBound DEF Match, MatchStatuses
<1>4. new = [batch |-> f, who |-> match.who, match |-> match.status, row |-> row, personal |-> Eligible(v, match, row)]
  BY DEF Observation, person, rows, row, days
<1> HIDE DEF match
<1>5. /\ Eligible(v, match, row) \in BOOLEAN
      /\ Eligible(v, match, row) => match.status = "CONFIRMED_BINDING" /\ row.recording = "COMPLETE"
  BY DEF Eligible
<1>6. new \in Observations
  BY <1>2, <1>3, <1>4, <1>5 DEF Observations
<1>7. /\ new.match = "CONFIRMED_BINDING" \/ new.personal => v.identity[c[1]] # None /\ new.who = v.identity[c[1]].who
      /\ new.batch = f
      /\ new.personal => new.match = "CONFIRMED_BINDING" /\ new.row.recording = "COMPLETE"
  BY <1>3, <1>4, <1>5
<1>8. old # None => old \in Observations
  BY <1>1 DEF ViewTyped
<1>9. new.who = None => new.match # "CONFIRMED_BINDING"
  <2>1. v.identity[c[1]] # None => v.identity[c[1]].who \in Pupils
    BY <1>2 DEF ViewTyped, Identities
  <2> QED BY <1>7, <2>1, ReadingAssumption
<1> HIDE DEF new
<1>10. CASE old = None \/ old.who \in {None, new.who}
  BY <1>6, <1>7, <1>10 DEF Upserted, new
<1>11. CASE ~(old = None \/ old.who \in {None, new.who})
  <2> DEFINE kept == [new EXCEPT !.who = old.who, !.match = IF new.who = None THEN @ ELSE "SOURCE_IDENTITY_CONFLICT",
                                 !.personal = FALSE]
  <2>1. Upserted(v, f, c) = kept
    BY <1>11 DEF Upserted, new
  <2>2. kept \in Observations
    BY <1>6, <1>8, <1>11 DEF Observations, MatchStatuses
  <2>3. kept.match # "CONFIRMED_BINDING" /\ kept.personal = FALSE /\ kept.batch = f
    BY <1>6, <1>7, <1>9 DEF Observations
  <2> QED BY <2>1, <2>2, <2>3
<1> QED BY <1>10, <1>11

\* A set of days that is not empty has an earliest one.
LEMMA SmallestNat ==
    ASSUME NEW S \in SUBSET Nat, S # {}
    PROVE  \E d \in S : \A e \in S : d <= e
<1> DEFINE Smaller == {ss \in Nat \X Nat : ss[1] < ss[2]}
<1>1. IsWellFoundedOn(Smaller, Nat)
  BY NatLessThanWellFounded DEF OpToRel
<1>2. PICK d \in S : \A e \in S : ~(<<e, d>> \in Smaller)
  BY <1>1, WFMin
<1>3. ASSUME NEW e \in S PROVE d <= e
  <2>1. <<e, d>> \in Smaller <=> e < d
    OBVIOUS
  <2> QED BY <1>2, <2>1
<1> QED BY <1>3

\* The observation that a confirmation binds by is of a row that some file has.
LEMMA EarliestIsSeen ==
    ASSUME NEW v, ViewTyped(v), NEW f, NEW k \in Keys, InSheet(v, f, k) # {}
    PROVE  EarliestLook(v, f, k) \in Looks
<1> DEFINE d == CHOOSE d \in InSheet(v, f, k) : \A e \in InSheet(v, f, k) : d <= e
           o == v.noted[<<k, d>>]
<1>1. InSheet(v, f, k) \subseteq Nat
  BY ReadingAssumption DEF InSheet
<1>2. \E e \in InSheet(v, f, k) : \A g \in InSheet(v, f, k) : e <= g
  BY <1>1, SmallestNat
<1>3. d \in InSheet(v, f, k)
  BY <1>2
<1>4. EarliestLook(v, f, k) = o.row.look
  BY DEF EarliestLook
<1> HIDE DEF d
<1>5. o \in Observations
  BY <1>3 DEF InSheet, ViewTyped, Cells
<1>6. PICK g \in Sheets : o.row \in Workbook[g]
  BY <1>5 DEF Observations
<1> QED BY <1>4, <1>6 DEF Looks

\* A view of now.
LEMMA ViewOfNow ==
    ASSUME ReadingInv
    PROVE  ViewTyped(CurrentView) /\ Earlier(CurrentView)
BY DEF ReadingInv, ReadingsTypeOK, ViewTyped, Earlier, CurrentView

\* Nothing is deleted, and no identity or fact passes to another learner.
Kept ==
    /\ \A k \in Keys : identity[k] # None => identity'[k] # None /\ identity'[k].who = identity[k].who
    /\ \A c \in Cells : noted[c] # None => noted'[c] # None
    /\ \A c \in Cells : credited[c] # None => credited'[c] # None /\ credited'[c].who = credited[c].who

\* A batch gets no rows after its import, and those it has lose no confirmation.
Counts ==
    \A f \in Sheets : sheet[f] # None =>
        /\ sheet'[f] # None
        /\ \A c \in Cells : noted'[c] # None /\ noted'[c].batch = f =>
             /\ noted[c] # None /\ noted[c].batch = f
             /\ noted[c].match = "CONFIRMED_BINDING" => noted'[c].match = "CONFIRMED_BINDING"

\* The invariant of the calls, when one of them moves.
LEMMA CallMoves ==
    ASSUME ReadingInv, Kept, Counts, NEW t \in ReadingCalls, NEW r, CallTyped(r),
           r.pc # "idle" => r.view = CurrentView, r.pc = "confirm" => sheet[r.f] # None,
           readingCall' = [readingCall EXCEPT ![t] = r]
    PROVE  Calls'
<1>1. readingCall' = [u \in ReadingCalls |-> readingCall'[u]]
  BY DEF ReadingInv, Calls
<1>2. ASSUME NEW x, Current(x), NEW y, y = x PROVE Current(y)'
  <2>1. CallTyped(x) /\ (x.pc # "idle" => x.f \in Sheets)
    BY <1>2 DEF Current, CallTyped
  <2>2. ASSUME x.pc # "idle" PROVE Earlier(x.view)'
    BY <1>2, <2>2 DEF Current, Earlier, Kept
  <2>3. ASSUME x.pc = "confirm" PROVE sheet'[x.f] # None /\ Counted(x.view, x.f)'
    BY <1>2, <2>1, <2>3 DEF Current, Counted, Counts
  <2> QED BY <1>2, <2>1, <2>2, <2>3 DEF Current
<1>3. ASSUME NEW u \in ReadingCalls
      PROVE  Current(readingCall[u])'
  <2>1. readingCall'[u] = (IF u = t THEN r ELSE readingCall[u])
    BY DEF ReadingInv, Calls
  <2>2. Current(readingCall[u])
    BY DEF ReadingInv, Calls
  <2>3. Current(r)
    BY ViewOfNow DEF Current, Counted, CurrentView
  <2> QED BY <1>2, <2>1, <2>2, <2>3
<1> QED BY <1>1, <1>3 DEF Calls

\* The writes of a call whose confirmed and eligible rows are of whom their identities are bound to.
LEMMA WritesAreBound ==
    ASSUME ReadingInv, NEW v, ViewTyped(v), Earlier(v), NEW D, D \subseteq Cells,
           NEW rows, rows = [c \in D |-> rows[c]], \A c \in D : rows[c] \in Observations,
           identity' \in [Keys -> Identities \cup {None}],
           \A k \in Keys : identity[k] # None => identity'[k] # None /\ identity'[k].who = identity[k].who,
           \A c \in D : rows[c].match = "CONFIRMED_BINDING" \/ rows[c].personal =>
               identity'[c[1]] # None /\ rows[c].who = identity'[c[1]].who,
           ~\E c \in D : Collides(v, c, rows[c]),
           WriteRows(v, rows)
    PROVE  /\ noted' \in [Cells -> Observations \cup {None}] /\ credited' \in [Cells -> Facts \cup {None}]
           /\ crossed' \subseteq Cells
           /\ FactsAreBound' /\ Kept
<1>1. DOMAIN rows = D
  OBVIOUS
<1>2. noted' = [c \in Cells |-> IF c \in D THEN rows[c] ELSE noted[c]]
  BY <1>1 DEF WriteRows
<1>3. credited' = [c \in Cells |-> IF c \in D THEN Synced(v, c, rows[c]) ELSE credited[c]]
  BY <1>1 DEF WriteRows
<1>4. crossed' \subseteq Cells
  BY <1>1 DEF WriteRows, ReadingInv, ReadingsTypeOK
<1>5. noted' \in [Cells -> Observations \cup {None}] /\ \A c \in Cells : noted[c] # None => noted'[c] # None
  BY <1>2, ReadingAssumption DEF ReadingInv, ReadingsTypeOK
<1>6. ASSUME NEW c \in Cells
      PROVE  /\ credited'[c] \in Facts \cup {None}
             /\ credited[c] # None => credited'[c] # None /\ credited'[c].who = credited[c].who
             /\ credited'[c] # None => identity'[c[1]] # None /\ credited'[c].who = identity'[c[1]].who
  <2>1. c[1] \in Keys
    BY DEF Cells
  <2>2. credited[c] # None => /\ credited[c] \in Facts /\ identity[c[1]] # None
                              /\ credited[c].who = identity[c[1]].who
    BY DEF ReadingInv, ReadingsTypeOK, FactsAreBound
  <2>3. CASE c \notin D
    BY <1>3, <2>1, <2>2, <2>3
  <2>4. CASE c \in D
    <3> DEFINE o == rows[c]
               old == v.credited[c]
    <3>1. credited'[c] = Synced(v, c, o)
      BY <1>3, <2>4
    <3>2. old # None => credited[c] # None
      BY DEF Earlier
    <3>3. o.personal => identity'[c[1]] # None /\ o.who = identity'[c[1]].who /\ o.who \in Pupils
      BY <2>1, <2>4 DEF Identities
    <3>4. CASE old = None /\ o.personal
      <4>1. credited'[c] = [who |-> o.who, status |-> "CONFIRMED"]
        BY <3>1, <3>4 DEF Synced
      <4>2. credited'[c] \in Facts /\ credited'[c].who = o.who
        BY <3>3, <3>4, <4>1 DEF Facts
      <4>3. credited[c] = None
        BY <2>4, <3>4 DEF Collides
      <4> QED BY <3>3, <3>4, <4>2, <4>3, ReadingAssumption
    <3>5. CASE old # None /\ credited'[c] \in {[credited[c] EXCEPT !.status = "CONFIRMED"],
                                               [credited[c] EXCEPT !.status = "CANCELLED"]}
      <4>1. credited'[c] \in Facts /\ credited'[c].who = credited[c].who
        BY <2>2, <3>2, <3>5 DEF Facts
      <4> QED BY <2>1, <2>2, <3>2, <3>5, <4>1, ReadingAssumption
    <3>6. CASE credited'[c] = credited[c]
      BY <2>1, <2>2, <3>6
    <3> QED BY <3>1, <3>4, <3>5, <3>6 DEF Synced
  <2> QED BY <2>3, <2>4
<1>7. credited' \in [Cells -> Facts \cup {None}]
  BY <1>3, <1>6
<1>8. ASSUME NEW c \in Cells, noted'[c] # None, noted'[c].match = "CONFIRMED_BINDING"
      PROVE  identity'[c[1]] # None /\ noted'[c].who = identity'[c[1]].who
  <2>1. c[1] \in Keys
    BY DEF Cells
  <2>2. CASE c \in D
    BY <1>2, <1>8, <2>2
  <2>3. CASE c \notin D
    BY <1>2, <1>8, <2>1, <2>3 DEF ReadingInv, FactsAreBound
  <2> QED BY <2>2, <2>3
<1>9. FactsAreBound'
  BY <1>6, <1>8 DEF FactsAreBound
<1> QED BY <1>4, <1>5, <1>6, <1>7, <1>9 DEF Kept

\* A row that counts as eligible is of whom its identity is bound to, and complete as far as the view shows.
MayCount(v, c, o) ==
    o.personal =>
        /\ o.who \in Pupils /\ o.who = identity'[c[1]].who
        /\ v.noted[c] = noted[c] => o.match = "CONFIRMED_BINDING" /\ o.row.recording = "COMPLETE"

\* Where the view missed nothing, the facts that it writes follow its rows.
LEMMA WritesFollow ==
    ASSUME ReadingInv, NEW v, ViewTyped(v), NEW D, D \subseteq Cells,
           NEW rows, rows = [c \in D |-> rows[c]], \A c \in D : rows[c] \in Observations,
           \A k \in Keys : identity[k] # None => identity'[k] # None /\ identity'[k].who = identity[k].who,
           \A c \in D : MayCount(v, c, rows[c]),
           WriteRows(v, rows)
    PROVE  FactsFollow'
<1> SUFFICES ASSUME NEW c \in Cells, c \notin crossed'
             PROVE  /\ (credited'[c] # None /\ credited'[c].status = "CONFIRMED") <=> (noted'[c] # None /\ noted'[c].personal)
                    /\ noted'[c] # None /\ noted'[c].personal =>
                         noted'[c].match = "CONFIRMED_BINDING" /\ noted'[c].row.recording = "COMPLETE"
  BY DEF FactsFollow
<1>1. DOMAIN rows = D
  OBVIOUS
<1>2. /\ noted'[c] = (IF c \in D THEN rows[c] ELSE noted[c])
      /\ credited'[c] = (IF c \in D THEN Synced(v, c, rows[c]) ELSE credited[c])
      /\ c \notin crossed
      /\ c \in D => v.noted[c] = noted[c] /\ v.credited[c] = credited[c]
  BY <1>1 DEF WriteRows
<1>3. CASE c \notin D
  BY <1>2, <1>3 DEF ReadingInv, FactsFollow
<1>4. CASE c \in D
  <2> DEFINE o == rows[c]
             old == v.credited[c]
  <2>0. MayCount(v, c, o)
    BY <1>4
  <2>1. o \in Observations /\ o # None /\ o.personal \in BOOLEAN
    BY <1>4, ReadingAssumption DEF Observations
  <2>2. noted'[c] = o /\ credited'[c] = Synced(v, c, o)
    BY <1>2, <1>4
  <2>3. old = credited[c] /\ (old # None => old \in Facts)
    BY <1>2, <1>4 DEF ReadingInv, ReadingsTypeOK
  <2>4. old # None /\ o.personal => old.who = o.who
    <3>1. c[1] \in Keys
      BY DEF Cells
    <3> QED BY <2>0, <2>3, <3>1 DEF ReadingInv, FactsAreBound, MayCount
  <2>5. (credited'[c] # None /\ credited'[c].status = "CONFIRMED") <=> o.personal
    <3>1. CASE old = None /\ o.personal
      <4>1. credited'[c] = [who |-> o.who, status |-> "CONFIRMED"]
        BY <2>2, <3>1 DEF Synced
      <4>2. credited'[c] \in Facts
        BY <2>0, <3>1, <4>1 DEF Facts, MayCount
      <4> QED BY <3>1, <4>1, <4>2, ReadingAssumption
    <3>2. CASE old = None /\ ~o.personal
      BY <2>2, <2>3, <3>2 DEF Synced
    <3>3. CASE old # None /\ o.personal
      BY <2>2, <2>3, <2>4, <3>3, ReadingAssumption DEF Synced, Facts
    <3>4. CASE old # None /\ ~o.personal
      BY <2>2, <2>3, <3>4 DEF Synced, Facts
    <3> QED BY <2>1, <3>1, <3>2, <3>3, <3>4
  <2> QED BY <1>2, <1>4, <2>0, <2>1, <2>2, <2>5 DEF MayCount
<1> QED BY <1>3, <1>4

(***************************************************************************)
(* The steps.                                                              *)
(***************************************************************************)
LEMMA ReadingsStart == ReadingsInit => ReadingInv
<1> SUFFICES ASSUME ReadingsInit PROVE ReadingInv
  OBVIOUS
<1>1. ReadingsTypeOK
  BY DEF ReadingsInit, ReadingsTypeOK
<1>2. FactsAreBound /\ FactsFollow /\ ConfirmedIsWhole /\ BatchesExist
  BY DEF ReadingsInit, FactsAreBound, FactsFollow, ConfirmedIsWhole, BatchesExist
<1>3. Current(AtDesk)
  BY DEF Current, CallTyped, AtDesk
<1>4. Calls
  BY <1>3 DEF ReadingsInit, Calls
<1> QED BY <1>1, <1>2, <1>4 DEF ReadingInv

\* What the writes of a call establish; who opens its view, or ends without a write, establishes it too.
Written ==
    ReadingsTypeOK' /\ FactsAreBound' /\ FactsFollow' /\ ConfirmedIsWhole' /\ BatchesExist' /\ Kept /\ Counts

LEMMA NothingWritten ==
    ASSUME ReadingInv, UNCHANGED <<tables, crossed>>, placed' \in Placements
    PROVE  Written /\ (UNCHANGED readingCall => Calls')
<1>1. ReadingsTypeOK'
  BY DEF ReadingInv, ReadingsTypeOK, tables
<1>2. FactsAreBound' /\ FactsFollow'
  BY DEF ReadingInv, FactsAreBound, FactsFollow, tables
<1>3. ConfirmedIsWhole' /\ BatchesExist'
  BY DEF ReadingInv, ConfirmedIsWhole, BatchesExist, tables
<1>4. Kept /\ Counts
  BY DEF Kept, Counts, tables
<1>5. ASSUME UNCHANGED readingCall PROVE Calls'
  BY <1>5 DEF ReadingInv, Calls, Current, Earlier, Counted, tables
<1> QED BY <1>1, <1>2, <1>3, <1>4, <1>5 DEF Written

LEMMA AtDeskTyped == CallTyped(AtDesk) /\ AtDesk.pc = "idle"
BY DEF CallTyped, AtDesk

LEMMA OpenWorkbookStep ==
    ASSUME ReadingInv, NEW t \in ReadingCalls, NEW f \in Sheets, OpenWorkbook(t, f)
    PROVE  ReadingInv'
<1> DEFINE r == [pc |-> "import", f |-> f, pick |-> <<>>, view |-> CurrentView]
<1>1. readingCall' = [readingCall EXCEPT ![t] = r] /\ UNCHANGED <<placed, tables, crossed>>
  BY DEF OpenWorkbook
<1>2. CallTyped(r)
  BY ViewOfNow DEF CallTyped
<1>3. placed' \in Placements
  BY <1>1 DEF ReadingInv, ReadingsTypeOK
<1>4. Written
  BY <1>1, <1>3, NothingWritten
<1>5. Calls'
  <2>1. r.view = CurrentView /\ r.pc = "import"
    OBVIOUS
  <2> HIDE DEF r
  <2> QED BY <1>1, <1>2, <1>4, <2>1, CallMoves DEF Written
<1> QED BY <1>4, <1>5 DEF ReadingInv, Written

LEMMA OpenConfirmationStep ==
    ASSUME ReadingInv, NEW t \in ReadingCalls, NEW f \in Sheets, NEW K \in SUBSET Keys, NEW pick \in [K -> Pupils],
           OpenConfirmation(t, f, pick)
    PROVE  ReadingInv'
<1> DEFINE r == [pc |-> "confirm", f |-> f, pick |-> pick, view |-> CurrentView]
           v == CurrentView
<1>1. readingCall' = [readingCall EXCEPT ![t] = r] /\ UNCHANGED <<placed, tables, crossed>>
  BY DEF OpenConfirmation
<1>2. ViewTyped(v)
  BY ViewOfNow
<1>3. ASSUME NEW k \in DOMAIN pick
      PROVE  /\ pick[k] \in Pupils /\ InSheet(v, f, k) # {} /\ EarliestLook(v, f, k) \in Looks
             /\ v.identity[k] # None => v.identity[k].who = pick[k]
  <2>1. Confirmable(v, f, k, pick[k])
    BY DEF OpenConfirmation
  <2>2. InSheet(v, f, k) # {} /\ StaysBound(v, k, pick[k], EarliestLook(v, f, k))
    BY <2>1 DEF Confirmable
  <2> HIDE DEF v
  <2>3. EarliestLook(v, f, k) \in Looks
    BY <1>2, <2>2, EarliestIsSeen
  <2> QED BY <2>2, <2>3 DEF StaysBound
<1>4. CallTyped(r)
  BY <1>2, <1>3 DEF CallTyped
<1>5. placed' \in Placements
  BY <1>1 DEF ReadingInv, ReadingsTypeOK
<1>6. Written
  BY <1>1, <1>5, NothingWritten
<1>7. Calls'
  <2>1. r.view = CurrentView /\ sheet[r.f] # None
    BY DEF OpenConfirmation
  <2> HIDE DEF r
  <2> QED BY <1>1, <1>4, <1>6, <2>1, CallMoves DEF Written
<1> QED BY <1>6, <1>7 DEF ReadingInv, Written

LEMMA ImportStep ==
    ASSUME ReadingInv, NEW t \in ReadingCalls, ImportWorkbook(t)
    PROVE  ReadingInv'
<1> DEFINE f == readingCall[t].f
           v == readingCall[t].view
           D == {CellOf(row) : row \in Workbook[f]}
           rows == [c \in D |-> Upserted(v, f, c)]
<1>1. readingCall' = [readingCall EXCEPT ![t] = AtDesk] /\ placed' = placed
  BY DEF ImportWorkbook, Leave
<1>2. f \in Sheets /\ ViewTyped(v) /\ Earlier(v)
  BY DEF ImportWorkbook, ReadingIs, ReadingInv, Calls, Current, CallTyped
<1>3. placed' \in Placements
  BY <1>1 DEF ReadingInv, ReadingsTypeOK
<1>4. Kept /\ Counts => Calls'
  BY <1>1, AtDeskTyped, CallMoves
<1>5. CASE UNCHANGED <<tables, crossed>>
  BY <1>3, <1>4, <1>5, NothingWritten DEF ReadingInv, Written
<1>6. CASE sheet[f] = None /\ ~\E c \in DOMAIN rows : Collides(v, c, rows[c])
  <2>1. /\ sheet' = [sheet EXCEPT ![f] = IF \E c \in DOMAIN rows : rows[c].match # "CONFIRMED_BINDING" THEN "MATCHING"
                                       ELSE "CONFIRMED"]
        /\ WriteRows(v, rows) /\ identity' = identity
    BY <1>6 DEF ImportWorkbook
  <2>2. D \subseteq Cells
    <3>1. ASSUME NEW c \in D PROVE c \in Cells
      BY <1>2, RowsOfACell
    <3> QED BY <3>1
  <2>3. ASSUME NEW c \in D
        PROVE  /\ rows[c] \in Observations /\ rows[c].batch = f
               /\ rows[c].personal => rows[c].match = "CONFIRMED_BINDING" /\ rows[c].row.recording = "COMPLETE"
               /\ rows[c].match = "CONFIRMED_BINDING" \/ rows[c].personal =>
                    identity'[c[1]] # None /\ rows[c].who = identity'[c[1]].who
    <3>1. rows[c] = Upserted(v, f, c) /\ c[1] \in Keys
      BY <2>2 DEF Cells
    <3> QED BY <1>2, <2>1, <3>1, ObservationIsBound DEF Earlier
  <2>4. identity' \in [Keys -> Identities \cup {None}] /\ sheet' \in [Sheets -> {None, "MATCHING", "CONFIRMED"}]
    BY <2>1 DEF ReadingInv, ReadingsTypeOK
  <2>5. rows = [c \in D |-> rows[c]] /\ DOMAIN rows = D
    OBVIOUS
  <2> HIDE DEF rows, D, f, v
  <2>6. /\ noted' \in [Cells -> Observations \cup {None}] /\ credited' \in [Cells -> Facts \cup {None}]
        /\ crossed' \subseteq Cells /\ FactsAreBound' /\ Kept
    BY <1>2, <1>6, <2>1, <2>2, <2>3, <2>4, <2>5, WritesAreBound
  <2>7. FactsFollow'
    <3>1. \A k \in Keys : identity[k] # None => identity'[k] # None /\ identity'[k].who = identity[k].who
      BY <2>1
    <3>2. ASSUME NEW c \in D, rows[c].personal PROVE rows[c].who \in Pupils /\ rows[c].who = identity'[c[1]].who
      <4>1. identity'[c[1]] \in Identities
        BY <2>2, <2>3, <2>4, <3>2 DEF Cells
      <4> QED BY <2>3, <3>2, <4>1 DEF Identities
    <3>3. WriteRows(v, rows)
      BY <2>1
    <3>4. /\ \A c \in D : rows[c] \in Observations
          /\ \A c \in D : MayCount(v, c, rows[c])
      BY <2>3, <3>2 DEF MayCount
    <3> QED BY <1>2, <2>2, <2>5, <3>1, <3>3, <3>4, WritesFollow
  <2>8. \A c \in Cells : noted'[c] = IF c \in D THEN rows[c] ELSE noted[c]
    BY <2>5, <2>1 DEF WriteRows
  <2>9. /\ sheet[f] = None /\ sheet'[f] # None /\ \A g \in Sheets : g # f => sheet'[g] = sheet[g]
        /\ sheet'[f] = "CONFIRMED" => \A c \in D : rows[c].match = "CONFIRMED_BINDING"
    <3>1. sheet[f] = None /\ f \in Sheets /\ sheet \in [Sheets -> {None, "MATCHING", "CONFIRMED"}]
      BY <1>2, <1>6 DEF ReadingInv, ReadingsTypeOK
    <3>2. sheet'[f] = IF \E c \in D : rows[c].match # "CONFIRMED_BINDING" THEN "MATCHING" ELSE "CONFIRMED"
      BY <2>1, <2>5, <3>1
    <3> QED BY <2>1, <3>1, <3>2, ReadingAssumption
  <2>10. \A c \in Cells : noted[c] # None => noted[c].batch \in Sheets /\ noted[c].batch # f
    BY <2>9 DEF ReadingInv, ReadingsTypeOK, BatchesExist, Observations
  <2>11. Counts
    BY <2>3, <2>8, <2>9 DEF Counts
  <2>12. BatchesExist' /\ ConfirmedIsWhole'
    BY <2>3, <2>8, <2>9, <2>10 DEF ReadingInv, BatchesExist, ConfirmedIsWhole
  <2> QED BY <1>3, <1>4, <2>4, <2>6, <2>7, <2>11, <2>12 DEF ReadingInv, ReadingsTypeOK
<1> QED BY <1>5, <1>6 DEF ImportWorkbook

\* A row that is confirmed.
LEMMA ConfirmedIsBound ==
    ASSUME ReadingInv, NEW v, ViewTyped(v), NEW c \in Cells, noted[c] # None, NEW p \in Pupils
    PROVE  /\ Confirmed(v, c, p) \in Observations /\ Confirmed(v, c, p).who = p
           /\ Confirmed(v, c, p).match = "CONFIRMED_BINDING" /\ Confirmed(v, c, p).batch = noted[c].batch
           /\ Confirmed(v, c, p).personal /\ v.noted[c] = noted[c] => Confirmed(v, c, p).row.recording = "COMPLETE"
<1>1. noted[c] \in Observations
  BY DEF ReadingInv, ReadingsTypeOK
<1>2. /\ Eligible(v, Match("CONFIRMED_BINDING", p), v.noted[c].row) \in BOOLEAN
      /\ Eligible(v, Match("CONFIRMED_BINDING", p), v.noted[c].row) => v.noted[c].row.recording = "COMPLETE"
  BY DEF Eligible
<1> QED BY <1>1, <1>2 DEF Confirmed, Observations, MatchStatuses

LEMMA ConfirmStep ==
    ASSUME ReadingInv, NEW t \in ReadingCalls, ConfirmIdentities(t)
    PROVE  ReadingInv'
<1> DEFINE f == readingCall[t].f
           v == readingCall[t].view
           pick == readingCall[t].pick
           D == {c \in Cells : c[1] \in DOMAIN pick /\ c[2] \in InSheet(v, f, c[1])}
           rows == [c \in D |-> Confirmed(v, c, pick[c[1]])]
<1>1. readingCall' = [readingCall EXCEPT ![t] = AtDesk] /\ placed' = placed
  BY DEF ConfirmIdentities, Leave
<1>2. /\ f \in Sheets /\ ViewTyped(v) /\ Earlier(v) /\ DOMAIN pick \subseteq Keys
      /\ \A k \in DOMAIN pick : /\ pick[k] \in Pupils /\ InSheet(v, f, k) # {} /\ EarliestLook(v, f, k) \in Looks
                                /\ v.identity[k] # None => v.identity[k].who = pick[k]
      /\ sheet[f] # None /\ Counted(v, f)
  BY DEF ConfirmIdentities, ReadingIs, ReadingInv, Calls, Current, CallTyped
<1>3. placed' \in Placements
  BY <1>1 DEF ReadingInv, ReadingsTypeOK
<1>4. Kept /\ Counts => Calls'
  BY <1>1, AtDeskTyped, CallMoves
<1>5. CASE UNCHANGED <<tables, crossed>>
  BY <1>3, <1>4, <1>5, NothingWritten DEF ReadingInv, Written
<1> DEFINE Writes ==
             /\ \A k \in DOMAIN pick : v.identity[k] = None => identity[k] = None
             /\ ~\E c \in D : Collides(v, c, rows[c])
             /\ identity' = [k \in Keys |-> IF k \in DOMAIN pick THEN [who |-> pick[k], look |-> EarliestLook(v, f, k)]
                                          ELSE identity[k]]
             /\ sheet' = [sheet EXCEPT ![f] = Remaining(v, f, D)]
             /\ WriteRows(v, rows)
<1>6. Writes \/ UNCHANGED <<tables, crossed>>
  BY DEF ConfirmIdentities
<1> HIDE DEF f, v, pick
<1>7. CASE Writes
  <2>1. /\ identity' = [k \in Keys |-> IF k \in DOMAIN pick THEN [who |-> pick[k], look |-> EarliestLook(v, f, k)]
                                      ELSE identity[k]]
        /\ sheet' = [sheet EXCEPT ![f] = Remaining(v, f, D)]
        /\ WriteRows(v, rows)
    BY <1>7
  <2>2. identity' \in [Keys -> Identities \cup {None}]
    BY <1>2, <2>1 DEF ReadingInv, ReadingsTypeOK, Identities
  <2>3. ASSUME NEW k \in Keys, identity[k] # None
        PROVE  identity'[k] # None /\ identity'[k].who = identity[k].who
    <3>1. CASE k \notin DOMAIN pick
      BY <2>1, <2>3, <3>1
    <3>2. CASE k \in DOMAIN pick
      <4>1. v.identity[k] # None
        BY <1>7, <2>3, <3>2
      <4>2. identity[k].who = pick[k]
        BY <1>2, <3>2, <4>1 DEF Earlier
      <4>3. identity'[k] = [who |-> pick[k], look |-> EarliestLook(v, f, k)]
        BY <2>1, <3>2
      <4>4. identity'[k] \in Identities
        BY <1>2, <3>2, <4>3 DEF Identities
      <4> QED BY <4>2, <4>3, <4>4, ReadingAssumption
    <3> QED BY <3>1, <3>2
  <2>4. ASSUME NEW c \in D
        PROVE  /\ rows[c] \in Observations /\ identity'[c[1]] # None /\ rows[c].who = identity'[c[1]].who
               /\ noted[c] # None /\ rows[c].match = "CONFIRMED_BINDING" /\ rows[c].batch = noted[c].batch
               /\ rows[c].personal /\ v.noted[c] = noted[c] => rows[c].row.recording = "COMPLETE"
    <3>1. noted[c] # None
      <4>1. c[1] \in Keys /\ c[2] \in Days /\ c = <<c[1], c[2]>> /\ c[2] \in InSheet(v, f, c[1])
        BY DEF Cells
      <4>2. v.noted[c] # None
        BY <4>1 DEF InSheet
      <4> QED BY <1>2, <4>2 DEF Earlier
    <3>2. /\ rows[c] \in Observations /\ rows[c].who = pick[c[1]]
          /\ rows[c].match = "CONFIRMED_BINDING" /\ rows[c].batch = noted[c].batch
          /\ rows[c].personal /\ v.noted[c] = noted[c] => rows[c].row.recording = "COMPLETE"
      <4>1. rows[c] = Confirmed(v, c, pick[c[1]]) /\ c \in Cells /\ pick[c[1]] \in Pupils
        BY <1>2
      <4> DEFINE p == pick[c[1]]
      <4> HIDE DEF p
      <4>2. /\ Confirmed(v, c, p) \in Observations /\ Confirmed(v, c, p).who = p
            /\ Confirmed(v, c, p).match = "CONFIRMED_BINDING" /\ Confirmed(v, c, p).batch = noted[c].batch
            /\ Confirmed(v, c, p).personal /\ v.noted[c] = noted[c] => Confirmed(v, c, p).row.recording = "COMPLETE"
        BY <1>2, <3>1, <4>1, ConfirmedIsBound DEF p
      <4> QED BY <4>1, <4>2 DEF p
    <3>3. c[1] \in Keys /\ c[1] \in DOMAIN pick
      BY DEF Cells
    <3>4. identity'[c[1]] = [who |-> pick[c[1]], look |-> EarliestLook(v, f, c[1])]
      BY <2>1, <3>3
    <3>5. identity'[c[1]] \in Identities
      BY <1>2, <3>3, <3>4 DEF Identities
    <3> QED BY <3>1, <3>2, <3>4, <3>5, ReadingAssumption
  <2>5. sheet' \in [Sheets -> {None, "MATCHING", "CONFIRMED"}]
    BY <2>1 DEF ReadingInv, ReadingsTypeOK, Remaining
  <2>6. rows = [c \in D |-> rows[c]] /\ DOMAIN rows = D /\ D \subseteq Cells
    OBVIOUS
  <2> HIDE DEF rows, D
  <2>7. /\ noted' \in [Cells -> Observations \cup {None}] /\ credited' \in [Cells -> Facts \cup {None}]
        /\ crossed' \subseteq Cells /\ FactsAreBound' /\ Kept
    <3>1. ~\E c \in D : Collides(v, c, rows[c])
      BY <1>7
    <3>2. WriteRows(v, rows)
      BY <2>1
    <3>3. \A c \in D : rows[c] \in Observations
      BY <2>4
    <3>4. \A c \in D : rows[c].match = "CONFIRMED_BINDING" \/ rows[c].personal =>
            identity'[c[1]] # None /\ rows[c].who = identity'[c[1]].who
      BY <2>4
    <3> QED BY <1>2, <2>2, <2>3, <2>6, <3>1, <3>2, <3>3, <3>4, WritesAreBound
  <2>8. FactsFollow'
    <3>1. ASSUME NEW c \in D PROVE rows[c].who \in Pupils /\ rows[c].who = identity'[c[1]].who
      <4>1. identity'[c[1]] \in Identities
        BY <2>2, <2>4, <2>6 DEF Cells
      <4> QED BY <2>4, <4>1 DEF Identities
    <3>2. WriteRows(v, rows)
      BY <2>1
    <3>3. /\ \A c \in D : rows[c] \in Observations
          /\ \A c \in D : MayCount(v, c, rows[c])
      BY <2>4, <3>1 DEF MayCount
    <3>4. \A k \in Keys : identity[k] # None => identity'[k] # None /\ identity'[k].who = identity[k].who
      BY <2>3
    <3> QED BY <1>2, <2>6, <3>2, <3>3, <3>4, WritesFollow
  <2>9. \A c \in Cells : noted'[c] = IF c \in D THEN rows[c] ELSE noted[c]
    BY <2>1, <2>6 DEF WriteRows
  <2>10. /\ \A g \in Sheets : g # f => sheet'[g] = sheet[g]
         /\ sheet'[f] = Remaining(v, f, D) /\ sheet'[f] # None
    <3>1. f \in Sheets /\ sheet \in [Sheets -> {None, "MATCHING", "CONFIRMED"}]
      BY <1>2 DEF ReadingInv, ReadingsTypeOK
    <3>2. Remaining(v, f, D) # None
      BY ReadingAssumption DEF Remaining
    <3> QED BY <2>1, <3>1, <3>2
  <2>11. \A c \in Cells : noted[c] # None => noted[c].batch \in Sheets
    BY DEF ReadingInv, ReadingsTypeOK, Observations
  <2>12. Counts
    BY <2>4, <2>9, <2>10 DEF Counts
  <2>13. BatchesExist'
    BY <2>4, <2>9, <2>10, <2>11 DEF ReadingInv, BatchesExist
  <2>14. ASSUME NEW c \in Cells, noted'[c] # None, sheet'[noted'[c].batch] = "CONFIRMED"
         PROVE  noted'[c].match = "CONFIRMED_BINDING"
    <3>1. CASE c \in D
      BY <2>4, <2>9, <3>1
    <3>2. CASE c \notin D /\ noted[c].batch = f
      <4>1. noted'[c] = noted[c] /\ noted[c] # None /\ Remaining(v, f, D) = "CONFIRMED"
        BY <2>9, <2>10, <2>14, <3>2
      <4>2. /\ v.noted[c] # None /\ v.noted[c].batch = f
            /\ v.noted[c].match = "CONFIRMED_BINDING" => noted[c].match = "CONFIRMED_BINDING"
        BY <1>2, <3>2, <4>1 DEF Counted
      <4> QED BY <3>2, <4>1, <4>2 DEF Remaining
    <3>3. CASE c \notin D /\ noted[c].batch # f
      BY <2>9, <2>10, <2>11, <2>14, <3>3 DEF ReadingInv, ConfirmedIsWhole
    <3> QED BY <3>1, <3>2, <3>3
  <2> QED BY <1>3, <1>4, <2>2, <2>5, <2>7, <2>8, <2>12, <2>13, <2>14 DEF ReadingInv, ReadingsTypeOK, ConfirmedIsWhole
<1> QED BY <1>5, <1>6, <1>7

LEMMA ReadingStep == ReadingInv /\ [ReadingsNext]_readingVars => ReadingInv'
<1> SUFFICES ASSUME ReadingInv, [ReadingsNext]_readingVars PROVE ReadingInv'
  OBVIOUS
<1>1. CASE Relate
  <2>1. placed' \in Placements /\ UNCHANGED <<tables, readingCall, crossed>>
    BY <1>1 DEF Relate
  <2> QED BY <2>1, NothingWritten DEF ReadingInv, Written
<1>2. CASE UNCHANGED readingVars
  <2>1. UNCHANGED <<tables, readingCall, crossed>> /\ placed' \in Placements
    BY <1>2 DEF readingVars, tables, ReadingInv, ReadingsTypeOK
  <2> QED BY <2>1, NothingWritten DEF ReadingInv, Written
<1>3. ASSUME NEW t \in ReadingCalls, ReadingCall(t) PROVE ReadingInv'
  BY <1>3, OpenWorkbookStep, OpenConfirmationStep, ImportStep, ConfirmStep DEF ReadingCall
<1> QED BY <1>1, <1>2, <1>3 DEF ReadingsNext

(***************************************************************************)
(* The theorems.                                                           *)
(***************************************************************************)
\* The rows keep their types, and every call that is under way holds a view of an earlier state, in which the
\* identities that it binds were unbound or of the same learner, and which has all the rows of the batch it confirms.
THEOREM ReadingInvariant == ReadingsSpec => []ReadingInv
<1>1. ReadingsInit => ReadingInv
  BY ReadingsStart
<1>2. ReadingInv /\ [ReadingsNext]_readingVars => ReadingInv'
  BY ReadingStep
<1> QED BY <1>1, <1>2, PTL DEF ReadingsSpec

\* A fact, and an observation that counts as confirmed, are of the learner to whom their source identity is bound,
\* whatever imports and confirmations overlap (import_hq_reading_workbook, confirm_hq_reading_identities).
THEOREM FactsBound == ReadingsSpec => []FactsAreBound
<1>1. ReadingInv => FactsAreBound
  BY DEF ReadingInv
<1> QED BY <1>1, ReadingInvariant, PTL

\* Facts in force are those of the eligible observations wherever no call wrote from an outdated view, and a batch that
\* is CONFIRMED has no row left to confirm, although what remains is counted in the view of the call
\* (_sync_source_fact, confirm_hq_reading_identities).
THEOREM ReadingsAreSafe == ReadingsSpec => []ReadingsSafe
<1>1. ReadingInv => ReadingsSafe
  BY DEF ReadingInv, ReadingsSafe
<1> QED BY <1>1, ReadingInvariant, PTL

(***************************************************************************)
(* ReadingSync: events within their bounds, one browser, no class skipped  *)
(* or forgotten.                                                           *)
(***************************************************************************)
\* An event at work: nobody looks once too often, who collects has the worker, an import that is named is there, and
\* the chain has been through all that comes before.
EventOK(s, E) ==
    /\ E \in ChainEvent
    /\ E.pc = "poll" => E.polls < Polls
    /\ E.pc = "collecting" => active = s
    /\ E.import => source[E.index] # "none"
    /\ E.index >= first /\ \A i \in Task : first <= i /\ i < E.index => i \in concluded

\* A chain that has lost no event is at work or has been through all.
SyncInv ==
    /\ report \in [Task -> Reports] /\ source \in [Task -> DOMAIN Rank]
    /\ receipt \in [Task -> {"NONE", "EMPTY", "IMPORT", "FAILED"}]
    /\ active \in Slots \cup {None} /\ dropped \in BOOLEAN /\ first \in Task
    /\ chain = [s \in Slots |-> chain[s]]
    /\ \A s \in Slots : chain[s] # None => EventOK(s, chain[s])
    /\ concluded \subseteq Task /\ \A i \in concluded : i >= first
    /\ dropped \/ (\E s \in Slots : chain[s] # None) \/ \A i \in Task : first <= i => i \in concluded
    /\ \A i \in Task : receipt[i] = "EMPTY" => report[i] = "empty"

LEMMA EventsBegin ==
    ASSUME NEW i \in Task
    PROVE  /\ Event(i) \in ChainEvent /\ Event(i) # None /\ Event(i).pc = "queued" /\ Event(i).index = i /\ ~Event(i).import
           /\ Event(i) = [pc |-> "queued", index |-> i, attempt |-> 0, polls |-> 0, import |-> FALSE, digest |-> FALSE,
                          collected |-> FALSE, retry |-> 0]
<1>1. Attempts \in Nat /\ Polls \in Nat /\ Retries \in Nat
  BY SyncAssumption
<1>2. 0 \in 0 .. Attempts /\ 0 \in 0 .. Polls /\ 0 \in 0 .. Retries
  BY <1>1
<1>3. Event(i) \in ChainEvent
  BY <1>2 DEF Event, ChainEvent, Steps
<1> QED BY <1>3, EventAssumption DEF Event

LEMMA SyncStart == SyncInit => SyncInv
<1> SUFFICES ASSUME SyncInit PROVE SyncInv
  OBVIOUS
<1>1. PICK s \in Slots : chain = [t \in Slots |-> IF t = s THEN Event(first) ELSE None]
  BY DEF SyncInit
<1>2. first \in Task /\ Event(first) \in ChainEvent /\ Event(first) # None /\ Event(first).pc = "queued"
      /\ Event(first).index = first /\ ~Event(first).import
  BY EventsBegin DEF SyncInit
<1>3. \A t \in Slots : chain[t] # None => EventOK(t, chain[t])
  BY <1>1, <1>2 DEF EventOK, Task
<1>4. chain[s] # None /\ chain = [t \in Slots |-> chain[t]]
  BY <1>1, <1>2
<1> QED BY <1>2, <1>3, <1>4 DEF SyncInit, SyncInv, Rank

\* One slot takes another step; all that an event relies on stays.
LEMMA SlotMoves ==
    ASSUME SyncInv, NEW s \in Slots, NEW E, EventOK(s, E)', E # None, chain' = [chain EXCEPT ![s] = E],
           active' \in Slots \cup {None}, \A t \in Slots \ {s} : At(t, "collecting") => active' = t,
           UNCHANGED <<report, first>>, concluded \subseteq concluded', concluded' \subseteq Task,
           \A i \in concluded' : i >= first, dropped' \in BOOLEAN, dropped => dropped',
           source' \in [Task -> DOMAIN Rank], \A i \in Task : source[i] # "none" => source'[i] # "none",
           receipt' \in [Task -> {"NONE", "EMPTY", "IMPORT", "FAILED"}],
           \A i \in Task : receipt'[i] = "EMPTY" => report[i] = "empty"
    PROVE  SyncInv'
<1>1. \A t \in Slots : chain'[t] = IF t = s THEN E ELSE chain[t]
  BY DEF SyncInv
<1>2. chain' = [t \in Slots |-> chain'[t]]
  BY DEF SyncInv
<1>3. ASSUME NEW t \in Slots, chain'[t] # None PROVE EventOK(t, chain[t])'
  <2>1. CASE t = s
    BY <2>1, <1>1
  <2>2. CASE t # s
    BY <2>2, <1>1, <1>3 DEF SyncInv, EventOK, ChainEvent, At
  <2> QED BY <2>1, <2>2
<1> QED BY <1>1, <1>2, <1>3 DEF SyncInv

\* A step of an event that changes no more than the event.
LEMMA EventMoves ==
    ASSUME SyncInv, NEW s \in Slots, chain[s] # None, NEW pc \in Steps \ {"collecting"}, Go(s, pc),
           pc = "poll" => chain[s].polls < Polls, active' \in Slots \cup {None},
           \A t \in Slots \ {s} : At(t, "collecting") => active' = t,
           UNCHANGED <<report, first, concluded>>, dropped' \in BOOLEAN, dropped => dropped',
           source' \in [Task -> DOMAIN Rank], \A i \in Task : source[i] # "none" => source'[i] # "none",
           receipt' \in [Task -> {"NONE", "EMPTY", "IMPORT", "FAILED"}],
           \A i \in Task : receipt'[i] = "EMPTY" => report[i] = "empty"
    PROVE  SyncInv'
<1>1. PICK E : E = [chain[s] EXCEPT !.pc = pc]
  OBVIOUS
<1>2. chain' = [chain EXCEPT ![s] = E]
  BY <1>1 DEF Go, SyncInv
<1>3. chain[s] \in ChainEvent /\ EventOK(s, chain[s])
  BY DEF SyncInv, EventOK
<1>4. E \in ChainEvent /\ E # None /\ E.pc = pc /\ E.index = chain[s].index /\ E.import = chain[s].import
      /\ E.polls = chain[s].polls
  BY <1>1, <1>3, EventAssumption DEF ChainEvent
<1>5. EventOK(s, E)'
  BY <1>3, <1>4 DEF EventOK, ChainEvent
<1>6. concluded' = concluded /\ concluded \subseteq Task /\ \A i \in concluded : i >= first
  BY DEF SyncInv
<1> QED BY <1>2, <1>4, <1>5, <1>6, SlotMoves

\* A failed invocation is delivered again, or the event is lost.
LEMMA DeliveredAgain ==
    ASSUME SyncInv, NEW s \in Slots, chain[s] # None
    PROVE  \/ Redelivered(s) = None
           \/ /\ Redelivered(s) # None /\ Redelivered(s) \in ChainEvent /\ Redelivered(s).pc = "queued"
              /\ Redelivered(s).index = chain[s].index /\ Redelivered(s).import = chain[s].import
<1>1. chain[s] \in ChainEvent
  BY DEF SyncInv, EventOK
<1>2. Retries \in Nat /\ chain[s].retry \in 0 .. Retries
  BY <1>1, SyncAssumption DEF ChainEvent
<1>3. PICK n : n = chain[s].retry + 1
  OBVIOUS
<1>4. CASE chain[s].retry < Retries
  <2>1. Redelivered(s) = [chain[s] EXCEPT !.pc = "queued", !.collected = FALSE, !.retry = n]
    BY <1>1, <1>3, <1>4 DEF Redelivered, ChainEvent
  <2>2. n \in 0 .. Retries
    BY <1>2, <1>3, <1>4
  <2>3. Redelivered(s) \in ChainEvent /\ Redelivered(s).pc = "queued"
        /\ Redelivered(s).index = chain[s].index /\ Redelivered(s).import = chain[s].import
    BY <1>1, <2>1, <2>2 DEF ChainEvent, Steps
  <2> QED BY <2>3, EventAssumption
<1>5. CASE ~(chain[s].retry < Retries)
  BY <1>5 DEF Redelivered
<1> QED BY <1>4, <1>5

\* An event is lost.
LEMMA EventIsLost ==
    ASSUME SyncInv, NEW s \in Slots, chain' = [chain EXCEPT ![s] = None], dropped' = TRUE, active' = active,
           ~At(s, "collecting"), UNCHANGED <<report, first, concluded, source>>,
           receipt' \in [Task -> {"NONE", "EMPTY", "IMPORT", "FAILED"}],
           \A i \in Task : receipt'[i] = "EMPTY" => report[i] = "empty"
    PROVE  SyncInv'
<1>1. \A t \in Slots : chain'[t] = IF t = s THEN None ELSE chain[t]
  BY DEF SyncInv
<1>2. chain' = [t \in Slots |-> chain'[t]]
  BY DEF SyncInv
<1>3. \A t \in Slots : chain'[t] # None => EventOK(t, chain[t])'
  BY <1>1 DEF SyncInv, EventOK
<1> QED BY <1>1, <1>2, <1>3 DEF SyncInv

LEMMA Thrown ==
    ASSUME SyncInv, NEW s \in Slots, chain[s] # None, ~At(s, "collecting"), Throw(s),
           UNCHANGED <<report, first, concluded, source, active>>,
           receipt' \in [Task -> {"NONE", "EMPTY", "IMPORT", "FAILED"}],
           \A i \in Task : receipt'[i] = "EMPTY" => report[i] = "empty"
    PROVE  SyncInv'
<1>1. PICK E : E = Redelivered(s)
  OBVIOUS
<1>2. chain' = [chain EXCEPT ![s] = E] /\ dropped' = (dropped \/ E = None)
  BY <1>1 DEF Throw
<1>3. CASE E = None
  BY <1>2, <1>3, EventIsLost
<1>4. CASE E # None
  <2>1. E \in ChainEvent /\ E.pc = "queued" /\ E.index = chain[s].index /\ E.import = chain[s].import
    BY <1>1, <1>4, DeliveredAgain
  <2>2. EventOK(s, chain[s])
    BY DEF SyncInv
  <2>3. EventOK(s, E)'
    BY <2>1, <2>2 DEF EventOK
  <2>4. /\ active' \in Slots \cup {None} /\ dropped' \in BOOLEAN /\ (dropped => dropped')
        /\ \A t \in Slots \ {s} : At(t, "collecting") => active' = t
        /\ source' \in [Task -> DOMAIN Rank] /\ concluded' \subseteq Task /\ \A i \in concluded' : i >= first
    BY <1>2 DEF SyncInv, EventOK, At
  <2> QED BY <1>2, <1>4, <2>3, <2>4, SlotMoves
<1> QED BY <1>3, <1>4

\* An invocation dispatches the next event of its class or of the class that follows.
LEMMA Dispatched ==
    ASSUME SyncInv, NEW s \in Slots, chain[s] # None, ~At(s, "collecting"), NEW event, NEW through,
           Dispatch(s, event, through), through \subseteq {chain[s].index},
           event = None => through = {chain[s].index} /\ chain[s].index = Tasks,
           event # None =>
             /\ event \in ChainEvent /\ event.pc = "queued" /\ (event.import => source[event.index] # "none")
             /\ event.index >= first
             /\ \A i \in Task : first <= i /\ i < event.index => i \in concluded \cup through
    PROVE  SyncInv'
<1>1. EventOK(s, chain[s]) /\ chain[s].index \in Task /\ chain[s].index >= first
  BY DEF SyncInv, EventOK, ChainEvent
<1>2. UNCHANGED <<report, first, source, receipt, active>>
  BY DEF Dispatch
<1>3. /\ concluded \cup through \subseteq Task /\ \A i \in concluded \cup through : i >= first
      /\ concluded \subseteq Task /\ \A i \in concluded : i >= first
  BY <1>1 DEF SyncInv
<1>4. /\ active' \in Slots \cup {None} /\ \A t \in Slots \ {s} : At(t, "collecting") => active' = t
      /\ source' \in [Task -> DOMAIN Rank] /\ receipt' \in [Task -> {"NONE", "EMPTY", "IMPORT", "FAILED"}]
      /\ \A i \in Task : receipt'[i] = "EMPTY" => report[i] = "empty"
      /\ dropped \in BOOLEAN
  BY <1>2 DEF SyncInv, EventOK, At
<1>5. ASSUME chain' = [chain EXCEPT ![s] = event], dropped' = dropped, concluded' = concluded \cup through
      PROVE  SyncInv'
  <2>1. CASE event # None
    <3>1. EventOK(s, event)'
      BY <1>2, <1>5, <2>1 DEF EventOK
    <3> QED BY <1>2, <1>3, <1>4, <1>5, <2>1, <3>1, SlotMoves
  <2>2. CASE event = None
    <3>1. \A t \in Slots : chain'[t] = IF t = s THEN None ELSE chain[t]
      BY <1>5, <2>2 DEF SyncInv
    <3>2. chain' = [t \in Slots |-> chain'[t]]
      BY <1>5 DEF SyncInv
    <3>3. \A t \in Slots : chain'[t] # None => EventOK(t, chain[t])'
      BY <1>2, <1>5, <3>1 DEF SyncInv, EventOK
    <3>4. \A i \in Task : first <= i => i \in concluded'
      <4>1. Tasks \in Nat /\ \A i \in Task : i < Tasks \/ i = Tasks
        BY SyncAssumption DEF Task
      <4> QED BY <1>1, <1>5, <2>2, <4>1 DEF EventOK
    <3> QED BY <1>2, <1>3, <1>5, <3>1, <3>2, <3>3, <3>4 DEF SyncInv
  <2> QED BY <2>1, <2>2
<1>6. ASSUME Throw(s), concluded' = concluded PROVE SyncInv'
  BY <1>2, <1>4, <1>6, Thrown
<1>7. ASSUME NEW t \in Slots \ {s}, event # None, chain[t] = None,
             chain' = [chain EXCEPT ![t] = event, ![s] = Redelivered(s)],
             dropped' = (dropped \/ Redelivered(s) = None), concluded' = concluded \cup through
      PROVE  SyncInv'
  <2>1. PICK E : E = Redelivered(s)
    OBVIOUS
  <2>2. \A u \in Slots : chain'[u] = IF u = s THEN E ELSE IF u = t THEN event ELSE chain[u]
    BY <1>7, <2>1 DEF SyncInv
  <2>3. chain' = [u \in Slots |-> chain'[u]]
    BY <1>7 DEF SyncInv
  <2>4. \A u \in Slots : chain[u] # None => EventOK(u, chain[u])
    BY DEF SyncInv
  <2>5. E # None => E \in ChainEvent /\ E.pc = "queued" /\ E.index = chain[s].index /\ E.import = chain[s].import
    BY <2>1, DeliveredAgain
  <2>6. chain'[s] # None => EventOK(s, chain[s])'
    BY <1>1, <1>2, <1>7, <2>2, <2>5 DEF EventOK
  <2>7. chain'[t] # None /\ EventOK(t, chain[t])'
    BY <1>2, <1>7, <2>2 DEF EventOK
  <2>8. ASSUME NEW u \in Slots \ {s, t}, chain'[u] # None PROVE EventOK(u, chain[u])'
    BY <1>2, <1>7, <2>2, <2>4, <2>8 DEF EventOK
  <2>9. \A u \in Slots : chain'[u] # None => EventOK(u, chain[u])'
    BY <2>6, <2>7, <2>8
  <2>10. dropped' \in BOOLEAN
    BY <1>4, <1>7
  <2> QED BY <1>2, <1>3, <1>7, <2>3, <2>7, <2>9, <2>10 DEF SyncInv
<1> QED BY <1>5, <1>6, <1>7 DEF Dispatch

LEMMA MovesOn ==
    ASSUME SyncInv, NEW s \in Slots, chain[s] # None, NEW pc \in Steps \ {"collecting"}, Go(s, pc),
           pc = "poll" => chain[s].polls < Polls, UNCHANGED <<report, first, source, receipt, active, concluded, dropped>>
    PROVE  SyncInv'
<1>1. /\ active' \in Slots \cup {None} /\ \A t \in Slots \ {s} : At(t, "collecting") => active' = t
      /\ dropped' \in BOOLEAN /\ (dropped => dropped') /\ source' \in [Task -> DOMAIN Rank]
      /\ \A i \in Task : source[i] # "none" => source'[i] # "none"
      /\ receipt' \in [Task -> {"NONE", "EMPTY", "IMPORT", "FAILED"}]
      /\ \A i \in Task : receipt'[i] = "EMPTY" => report[i] = "empty"
  BY DEF SyncInv, EventOK, At
<1> QED BY <1>1, EventMoves

\* What an answer leads to.
LEMMA AnswersLead ==
    ASSUME NEW s, NEW posted \in BOOLEAN, NEW review \in BOOLEAN
    PROVE  /\ Decided(s, posted, review) \in {"next", "poll"}
           /\ Decided(s, posted, review) = "poll" => chain[s].polls < Polls
           /\ Answered(s) \in {"next", "poll", "resume"}
           /\ Answered(s) = "poll" => chain[s].polls < Polls
<1>1. ASSUME NEW a \in BOOLEAN, NEW b \in BOOLEAN
      PROVE  Decided(s, a, b) \in {"next", "poll"} /\ (Decided(s, a, b) = "poll" => chain[s].polls < Polls)
  <2>1. CASE a \/ b
    BY <2>1 DEF Decided
  <2>2. CASE ~(a \/ b) /\ chain[s].polls < Polls
    BY <2>2 DEF Decided
  <2>3. CASE ~(a \/ b) /\ ~(chain[s].polls < Polls)
    BY <2>3 DEF Decided
  <2> QED BY <2>1, <2>2, <2>3
<1>2. PICK a \in BOOLEAN, b \in BOOLEAN :
         Answered(s) = IF Status(chain[s].index) = "SOURCE_SAVED_POSTING_NOT_CREATED" THEN "resume" ELSE Decided(s, a, b)
  BY DEF Answered, Completed
<1> QED BY <1>1, <1>2

\* What is saved stays saved, and only an empty report's receipt says that it is empty.
LEMMA SavingKeeps ==
    ASSUME SyncInv, NEW i \in Task, NEW reached \in {"none", "saved", "batched", "submitted"}, NEW audited \in BOOLEAN,
           Saving(i, reached, audited)
    PROVE  /\ source' \in [Task -> DOMAIN Rank] /\ receipt' \in [Task -> {"NONE", "EMPTY", "IMPORT", "FAILED"}]
           /\ \A j \in Task : source[j] # "none" => source'[j] # "none"
           /\ \A j \in Task : receipt'[j] = "EMPTY" => report[j] = "empty"
<1>1. Rank["none"] = 0 /\ Rank["saved"] = 1 /\ Rank["batched"] = 2 /\ Rank["submitted"] = 3
      /\ Rank["review"] = 4 /\ Rank["posted"] = 5 /\ DOMAIN Rank = {"none", "saved", "batched", "submitted", "review", "posted"}
  BY DEF Rank
<1>2. source \in [Task -> DOMAIN Rank] /\ receipt \in [Task -> {"NONE", "EMPTY", "IMPORT", "FAILED"}]
      /\ \A j \in Task : receipt[j] = "EMPTY" => report[j] = "empty"
  BY DEF SyncInv
<1>3. PICK v : v = IF Rank[reached] > Rank[source[i]] THEN reached ELSE source[i]
  OBVIOUS
<1>4. source' = [source EXCEPT ![i] = v]
  BY <1>2, <1>3 DEF Saving
<1>5. v \in DOMAIN Rank /\ (source[i] # "none" => v # "none")
  BY <1>1, <1>2, <1>3
<1>6. receipt' = receipt \/ receipt' = [receipt EXCEPT ![i] = IF report[i] = "empty" THEN "EMPTY" ELSE "IMPORT"]
  BY DEF Saving
<1> QED BY <1>2, <1>4, <1>5, <1>6

\* Every step keeps the events within their bounds, the worker with who collects, and the chain whole.
LEMMA SyncStep == SyncInv /\ [SyncNext]_syncVars => SyncInv'
<1> SUFFICES ASSUME SyncInv, [SyncNext]_syncVars PROVE SyncInv'
  OBVIOUS
<1>1. /\ source \in [Task -> DOMAIN Rank] /\ receipt \in [Task -> {"NONE", "EMPTY", "IMPORT", "FAILED"}]
      /\ \A i \in Task : receipt[i] = "EMPTY" => report[i] = "empty"
      /\ \A s \in Slots : chain[s] # None => EventOK(s, chain[s]) /\ chain[s] \in ChainEvent /\ chain[s].index \in Task
      /\ \A s \in Slots : At(s, "collecting") => active = s
      /\ active \in Slots \cup {None} /\ dropped \in BOOLEAN /\ concluded \subseteq Task /\ \A i \in concluded : i >= first
  BY DEF SyncInv, EventOK, ChainEvent, At
<1>2. CASE UNCHANGED syncVars
  BY <1>2 DEF syncVars, SyncInv, EventOK
<1>3. ASSUME NEW s \in Slots, Plan(s) PROVE SyncInv'
  <2>1. chain[s] # None /\ ~At(s, "collecting") /\ UNCHANGED <<report, first, source, receipt, active, concluded>>
    BY <1>3 DEF Plan, At
  <2>2. CASE Throw(s)
    BY <1>1, <2>1, <2>2, Thrown
  <2>3. ASSUME NEW pc \in {"next", "status", "lookup", "collect"}, Go(s, pc), dropped' = dropped PROVE SyncInv'
    BY <2>1, <2>3, MovesOn DEF Steps
  <2> QED BY <1>3, <2>2, <2>3 DEF Plan
<1>4. ASSUME NEW s \in Slots, AskStatus(s) \/ Lookup(s) PROVE SyncInv'
  <2>1. chain[s] # None /\ UNCHANGED <<report, first, source, receipt, active, concluded, dropped>>
    BY <1>4 DEF AskStatus, Lookup, At
  <2>2. Answered(s) \in {"next", "poll", "resume"} /\ (Answered(s) = "poll" => chain[s].polls < Polls)
    BY AnswersLead
  <2>3. PICK pc \in {"next", "poll", "resume", "collect", "catch"} : Go(s, pc) /\ (pc = "poll" => chain[s].polls < Polls)
    BY <1>4, <2>2 DEF AskStatus, Lookup
  <2> QED BY <2>1, <2>3, MovesOn DEF Steps
<1>5. ASSUME NEW s \in Slots, StartCollection(s) PROVE SyncInv'
  <2>1. chain[s] # None /\ UNCHANGED <<report, first, source, receipt, concluded, dropped>>
    BY <1>5 DEF StartCollection, At
  <2>2. CASE Busy
    BY <1>5, <2>1, <2>2, MovesOn DEF StartCollection, Steps
  <2>3. CASE ~Busy
    <3>1. PICK E : E = [chain[s] EXCEPT !.pc = "collecting"]
      OBVIOUS
    <3>2. chain' = [chain EXCEPT ![s] = E] /\ active' = s /\ active = None
      BY <1>5, <2>3, <3>1 DEF StartCollection, Go, Busy, SyncInv
    <3>3. E \in ChainEvent /\ E # None /\ E.pc = "collecting" /\ E.index = chain[s].index /\ E.import = chain[s].import
      BY <1>1, <2>1, <3>1, EventAssumption DEF ChainEvent, Steps
    <3>4. EventOK(s, E)'
      BY <1>1, <2>1, <3>2, <3>3 DEF EventOK
    <3>5. \A t \in Slots \ {s} : ~At(t, "collecting")
      BY <1>1, <3>2, SyncAssumption
    <3> QED BY <1>1, <2>1, <3>2, <3>3, <3>4, <3>5, SlotMoves
  <2> QED BY <2>2, <2>3
<1>6. ASSUME NEW s \in Slots, Collected(s) PROVE SyncInv'
  <2>1. chain[s] # None /\ UNCHANGED <<report, first, source, receipt, active, concluded, dropped>>
    BY <1>6 DEF Collected, At
  <2>2. PICK E : E = [chain[s] EXCEPT !.pc = "import", !.collected = TRUE]
    OBVIOUS
  <2>3. chain' = [chain EXCEPT ![s] = E]
    BY <1>6, <2>2 DEF Collected, SyncInv
  <2>4. E \in ChainEvent /\ E # None /\ E.pc = "import" /\ E.index = chain[s].index /\ E.import = chain[s].import
    BY <1>1, <2>1, <2>2, EventAssumption DEF ChainEvent, Steps
  <2>5. EventOK(s, E)'
    BY <1>1, <2>1, <2>4 DEF EventOK
  <2> QED BY <1>1, <2>1, <2>3, <2>4, <2>5, SlotMoves
<1>7. ASSUME NEW s \in Slots, NotWaitedFor(s) PROVE SyncInv'
  <2>1. chain[s] # None /\ Go(s, "catch") /\ UNCHANGED <<report, first, source, receipt, active, concluded, dropped>>
    BY <1>7 DEF NotWaitedFor, At
  <2> QED BY <2>1, MovesOn DEF Steps
<1>8. CASE CollectionEnds
  <2>1. active \in Slots /\ active' = None /\ UNCHANGED <<report, first, source, receipt, concluded, dropped>>
    BY <1>1, <1>8 DEF CollectionEnds
  <2>2. CASE At(active, "collecting")
    <3>1. chain[active] # None /\ Go(active, "catch") /\ \A t \in Slots \ {active} : ~At(t, "collecting")
      BY <1>1, <1>8, <2>2 DEF CollectionEnds, At
    <3> QED BY <1>1, <2>1, <3>1, EventMoves DEF Steps
  <2>3. CASE ~At(active, "collecting")
    <3>1. chain' = chain /\ \A t \in Slots : ~At(t, "collecting")
      BY <1>1, <1>8, <2>3 DEF CollectionEnds
    <3> QED BY <2>1, <3>1 DEF SyncInv, EventOK, At
  <2> QED BY <2>2, <2>3
<1>9. ASSUME NEW s \in Slots, NEW reached \in {"none", "saved", "batched", "submitted"},
             NEW audited \in BOOLEAN, NEW answered \in BOOLEAN,
             Import(s, reached, audited, answered) \/ Resume(s, reached, audited, answered)
      PROVE  SyncInv'
  <2>1. chain[s] # None /\ ~At(s, "collecting") /\ UNCHANGED <<report, first, active, concluded, dropped>>
    BY <1>9 DEF Import, Resume, At
  <2>2. chain[s].index \in Task
    BY <1>1, <2>1
  <2>3. /\ source' \in [Task -> DOMAIN Rank] /\ receipt' \in [Task -> {"NONE", "EMPTY", "IMPORT", "FAILED"}]
        /\ \A j \in Task : source[j] # "none" => source'[j] # "none"
        /\ \A j \in Task : receipt'[j] = "EMPTY" => report[j] = "empty"
    <3>1. CASE Saving(chain[s].index, reached, audited)
      BY <2>2, <3>1, SavingKeeps
    <3>2. CASE UNCHANGED <<source, receipt>>
      BY <1>1, <3>2
    <3> QED BY <1>9, <3>1, <3>2 DEF Import, Resume
  <2>4. PICK posted \in BOOLEAN, review \in BOOLEAN : Go(s, "catch") \/ Go(s, Decided(s, posted, review))
    BY <1>9 DEF Import, Resume
  <2>5. Decided(s, posted, review) \in {"next", "poll"} /\ (Decided(s, posted, review) = "poll" => chain[s].polls < Polls)
    BY AnswersLead
  <2>6. PICK pc \in {"next", "poll", "catch"} : Go(s, pc) /\ (pc = "poll" => chain[s].polls < Polls)
    BY <2>4, <2>5
  <2>7. /\ active' \in Slots \cup {None} /\ \A t \in Slots \ {s} : At(t, "collecting") => active' = t
        /\ dropped' \in BOOLEAN /\ (dropped => dropped')
    BY <1>1, <2>1
  <2> QED BY <2>1, <2>3, <2>6, <2>7, EventMoves DEF Steps
<1>10. ASSUME NEW s \in Slots, Poll(s) PROVE SyncInv'
  <2>1. PICK n : n = chain[s].polls + 1
    OBVIOUS
  <2>2. PICK b : b = (source[chain[s].index] # "none")
    OBVIOUS
  <2>3. PICK event : event = [Event(chain[s].index) EXCEPT !.import = b, !.polls = n]
    OBVIOUS
  <2>4. At(s, "poll") /\ Dispatch(s, event, {})
    BY <1>10, <2>1, <2>2, <2>3 DEF Poll
  <2>5. chain[s] # None /\ ~At(s, "collecting") /\ chain[s].polls < Polls /\ chain[s].index \in Task /\ chain[s].polls \in Nat
    BY <1>1, <2>4, SyncAssumption DEF At, EventOK, ChainEvent
  <2>6. n \in 0 .. Polls
    BY <2>1, <2>5, SyncAssumption
  <2>7. event \in ChainEvent /\ event.pc = "queued" /\ event.index = chain[s].index /\ event.import = b
    <3>1. b \in BOOLEAN
      BY <2>2
    <3>2. PICK E \in ChainEvent : E = Event(chain[s].index) /\ E.pc = "queued" /\ E.index = chain[s].index
      BY <2>5, EventsBegin
    <3>3. event = [E EXCEPT !.import = b, !.polls = n]
      BY <2>3, <3>2
    <3> QED BY <2>6, <3>1, <3>2, <3>3 DEF ChainEvent
  <2> QED BY <1>1, <2>2, <2>4, <2>5, <2>7, EventAssumption, Dispatched DEF EventOK
<1>11. ASSUME NEW s \in Slots, Retry(s) PROVE SyncInv'
  <2>1. PICK n, b : n = chain[s].attempt + 1 /\ b = (chain[s].digest \/ chain[s].collected)
    OBVIOUS
  <2>2. PICK event : event = [Event(chain[s].index) EXCEPT !.attempt = n, !.import = chain[s].import, !.digest = b,
                                                           !.polls = chain[s].polls]
    OBVIOUS
  <2>3. At(s, "catch") /\ chain[s].attempt < Attempts /\ Dispatch(s, event, {})
    BY <1>11, <2>1, <2>2 DEF Retry
  <2>4. /\ chain[s] # None /\ ~At(s, "collecting") /\ chain[s] \in ChainEvent /\ chain[s].attempt \in Nat
        /\ chain[s].index \in Task /\ chain[s].polls \in 0 .. Polls /\ chain[s].import \in BOOLEAN
        /\ chain[s].digest \in BOOLEAN /\ chain[s].collected \in BOOLEAN
    BY <1>1, <2>3, SyncAssumption DEF At, ChainEvent
  <2>5. n \in 0 .. Attempts /\ b \in BOOLEAN
    BY <2>1, <2>3, <2>4, SyncAssumption
  <2>6. event \in ChainEvent /\ event.pc = "queued" /\ event.index = chain[s].index /\ event.import = chain[s].import
    BY <2>2, <2>4, <2>5, EventsBegin DEF ChainEvent
  <2> QED BY <1>1, <2>3, <2>4, <2>6, EventAssumption, Dispatched DEF EventOK
<1>12. ASSUME NEW s \in Slots, Outcome(s) PROVE SyncInv'
  <2>1. chain[s] # None /\ ~At(s, "collecting") /\ UNCHANGED <<report, first, source, active, concluded>>
    BY <1>12 DEF Outcome, At
  <2>2. receipt' = [receipt EXCEPT ![chain[s].index] = "FAILED"] \/ receipt' = receipt
    BY <1>12 DEF Outcome
  <2>3. /\ receipt' \in [Task -> {"NONE", "EMPTY", "IMPORT", "FAILED"}]
        /\ \A i \in Task : receipt'[i] = "EMPTY" => report[i] = "empty"
    BY <1>1, <2>1, <2>2
  <2>4. CASE Throw(s)
    BY <2>1, <2>3, <2>4, Thrown
  <2>5. CASE Go(s, "next") /\ dropped' = dropped
    BY <1>1, <2>1, <2>3, <2>5, EventMoves DEF Steps
  <2> QED BY <1>12, <2>4, <2>5 DEF Outcome
<1>13. ASSUME NEW s \in Slots, Next(s) PROVE SyncInv'
  <2>1. PICK i : i = chain[s].index
    OBVIOUS
  <2>2. PICK event : event = Following(i)
    OBVIOUS
  <2>3. chain[s] # None /\ ~At(s, "collecting") /\ Dispatch(s, event, {i})
    BY <1>13, <2>1, <2>2 DEF Next, At
  <2>4. i \in Task /\ i >= first /\ (\A j \in Task : first <= j /\ j < i => j \in concluded) /\ Tasks \in Nat
    BY <1>1, <2>1, <2>3, SyncAssumption DEF EventOK
  <2>5. CASE i < Tasks
    <3>1. i + 1 \in Task /\ event = Event(i + 1)
      BY <2>2, <2>4, <2>5 DEF Following, Task
    <3>2. event \in ChainEvent /\ event.pc = "queued" /\ event.index = i + 1 /\ ~event.import /\ event # None
      BY <3>1, EventsBegin
    <3>3. event.index >= first /\ \A j \in Task : first <= j /\ j < event.index => j \in concluded \cup {i}
      <4>1. first \in Int /\ i \in Int /\ \A j \in Task : j \in Int
        BY <2>4 DEF Task, SyncInv
      <4> QED BY <2>4, <3>2, <4>1
    <3> QED BY <2>1, <2>3, <3>2, <3>3, Dispatched
  <2>6. CASE ~(i < Tasks)
    <3>1. event = None /\ i = Tasks
      BY <2>2, <2>4, <2>6 DEF Following, Task
    <3> QED BY <2>1, <2>3, <3>1, Dispatched
  <2> QED BY <2>5, <2>6
<1>14. ASSUME NEW i \in Task, Posting(i) PROVE SyncInv'
  <2>1. PICK end \in {"posted", "review"} : source' = [source EXCEPT ![i] = end]
    BY <1>14 DEF Posting
  <2>2. source' \in [Task -> DOMAIN Rank] /\ \A j \in Task : source[j] # "none" => source'[j] # "none"
    BY <1>1, <2>1 DEF Rank
  <2>3. UNCHANGED <<report, first, receipt, active, chain, concluded, dropped>>
    BY <1>14 DEF Posting
  <2>4. \A s \in Slots : chain'[s] # None => EventOK(s, chain[s])'
    BY <1>1, <2>2, <2>3 DEF EventOK
  <2> QED BY <2>2, <2>3, <2>4 DEF SyncInv
<1> QED BY <1>2, <1>3, <1>4, <1>5, <1>6, <1>7, <1>8, <1>9, <1>10, <1>11, <1>12, <1>13, <1>14 DEF SyncNext, Invocation

\* Where the rows of every report can be credited (a report whose rows are all blocked has its receipt refreshed to SUCCESS),
\* no event exceeds its bounds, one browser collects at a time, only what is complete is skipped, and no class is forgotten.
THEOREM SyncIsSafe ==
    ASSUME "blocked" \notin Reports
    PROVE  SyncSpec => []SyncSafe
<1>1. SyncInv => SyncSafe
  <2> SUFFICES ASSUME SyncInv PROVE SyncSafe
    OBVIOUS
  <2>1. SyncTypeOK
    BY DEF SyncInv, SyncTypeOK, EventOK
  <2>2. OneCollection
    BY DEF SyncInv, OneCollection, EventOK, At
  <2>3. SkipsOnlyComplete
    <3>1. SUFFICES ASSUME NEW i \in Task, Skips(i), report[i] # "empty" PROVE report[i] = "full" /\ source[i] = "posted"
      BY DEF SkipsOnlyComplete
    <3>2. report[i] \in {"full", "partial"}
      BY <3>1, SyncAssumption DEF SyncInv
    <3>3. Status(i) = "SUCCESS"
      BY <3>1 DEF SyncInv, Skips
    <3>4. source[i] # "review"
      BY <3>3 DEF Status
    <3>5. Identified(i) \/ report[i] # "partial"
      BY <3>3, <3>4 DEF Status
    <3>6. Completed(i)
      BY <3>3, <3>4, <3>5 DEF Status
    <3> QED BY <3>2, <3>5, <3>6 DEF Identified, Completed
  <2>4. ChainVisitsAll
    <3>1. SUFFICES ASSUME \A s \in Slots : chain[s] = None, ~dropped PROVE concluded = first .. Tasks
      BY DEF ChainVisitsAll
    <3>2. \A i \in Task : first <= i => i \in concluded
      BY <3>1 DEF SyncInv
    <3>3. concluded \subseteq Task /\ (\A i \in concluded : i >= first) /\ first \in Task /\ Tasks \in Nat
      BY SyncAssumption DEF SyncInv
    <3>4. first \in Int /\ Task = 1 .. Tasks
      BY <3>3 DEF Task
    <3>5. ASSUME NEW i \in first .. Tasks PROVE i \in concluded
      BY <3>2, <3>3, <3>4
    <3>6. ASSUME NEW i \in concluded PROVE i \in first .. Tasks
      BY <3>3, <3>4
    <3> QED BY <3>5, <3>6
  <2> QED BY <2>1, <2>2, <2>3, <2>4 DEF SyncSafe
<1> QED BY <1>1, SyncStart, SyncStep, PTL DEF SyncSpec

(***************************************************************************)
(* CloudRunRelease: only sound revisions have ordinary traffic.            *)
(***************************************************************************)
Normal(r) == r \in Revisions /\ revision[r].status = "normal"
Sound(r) == Normal(r) /\ revision[r].quality = "sound"
Kinds == {"stable", "targeted", "gray", "full"}
RunSteps == {"idle", "BUILD_PLAN", "CREATE_CANDIDATE", "AWAIT_CANDIDATE", "VERIFY_CANDIDATE_CONFIG", "SET_TARGETED_ROUTE",
             "TARGETED_HEALTH", "TARGETED_ROUTE_ACTIVE", "CANDIDATE_SELF_PROBE", "PROVEN", "AWAIT_GRAY", "SET_FULL", "AWAIT_FULL",
             "restoring", "confirming", "cleaning", "failing", "FAILED", "BLOCKED", "READY_FOR_RELEASE", "TRAFFIC_RESTORED",
             "GRAY", "VERIFIED"}
RunRecords == [pc : RunSteps, mode : Modes \cup {None}, loopback : BOOLEAN, promotion : {"ready", "gray", "full", None},
               stable : Revisions \cup {None}, cand : Revisions \cup {None}, changed : BOOLEAN, again : BOOLEAN]

\* The steps of a run from which it gives its candidate ordinary traffic.
Promoting == {"PROVEN", "AWAIT_GRAY", "SET_FULL", "AWAIT_FULL"}

\* A run's stable revision is sound; its candidate is not yet made, or normal, or proven as far as the run's step says; and
\* what the run does not know to have changed has no route to the candidate.
RunOK ==
    /\ run.mode \in Modes /\ Sound(run.stable) /\ run.cand \in Revisions \ {run.stable}
    /\ run.pc = "CREATE_CANDIDATE" => run.mode = "release"
    /\ run.mode = "release" /\ run.pc \in {"BUILD_PLAN", "CREATE_CANDIDATE"} => revision[run.cand].status = "NONE"
    /\ run.mode # "release" => Normal(run.cand)
    /\ run.pc \in {"VERIFY_CANDIDATE_CONFIG", "SET_TARGETED_ROUTE", "TARGETED_HEALTH", "TARGETED_ROUTE_ACTIVE",
                   "CANDIDATE_SELF_PROBE"} => Normal(run.cand)
    /\ run.pc \in Promoting => Sound(run.cand)
    /\ run.pc \in {"confirming", "cleaning"} => order.kind = "stable"
    /\ ~run.changed /\ run.pc # "VERIFIED" /\ order.cand = run.cand /\ order.open => order.kind = "stable"

ReleaseInv ==
    /\ revision \in [Revisions -> [status : {"NONE", "MAKING", "normal", "failed"}, pod : BOOLEAN, quality : Qualities]]
    /\ order \in [stable : Revisions, cand : Revisions \cup {None}, kind : Kinds, open : BOOLEAN]
    /\ traffic \in [stable : Revisions, cand : Revisions \cup {None}, kind : Kinds]
    /\ task \in Revisions \cup {None} /\ (task # None => revision[task].status \in {"MAKING", "normal"})
    /\ run \in RunRecords
    /\ Sound(order.stable) /\ Sound(traffic.stable)
    /\ order.kind # "stable" => Normal(order.cand)
    /\ order.kind \in {"gray", "full"} => Sound(order.cand)
    /\ traffic.kind \in {"gray", "full"} => Sound(traffic.cand)
    /\ run.pc # "idle" => RunOK

LEMMA ReleaseStart == ReleaseInit => ReleaseInv
<1> SUFFICES ASSUME ReleaseInit PROVE ReleaseInv
  OBVIOUS
<1>1. NoRun \in RunRecords /\ NoRun.pc = "idle"
  BY DEF NoRun, RunRecords, RunSteps
<1>2. revision \in [Revisions -> [status : {"NONE", "MAKING", "normal", "failed"}, pod : BOOLEAN, quality : Qualities]]
      /\ Sound(FirstStable)
  BY ReleaseAssumption DEF ReleaseInit, Qualities, Sound, Normal
<1>3. order \in [stable : Revisions, cand : Revisions \cup {None}, kind : Kinds, open : BOOLEAN] /\ order.kind = "stable"
      /\ traffic \in [stable : Revisions, cand : Revisions \cup {None}, kind : Kinds] /\ traffic.kind = "stable"
      /\ order.stable = FirstStable /\ traffic.stable = FirstStable
  BY ReleaseAssumption DEF ReleaseInit, Kinds
<1> QED BY <1>1, <1>2, <1>3 DEF ReleaseInit, ReleaseInv

\* What is normal stays as it is, and a revision that is not there is made by a run only.
RevisionsKept ==
    /\ revision' \in [Revisions -> [status : {"NONE", "MAKING", "normal", "failed"}, pod : BOOLEAN, quality : Qualities]]
    /\ \A r \in Revisions : /\ revision[r].status = "NONE" => revision'[r].status = "NONE"
                            /\ revision[r].status = "normal" =>
                                 revision'[r].status = "normal" /\ revision'[r].quality = revision[r].quality

LEMMA KeptIsSound == RevisionsKept => \A r : (Normal(r) => Normal(r)') /\ (Sound(r) => Sound(r)')
BY DEF RevisionsKept, Normal, Sound

\* The run takes a step of its own that leaves the platform alone.
LEMMA RunTurns ==
    ASSUME ReleaseInv, run.pc # "idle", RevisionsKept, UNCHANGED <<order, traffic, task>>,
           task # None => revision'[task].status \in {"MAKING", "normal"},
           run' \in RunRecords, run'.mode = run.mode, run'.stable = run.stable, run'.cand = run.cand,
           run'.pc = run.pc \/ run'.pc \notin {"BUILD_PLAN", "CREATE_CANDIDATE"} \/ (run'.pc = "CREATE_CANDIDATE" /\ run.pc = "BUILD_PLAN" /\ run.mode = "release"),
           run'.pc \in {"VERIFY_CANDIDATE_CONFIG", "SET_TARGETED_ROUTE", "TARGETED_HEALTH", "TARGETED_ROUTE_ACTIVE",
                        "CANDIDATE_SELF_PROBE"} => Normal(run.cand),
           run'.pc \in Promoting => Sound(run.cand),
           run'.pc \in {"confirming", "cleaning"} => order.kind = "stable",
           run'.changed = run.changed \/ run'.pc = "VERIFIED" \/ order.kind = "stable",
           run.pc = "VERIFIED" => run'.pc = "VERIFIED"
    PROVE  ReleaseInv'
<1>1. \A r : (Normal(r) => Normal(r)') /\ (Sound(r) => Sound(r)')
  BY KeptIsSound
<1>2. RunOK
  BY DEF ReleaseInv
<1>3. RunOK'
  BY <1>1, <1>2 DEF RunOK, RevisionsKept
<1>4. Sound(order.stable)' /\ Sound(traffic.stable)' /\ (order'.kind # "stable" => Normal(order.cand)')
      /\ (order'.kind \in {"gray", "full"} => Sound(order.cand)') /\ (traffic'.kind \in {"gray", "full"} => Sound(traffic.cand)')
  BY <1>1 DEF ReleaseInv, Sound, Normal
<1> QED BY <1>3, <1>4 DEF ReleaseInv, RevisionsKept

\* The platform moves on its own: revisions keep what they are, and orders and traffic name revisions that are sound enough.
LEMMA PlatformMoves ==
    ASSUME ReleaseInv, RevisionsKept, run' = run,
           order' \in [stable : Revisions, cand : Revisions \cup {None}, kind : Kinds, open : BOOLEAN],
           traffic' \in [stable : Revisions, cand : Revisions \cup {None}, kind : Kinds],
           task' \in Revisions \cup {None}, task' # None => revision'[task'].status \in {"MAKING", "normal"},
           Sound(order'.stable), Sound(traffic'.stable), order'.kind # "stable" => Normal(order'.cand),
           order'.kind \in {"gray", "full"} => Sound(order'.cand), traffic'.kind \in {"gray", "full"} => Sound(traffic'.cand),
           order'.kind = "stable" \/ (order'.kind = order.kind /\ order'.cand = order.cand /\ (order'.open => order.open))
    PROVE  ReleaseInv'
<1>1. \A r : (Normal(r) => Normal(r)') /\ (Sound(r) => Sound(r)')
  BY KeptIsSound
<1>2. run.pc # "idle" => RunOK'
  BY <1>1 DEF ReleaseInv, RunOK, RevisionsKept
<1>3. PICK a, b, c, d : a = order'.stable /\ b = traffic'.stable /\ c = order'.cand /\ d = traffic'.cand
  OBVIOUS
<1>4. (Sound(a))' /\ (Sound(b))' /\ (order'.kind # "stable" => (Normal(c))')
      /\ (order'.kind \in {"gray", "full"} => (Sound(c))') /\ (traffic'.kind \in {"gray", "full"} => (Sound(d))')
  BY <1>1, <1>3
<1>5. Sound(order.stable)' /\ Sound(traffic.stable)' /\ (order'.kind # "stable" => Normal(order.cand)')
      /\ (order'.kind \in {"gray", "full"} => Sound(order.cand)') /\ (traffic'.kind \in {"gray", "full"} => Sound(traffic.cand)')
  BY <1>3, <1>4 DEF Sound, Normal
<1> QED BY <1>2, <1>5 DEF ReleaseInv, RevisionsKept

\* Whatever becomes of a request, the order is as it was, or routes the run's own candidate as far as it is proven.
LEMMA Asked ==
    ASSUME ReleaseInv, run.pc # "idle", NEW kind \in Kinds, NEW next \in RunSteps, NEW failed \in {"failing", "FAILED"},
           Ask(kind, next, failed), run.pc # "VERIFIED",
           kind # "stable" => Normal(run.cand), kind \in {"gray", "full"} => Sound(run.cand),
           next \notin {"BUILD_PLAN", "CREATE_CANDIDATE", "VERIFY_CANDIDATE_CONFIG"},
           next \in {"SET_TARGETED_ROUTE", "TARGETED_HEALTH", "TARGETED_ROUTE_ACTIVE", "CANDIDATE_SELF_PROBE"} => Normal(run.cand),
           next \in Promoting => Sound(run.cand),
           next \in {"confirming", "cleaning"} => kind = "stable"
    PROVE  ReleaseInv'
<1>1. PICK outcome \in {"done", "lost", "refused"} :
         /\ order' = IF outcome = "refused" THEN order
                     ELSE [stable |-> run.stable, cand |-> run.cand, kind |-> kind, open |-> order.open \/ kind # "stable"]
         /\ run' = [run EXCEPT !.pc = IF outcome = "done" THEN next ELSE failed,
                               !.changed = @ \/ (kind # "stable" /\ Changing(outcome))]
         /\ UNCHANGED <<revision, traffic, task>>
  BY DEF Ask
<1>2. RunOK /\ run \in RunRecords
  BY DEF ReleaseInv
<1>3. PICK pc \in RunSteps : pc = IF outcome = "done" THEN next ELSE failed
  BY DEF RunSteps
<1>4. PICK changed \in BOOLEAN : changed = (run.changed \/ kind # "stable")
  OBVIOUS
<1>5. run' = [run EXCEPT !.pc = pc, !.changed = changed]
  BY <1>1, <1>2, <1>3, <1>4 DEF Changing, RunRecords
<1>6. run' \in RunRecords /\ run'.pc = pc /\ run'.changed = changed /\ run'.mode = run.mode /\ run'.stable = run.stable
      /\ run'.cand = run.cand
  BY <1>2, <1>5 DEF RunRecords
<1>7. \A r : (Normal(r) => Normal(r)') /\ (Sound(r) => Sound(r)')
  BY <1>1 DEF Normal, Sound
<1>8. order' = order \/ (order'.stable = run.stable /\ order'.cand = run.cand /\ order'.kind = kind)
  BY <1>1
<1>9. order' \in [stable : Revisions, cand : Revisions \cup {None}, kind : Kinds, open : BOOLEAN]
  <2>1. order \in [stable : Revisions, cand : Revisions \cup {None}, kind : Kinds, open : BOOLEAN]
    BY DEF ReleaseInv
  <2>2. run.stable \in Revisions /\ run.cand \in Revisions /\ (order.open \/ kind # "stable") \in BOOLEAN
    BY <1>2, <2>1 DEF RunOK, Sound, Normal
  <2> QED BY <1>1, <2>1, <2>2
<1>10. Sound(order.stable)' /\ Sound(traffic.stable)' /\ (order'.kind # "stable" => Normal(order.cand)')
      /\ (order'.kind \in {"gray", "full"} => Sound(order.cand)') /\ (traffic'.kind \in {"gray", "full"} => Sound(traffic.cand)')
  BY <1>1, <1>2, <1>7, <1>8 DEF ReleaseInv, RunOK, Sound, Normal
<1>11. RunOK'
  <2>1. /\ run'.mode \in Modes /\ Sound(run.stable)' /\ run'.cand \in Revisions \ {run'.stable}
        /\ run'.pc \notin {"BUILD_PLAN", "CREATE_CANDIDATE", "VERIFY_CANDIDATE_CONFIG"}
        /\ (run'.mode # "release" => Normal(run.cand)')
    BY <1>2, <1>3, <1>6, <1>7 DEF RunOK, Sound, Normal
  <2>2. (run'.pc \in {"VERIFY_CANDIDATE_CONFIG", "SET_TARGETED_ROUTE", "TARGETED_HEALTH", "TARGETED_ROUTE_ACTIVE",
                   "CANDIDATE_SELF_PROBE"} => Normal(run.cand)') /\ (run'.pc \in Promoting => Sound(run.cand)')
    BY <1>3, <1>6, <1>7 DEF Sound, Normal, Promoting
  <2>3. run'.pc \in {"confirming", "cleaning"} => order'.kind = "stable"
    BY <1>1, <1>3, <1>6
  <2>4. ~run'.changed /\ run'.pc # "VERIFIED" /\ order'.cand = run'.cand /\ order'.open => order'.kind = "stable"
    BY <1>1, <1>2, <1>4, <1>6, <1>8 DEF RunOK
  <2> QED BY <2>1, <2>2, <2>3, <2>4 DEF RunOK
<1> QED BY <1>1, <1>6, <1>9, <1>10, <1>11 DEF ReleaseInv

LEMMA ReleaseStep == ReleaseInv /\ [ReleaseNext]_releaseVars => ReleaseInv'
<1> SUFFICES ASSUME ReleaseInv, [ReleaseNext]_releaseVars PROVE ReleaseInv'
  OBVIOUS
<1>1. /\ revision \in [Revisions -> [status : {"NONE", "MAKING", "normal", "failed"}, pod : BOOLEAN, quality : Qualities]]
      /\ order \in [stable : Revisions, cand : Revisions \cup {None}, kind : Kinds, open : BOOLEAN]
      /\ traffic \in [stable : Revisions, cand : Revisions \cup {None}, kind : Kinds]
      /\ task \in Revisions \cup {None} /\ (task # None => revision[task].status \in {"MAKING", "normal"})
      /\ run \in RunRecords
      /\ Sound(order.stable) /\ Sound(traffic.stable)
      /\ (order.kind # "stable" => Normal(order.cand)) /\ (order.kind \in {"gray", "full"} => Sound(order.cand))
      /\ (traffic.kind \in {"gray", "full"} => Sound(traffic.cand)) /\ (run.pc # "idle" => RunOK)
  BY DEF ReleaseInv
<1>2. Sound(Serving)
  BY <1>1 DEF Serving
<1>3. UNCHANGED revision => RevisionsKept
  BY <1>1 DEF RevisionsKept
<1>4. CASE UNCHANGED releaseVars
  BY <1>4 DEF releaseVars, ReleaseInv, RunOK, Normal, Sound
<1>5. ASSUME NEW r \in Revisions, NEW status \in {"normal", "failed"}, RevisionMade(r, status) PROVE ReleaseInv'
  <2>1. RevisionsKept /\ UNCHANGED <<order, traffic, run>> /\ (task' = task \/ task' = None)
    BY <1>1, <1>5 DEF RevisionMade, RevisionsKept
  <2>2. task' # None => revision'[task'].status \in {"MAKING", "normal"}
    BY <1>1, <1>5 DEF RevisionMade
  <2> QED BY <1>1, <2>1, <2>2, PlatformMoves
<1>6. ASSUME NEW r \in Revisions, OrderOpens(r) PROVE ReleaseInv'
  <2>1. order' = [stable |-> Serving, cand |-> r, kind |-> "stable", open |-> TRUE] /\ UNCHANGED <<revision, traffic, task, run>>
    BY <1>6 DEF OrderOpens
  <2>2. order' \in [stable : Revisions, cand : Revisions \cup {None}, kind : Kinds, open : BOOLEAN]
        /\ Sound(order'.stable) /\ order'.kind = "stable"
    BY <1>2, <2>1 DEF Sound, Normal, Kinds
  <2> QED BY <1>1, <1>3, <2>1, <2>2, PlatformMoves
<1>7. ASSUME NEW r \in Revisions, InstanceStarts(r) PROVE ReleaseInv'
  <2>1. RevisionsKept /\ UNCHANGED <<order, traffic, task, run>> /\ \A q \in Revisions : revision'[q].status = revision[q].status
    BY <1>1, <1>7 DEF InstanceStarts, RevisionsKept
  <2> QED BY <1>1, <2>1, PlatformMoves
<1>8. CASE Converge
  <2>1. /\ traffic' = [stable |-> order.stable, cand |-> order.cand, kind |-> order.kind] /\ UNCHANGED <<revision, run>>
        /\ task' = task \/ task' = None
    BY <1>8 DEF Converge
  <2>2. PICK open \in BOOLEAN : open = (order.open /\ order.kind # "full")
    BY <1>1
  <2>3. order' = [order EXCEPT !.open = open]
    BY <1>1, <1>8, <2>2 DEF Converge
  <2>4. order' \in [stable : Revisions, cand : Revisions \cup {None}, kind : Kinds, open : BOOLEAN]
        /\ order'.stable = order.stable /\ order'.cand = order.cand /\ order'.kind = order.kind /\ (order'.open => order.open)
    BY <1>1, <2>2, <2>3
  <2>5. traffic' \in [stable : Revisions, cand : Revisions \cup {None}, kind : Kinds]
        /\ traffic'.stable = order.stable /\ traffic'.cand = order.cand /\ traffic'.kind = order.kind
    BY <1>1, <2>1
  <2> QED BY <1>1, <1>3, <2>1, <2>4, <2>5, PlatformMoves
<1>9. CASE CloseOrder
  <2>1. order' = [order EXCEPT !.kind = "stable", !.open = FALSE] /\ task' = None /\ UNCHANGED <<revision, traffic, run>>
    BY <1>9 DEF CloseOrder
  <2>2. order' \in [stable : Revisions, cand : Revisions \cup {None}, kind : Kinds, open : BOOLEAN]
        /\ order'.stable = order.stable /\ order'.kind = "stable"
    BY <1>1, <2>1 DEF Kinds
  <2> QED BY <1>1, <1>3, <2>1, <2>2, PlatformMoves
<1>10. ASSUME NEW mode \in Modes, NEW loopback \in BOOLEAN, NEW promotion \in {"ready", "gray", "full"}, NEW r \in Revisions,
              PlanRelease(mode, loopback, promotion, r)
       PROVE  ReleaseInv'
  <2>1. /\ run' = [NoRun EXCEPT !.pc = "BUILD_PLAN", !.mode = mode, !.loopback = loopback, !.promotion = promotion,
                                !.stable = Serving, !.cand = r]
        /\ UNCHANGED <<revision, order, traffic, task>>
    BY <1>10 DEF PlanRelease
  <2>2. Serving \in Revisions
    BY <1>2 DEF Sound, Normal
  <2>3. run' = [pc |-> "BUILD_PLAN", mode |-> mode, loopback |-> loopback, promotion |-> promotion, stable |-> Serving, cand |-> r,
                changed |-> FALSE, again |-> FALSE]
    BY <2>1 DEF NoRun
  <2>4. run' \in RunRecords
    BY <2>2, <2>3 DEF RunRecords, RunSteps
  <2>5. (mode = "release" => revision[r].status = "NONE") /\ (mode # "release" => Normal(r) /\ Separate(r)) /\ Discovered(mode, r)
    BY <1>10 DEF PlanRelease, Normal
  <2>6. r # Serving
    BY <1>2, <2>5 DEF Separate, Sound, Normal
  <2>7. order.cand = r /\ order.open => order.kind = "stable"
    BY <1>1, <2>5 DEF Discovered, Normal
  <2>8. RunOK'
    BY <1>2, <2>1, <2>3, <2>5, <2>6, <2>7 DEF RunOK, Sound, Normal, Promoting
  <2> QED BY <1>1, <2>1, <2>4, <2>8 DEF ReleaseInv, Sound, Normal
<1>11. CASE Recheck
  <2>1. PICK pc \in {"CREATE_CANDIDATE", "VERIFY_CANDIDATE_CONFIG", "SET_TARGETED_ROUTE"} :
          /\ run' = [run EXCEPT !.pc = pc] /\ (pc = "CREATE_CANDIDATE" <=> run.mode = "release")
          /\ run.pc = "BUILD_PLAN" /\ UNCHANGED <<revision, order, traffic, task>>
    <3>1. run.mode \in {"release", "resume", "verify"} /\ run.pc = "BUILD_PLAN"
      BY <1>1, <1>11 DEF Recheck, RunOK, Modes
    <3>2. CASE run.mode = "release"
      BY <3>1, <3>2, <1>11 DEF Recheck, Turn
    <3>3. CASE run.mode = "resume"
      BY <3>1, <3>3, <1>11 DEF Recheck, Turn
    <3>4. CASE run.mode = "verify"
      BY <3>1, <3>4, <1>11 DEF Recheck, Turn
    <3> QED BY <3>1, <3>2, <3>3, <3>4
  <2>2. run' \in RunRecords /\ run'.pc = pc /\ run'.mode = run.mode /\ run'.stable = run.stable /\ run'.cand = run.cand
        /\ run'.changed = run.changed
    BY <1>1, <2>1 DEF RunRecords, RunSteps
  <2>3. pc # "CREATE_CANDIDATE" => Normal(run.cand)
    BY <1>1, <2>1 DEF RunOK
  <2> QED BY <1>1, <1>3, <2>1, <2>2, <2>3, RunTurns DEF Promoting
<1>12. ASSUME NEW quality \in Qualities, NEW answered \in BOOLEAN, CreateCandidate(quality, answered) PROVE ReleaseInv'
  <2>1. PICK pc \in {"AWAIT_CANDIDATE", "failing"} : run' = [run EXCEPT !.pc = pc]
    BY <1>12 DEF CreateCandidate, Turn
  <2>2. /\ run.pc = "CREATE_CANDIDATE" /\ task' = run.cand /\ UNCHANGED <<order, traffic>>
        /\ revision' = [revision EXCEPT ![run.cand] = [status |-> "MAKING", pod |-> FALSE, quality |-> quality]]
    BY <1>12 DEF CreateCandidate
  <2>3. RunOK /\ revision[run.cand].status = "NONE" /\ run.mode = "release" /\ run.cand \in Revisions
    BY <1>1, <2>2 DEF RunOK
  <2>4. /\ revision' \in [Revisions -> [status : {"NONE", "MAKING", "normal", "failed"}, pod : BOOLEAN, quality : Qualities]]
        /\ \A r \in Revisions : r # run.cand => revision'[r] = revision[r]
        /\ revision'[run.cand].status = "MAKING"
    BY <1>1, <2>2, <2>3
  <2>5. \A r : (Normal(r) => Normal(r)') /\ (Sound(r) => Sound(r)')
    BY <2>3, <2>4 DEF Normal, Sound
  <2>6. run' \in RunRecords /\ run'.pc = pc /\ run'.mode = run.mode /\ run'.stable = run.stable /\ run'.cand = run.cand
        /\ run'.changed = run.changed
    BY <1>1, <2>1 DEF RunRecords, RunSteps
  <2>7. RunOK'
    BY <2>2, <2>3, <2>5, <2>6 DEF RunOK, Promoting
  <2>8. Sound(order.stable)' /\ Sound(traffic.stable)' /\ (order'.kind # "stable" => Normal(order.cand)')
        /\ (order'.kind \in {"gray", "full"} => Sound(order.cand)') /\ (traffic'.kind \in {"gray", "full"} => Sound(traffic.cand)')
    BY <1>1, <2>2, <2>5 DEF Sound, Normal
  <2> QED BY <1>1, <2>2, <2>3, <2>4, <2>6, <2>7, <2>8 DEF ReleaseInv
<1>13. ASSUME NEW pc \in RunSteps \ {"BUILD_PLAN", "CREATE_CANDIDATE", "confirming", "cleaning", "VERIFIED"}, run.pc \notin {"idle", "VERIFIED"},
              Turn(pc), UNCHANGED <<revision, order, traffic, task>>,
              pc \in {"VERIFY_CANDIDATE_CONFIG", "SET_TARGETED_ROUTE", "TARGETED_HEALTH", "TARGETED_ROUTE_ACTIVE",
                      "CANDIDATE_SELF_PROBE"} => Normal(run.cand),
              pc \in Promoting => Sound(run.cand)
       PROVE  ReleaseInv'
  <2>1. run' \in RunRecords /\ run'.pc = pc /\ run'.mode = run.mode /\ run'.stable = run.stable /\ run'.cand = run.cand
        /\ run'.changed = run.changed
    BY <1>1, <1>13 DEF Turn, RunRecords
  <2> QED BY <1>1, <1>3, <1>13, <2>1, RunTurns
<1>14. CASE CandidateNormal
  <2>1. Normal(run.cand) /\ run.pc = "AWAIT_CANDIDATE" /\ Turn("VERIFY_CANDIDATE_CONFIG") /\ UNCHANGED <<revision, order, traffic, task>>
    BY <1>1, <1>14 DEF CandidateNormal, Normal, RunOK
  <2> QED BY <1>13, <2>1 DEF RunSteps, Promoting
<1>15. CASE ConfigVerified
  <2>1. Normal(run.cand)
    BY <1>1, <1>15 DEF ConfigVerified, RunOK
  <2> QED BY <1>13, <1>15, <2>1 DEF ConfigVerified, RunSteps, Promoting
<1>16. CASE SetTargetedRoute
  <2>1. Normal(run.cand) /\ run.pc = "SET_TARGETED_ROUTE" /\ Ask("targeted", "TARGETED_HEALTH", "failing")
    BY <1>1, <1>16 DEF SetTargetedRoute, RunOK
  <2> QED BY <2>1, Asked DEF RunSteps, Promoting, Kinds
<1>17. CASE RouteActive
  <2>1. Normal(run.cand)
    BY <1>1, <1>17 DEF RouteActive, RunOK
  <2> QED BY <1>13, <1>17, <2>1 DEF RouteActive, RunSteps, Promoting
<1>18. CASE WakeInstance
  <2>1. Normal(run.cand) /\ UNCHANGED <<order, traffic, task, run>> /\ revision' = [revision EXCEPT ![run.cand].pod = TRUE]
    BY <1>1, <1>18 DEF WakeInstance, RunOK
  <2>2. RevisionsKept /\ \A q \in Revisions : revision'[q].status = revision[q].status
    <3>1. PICK c \in Revisions : c = run.cand
      BY <2>1 DEF Normal
    <3>2. revision' = [revision EXCEPT ![c] = [revision[c] EXCEPT !.pod = TRUE]]
      BY <1>1, <2>1, <3>1
    <3> QED BY <1>1, <3>2 DEF RevisionsKept
  <2> QED BY <1>1, <2>1, <2>2, PlatformMoves
<1>19. CASE Prove
  <2>1. Sound(run.cand)
    BY <1>1, <1>19 DEF Prove, ProvenByRoute, ProvenInside, RunOK, Sound
  <2>2. PICK pc \in {"PROVEN", "restoring", "READY_FOR_RELEASE"} : Turn(pc)
    <3>1. CASE run.promotion # "ready"
      BY <1>19, <3>1 DEF Prove
    <3>2. CASE run.promotion = "ready" /\ run.changed
      BY <1>19, <3>2 DEF Prove
    <3>3. CASE run.promotion = "ready" /\ ~run.changed
      BY <1>19, <3>3 DEF Prove
    <3> QED BY <3>1, <3>2, <3>3
  <2>3. run.pc \notin {"idle", "VERIFIED"} /\ UNCHANGED <<revision, order, traffic, task>>
    BY <1>19 DEF Prove
  <2> QED BY <1>13, <2>1, <2>2, <2>3 DEF RunSteps
<1>20. CASE SetGray \/ SetFull
  <2>1. Sound(run.cand) /\ Normal(run.cand)
    BY <1>1, <1>20 DEF SetGray, SetFull, RunOK, Promoting, Sound
  <2>2. CASE SetGray
    BY <2>1, <2>2, Asked DEF SetGray, RunSteps, Kinds
  <2>3. CASE SetFull
    BY <2>1, <2>3, Asked DEF SetFull, RunSteps, Kinds
  <2> QED BY <1>20, <2>2, <2>3
<1>21. CASE GrayActive
  <2>1. Sound(run.cand)
    BY <1>1, <1>21 DEF GrayActive, RunOK, Promoting
  <2> QED BY <1>13, <1>21, <2>1 DEF GrayActive, RunSteps
<1>22. CASE FullVerified
  <2>1. run' = [run EXCEPT !.pc = "VERIFIED", !.changed = FALSE] /\ run.pc = "AWAIT_FULL" /\ UNCHANGED <<revision, order, traffic, task>>
    BY <1>22 DEF FullVerified
  <2>2. run' \in RunRecords /\ run'.pc = "VERIFIED" /\ run'.mode = run.mode /\ run'.stable = run.stable /\ run'.cand = run.cand
    BY <1>1, <2>1 DEF RunRecords, RunSteps
  <2> QED BY <1>1, <1>3, <2>1, <2>2, RunTurns DEF Promoting
<1>23. CASE Restore \/ CleanUp
  BY <1>23, Asked DEF Restore, CleanUp, RunSteps, Kinds, Promoting
<1>24. CASE Confirm
  <2>1. run.pc \in {"confirming", "cleaning"} /\ order.kind = "stable" /\ UNCHANGED <<revision, order, traffic, task>>
    BY <1>1, <1>24 DEF Confirm, RunOK
  <2>2. PICK pc \in {"TRAFFIC_RESTORED", "FAILED", "failing"}, changed \in BOOLEAN, again \in BOOLEAN :
          run' = [run EXCEPT !.pc = pc, !.changed = changed, !.again = again]
    <3>1. run.changed \in BOOLEAN /\ run.again \in BOOLEAN /\ run.changed = run.changed
      BY <1>1 DEF RunRecords
    <3>2. CASE Restored
      <4>1. PICK pc \in {"TRAFFIC_RESTORED", "FAILED"} : pc = IF run.pc = "confirming" THEN "TRAFFIC_RESTORED" ELSE "FAILED"
        OBVIOUS
      <4>2. run' = [run EXCEPT !.changed = FALSE, !.pc = pc]
        BY <1>24, <3>2, <4>1 DEF Confirm
      <4>3. run' = [run EXCEPT !.pc = pc, !.changed = FALSE, !.again = run.again]
        BY <1>1, <4>2 DEF RunRecords
      <4> QED BY <3>1, <4>3
    <3>3. CASE ~Restored /\ run.pc = "confirming"
      <4>1. PICK again \in BOOLEAN : again = (run.mode = "verify")
        OBVIOUS
      <4>2. run' = [run EXCEPT !.pc = "failing", !.again = again]
        BY <1>24, <3>3, <4>1 DEF Confirm
      <4>3. run' = [run EXCEPT !.pc = "failing", !.changed = run.changed, !.again = again]
        BY <1>1, <4>2 DEF RunRecords
      <4> QED BY <3>1, <4>3
    <3>4. CASE ~Restored /\ run.pc # "confirming"
      <4>1. run' = [run EXCEPT !.pc = "FAILED"]
        BY <1>24, <3>4 DEF Confirm
      <4>2. run' = [run EXCEPT !.pc = "FAILED", !.changed = run.changed, !.again = run.again]
        BY <1>1, <4>1 DEF RunRecords
      <4> QED BY <3>1, <4>2
    <3> QED BY <3>2, <3>3, <3>4
  <2>3. run' \in RunRecords /\ run'.pc = pc /\ run'.mode = run.mode /\ run'.stable = run.stable /\ run'.cand = run.cand
    BY <1>1, <2>2 DEF RunRecords, RunSteps
  <2> QED BY <1>1, <1>3, <2>1, <2>3, RunTurns DEF Promoting
<1>25. CASE Fail \/ GiveUp
  <2>1. PICK pc \in {"BLOCKED", "failing", "FAILED"} : Turn(pc)
    BY <1>25 DEF Fail, GiveUp
  <2>2. run.pc \notin {"idle", "VERIFIED"} /\ UNCHANGED <<revision, order, traffic, task>>
    BY <1>25 DEF Fail, GiveUp
  <2> QED BY <1>13, <2>1, <2>2 DEF RunSteps, Promoting
<1>26. CASE Die
  <2>1. run' = NoRun /\ run'.pc = "idle" /\ UNCHANGED <<revision, order, traffic, task>>
    BY <1>26 DEF Die, NoRun
  <2>2. NoRun \in RunRecords
    BY DEF NoRun, RunRecords, RunSteps
  <2> QED BY <1>1, <2>1, <2>2 DEF ReleaseInv, Sound, Normal
<1> QED BY <1>4, <1>5, <1>6, <1>7, <1>8, <1>9, <1>10, <1>11, <1>12, <1>14, <1>15, <1>16, <1>17, <1>18, <1>19, <1>20, <1>21,
           <1>22, <1>23, <1>24, <1>25, <1>26 DEF ReleaseNext

LEMMA ReleaseInvIsSafe == ReleaseInv => ReleaseSafe
<1> SUFFICES ASSUME ReleaseInv PROVE ReleaseSafe
  OBVIOUS
<1>1. ReleaseTypeOK
  BY DEF ReleaseInv, ReleaseTypeOK, RunOK, Sound, Normal, Kinds
<1>2. OnlySoundServe
  BY DEF ReleaseInv, OnlySoundServe, Sound
<1>3. UnmarkedIsUnrouted
  BY DEF ReleaseInv, UnmarkedIsUnrouted, RunOK, Ended
<1> QED BY <1>1, <1>2, <1>3 DEF ReleaseSafe

\* Ordinary traffic reaches sound revisions only, however many runs of the controller die, resume, lose answers or are refused;
\* and a run that ends without its mark of a changed route has left none.
THEOREM ReleasesServeSoundly == ReleaseSpec => []ReleaseSafe
BY ReleaseStart, ReleaseStep, ReleaseInvIsSafe, PTL DEF ReleaseSpec

(***************************************************************************)
(* RehearsalEnvelope: the journal of a rehearsal.                          *)
(***************************************************************************)
\* The states in which the platform may route requests to the envelope's candidate.
RoutedStates == {"ROUTE_PENDING", "READY", "APPLY_PENDING", "APPLIED", "RESTORE_PENDING"}

\* What is dispatched was attempted and has called once; what was created is the envelope's candidate, if it has one; and what
\* the envelope's state says of route and application.
EnvelopeOK(e, row) ==
    /\ row \in EnvelopeRow /\ row.dispatched \subseteq row.attempts
    /\ \A a \in OneShot : world.calls[e][a] = IF a \in row.dispatched THEN 1 ELSE 0
    /\ "create" \notin row.dispatched => \A c \in Candidates : <<e, c>> \notin world.candidates
    /\ row.state \in {"NEW", "CREATE_PENDING"} => row.candidate = None
    /\ row.candidate # None => \A c \in Candidates : <<e, c>> \in world.candidates => c = row.candidate
    /\ row.state = "CLOSED" => \A c \in Candidates : <<e, c>> \notin world.candidates
    /\ row.state \in RoutedStates => row.routeMayBeActive
    /\ row.state = "APPLY_PENDING" => row.apply # "NOT_ATTEMPTED"
    /\ row.apply = "VERIFIED" => e \in world.applied
    /\ e \in world.applied => row.apply # "NOT_ATTEMPTED"

\* One envelope at most is not closed; a route is to the candidate of an envelope that may have one; a permit is for what was attempted.
JournalInv ==
    /\ envelope \in [Envelopes -> {None} \cup EnvelopeRow]
    /\ permits \in [Handles -> SUBSET (Envelopes \X OneShot)]
    /\ world \in [candidates : SUBSET (Envelopes \X Candidates), asPlanned : SUBSET Candidates,
                  route : Candidates \cup {None}, applied : SUBSET Envelopes,
                  calls : [Envelopes -> [OneShot -> Nat]]]
    /\ \A e \in Envelopes : Opened(e) => EnvelopeOK(e, envelope[e])
    /\ \A e \in Envelopes : ~Opened(e) =>
         /\ \A a \in OneShot : world.calls[e][a] = 0
         /\ e \notin world.applied /\ \A c \in Candidates : <<e, c>> \notin world.candidates
    /\ \A e \in Envelopes : \A c, d \in Candidates : <<e, c>> \in world.candidates /\ <<e, d>> \in world.candidates => c = d
    /\ \A e, f \in Envelopes : Opened(e) /\ Opened(f) /\ envelope[e].state # "CLOSED" /\ envelope[f].state # "CLOSED" => e = f
    /\ \A h \in Handles, e \in Envelopes, a \in OneShot : <<e, a>> \in permits[h] => Opened(e) /\ a \in envelope[e].attempts
    /\ world.route # None => \E e \in Envelopes : Stands(e, RoutedStates) /\ Routed(e)

Reserved(g) == \E a \in attempted : SameBudget(g, a) /\ a.ref = g.ref

\* Each budget and each approval has one row; who calls has reserved and not called yet, and is alone to do so.
BudgetInv ==
    /\ attempted \subseteq [op : {g.op : g \in Grants}, action : {g.action : g \in Grants},
                            ref : {g.ref : g \in Grants}, outcome : {"UNKNOWN", "RESPONSE_RECEIVED"}]
    /\ sending \in [Grantees -> [pc : {"idle", "call", "note"}, grant : Grants \cup {None}]]
    /\ written \in [Grants -> {0, 1}]
    /\ \A a, b \in attempted : SameBudget(a, b) \/ a.ref = b.ref => a = b
    /\ \A s \in Grantees : sending[s].pc # "idle" => sending[s].grant \in Grants
    /\ \A s \in Grantees : sending[s].pc = "call" => Reserved(sending[s].grant) /\ written[sending[s].grant] = 0
    /\ \A s \in Grantees : sending[s].pc = "note" => written[sending[s].grant] = 1
    /\ \A s, t \in Grantees : sending[s].pc = "call" /\ sending[t].pc = "call" /\ sending[s].grant = sending[t].grant => s = t
    /\ \A g \in Grants : written[g] > 0 => Reserved(g)
    /\ \A a \in attempted : a.outcome = "RESPONSE_RECEIVED" => \E g \in Grants : written[g] > 0 /\ SameBudget(g, a) /\ g.ref = a.ref

RehearsalInv == JournalInv /\ BudgetInv

LEMMA StatesAre ==
    /\ RehearsalStates = {"NEW", "CANDIDATE", "READY", "APPLIED", "MANUAL_CLOSE", "CLOSED", "CREATE_PENDING", "ROUTE_PENDING",
                          "APPLY_PENDING", "RESTORE_PENDING"}
    /\ PendingState["create"] = "CREATE_PENDING" /\ PendingState["target"] = "ROUTE_PENDING"
    /\ PendingState["apply"] = "APPLY_PENDING" /\ PendingState["restore"] = "RESTORE_PENDING"
BY DEF RehearsalStates, PendingState, OneShot

LEMMA RehearsalStart == RehearsalInit => RehearsalInv
<1> SUFFICES ASSUME RehearsalInit PROVE RehearsalInv
  OBVIOUS
<1>1. JournalInv
  BY DEF RehearsalInit, JournalInv, Opened
<1>2. BudgetInv
  BY DEF RehearsalInit, BudgetInv, AtRest
<1> QED BY <1>1, <1>2 DEF RehearsalInv

\* An event of an open envelope is journalled.
LEMMA RowMoves ==
    ASSUME JournalInv, NEW e \in Envelopes, Opened(e), envelope[e].state # "CLOSED", NEW row, SaveRow(e, row), EnvelopeOK(e, row),
           UNCHANGED world, envelope[e].attempts \subseteq row.attempts,
           permits' \in [Handles -> SUBSET (Envelopes \X OneShot)],
           \A h \in Handles, f \in Envelopes, a \in OneShot :
              <<f, a>> \in permits'[h] => <<f, a>> \in permits[h] \/ (f = e /\ a \in row.attempts),
           world.route # None /\ Stands(e, RoutedStates) /\ Routed(e) =>
              row.state \in RoutedStates /\ row.candidate = envelope[e].candidate
    PROVE  JournalInv'
<1>1. \A f \in Envelopes : envelope'[f] = IF f = e THEN row ELSE envelope[f]
  BY DEF SaveRow, JournalInv
<1>2. row \in EnvelopeRow /\ row # None
  BY EnvelopeAssumption DEF EnvelopeOK
<1>3. envelope' \in [Envelopes -> {None} \cup EnvelopeRow]
  BY <1>2 DEF SaveRow, JournalInv
<1>4. \A f \in Envelopes : Opened(f)' <=> Opened(f)
  BY <1>1, <1>2 DEF Opened
<1>5. ASSUME NEW f \in Envelopes, Opened(f) PROVE EnvelopeOK(f, envelope[f])'
  BY <1>1, <1>5 DEF JournalInv, EnvelopeOK
<1>6. ASSUME NEW f \in Envelopes, NEW g \in Envelopes, Opened(f)', Opened(g)', envelope'[f].state # "CLOSED", envelope'[g].state # "CLOSED"
      PROVE  f = g
  BY <1>1, <1>4, <1>6 DEF JournalInv
<1>7. ASSUME NEW h \in Handles, NEW f \in Envelopes, NEW a \in OneShot, <<f, a>> \in permits'[h]
      PROVE  Opened(f)' /\ a \in envelope'[f].attempts
  BY <1>1, <1>4, <1>7 DEF JournalInv
<1>8. ASSUME world'.route # None PROVE \E f \in Envelopes : Stands(f, RoutedStates)' /\ Routed(f)'
  <2>1. PICK f \in Envelopes : Stands(f, RoutedStates) /\ Routed(f)
    BY <1>8 DEF JournalInv
  <2>2. Stands(f, RoutedStates)' /\ Routed(f)'
    BY <1>1, <1>4, <1>8, <2>1 DEF Stands, Routed
  <2> QED BY <2>2
<1> QED BY <1>3, <1>4, <1>5, <1>6, <1>7, <1>8 DEF JournalInv

\* What an observation or a reservation changes of a row is all that the row's promises depend on.
LEMMA OpenRow ==
    ASSUME JournalInv, NEW e \in Envelopes, NEW states, Stands(e, states)
    PROVE  Opened(e) /\ envelope[e].state \in states /\ EnvelopeOK(e, envelope[e]) /\ envelope[e] \in EnvelopeRow
BY DEF JournalInv, Stands, EnvelopeOK

LEMMA Observed ==
    ASSUME JournalInv, NEW e \in Envelopes, Opened(e), envelope[e].state # "CLOSED", NEW row, Observe(e, row), EnvelopeOK(e, row),
           row.attempts = envelope[e].attempts,
           world.route # None /\ Stands(e, RoutedStates) /\ Routed(e) =>
              row.state \in RoutedStates /\ row.candidate = envelope[e].candidate
    PROVE  JournalInv'
<1>1. SaveRow(e, row) /\ UNCHANGED <<permits, world>>
  BY DEF Observe
<1>2. permits \in [Handles -> SUBSET (Envelopes \X OneShot)]
  BY DEF JournalInv
<1> QED BY <1>1, <1>2, RowMoves

LEMMA ReservationKeeps ==
    ASSUME JournalInv, NEW h \in Handles, NEW e \in Envelopes, Opened(e), envelope[e].state # "CLOSED", NEW action \in OneShot,
           NEW row \in EnvelopeRow, Reserve(h, e, action, row), row.attempts = envelope[e].attempts,
           row.candidate = envelope[e].candidate, row.dispatched = envelope[e].dispatched,
           EnvelopeOK(e, envelope[e]), action # "create" => row.routeMayBeActive /\ envelope[e].state \notin {"NEW", "CREATE_PENDING"},
           action = "create" => envelope[e].state = "NEW" /\ world.route = None,
           action = "apply" => row.apply = "UNKNOWN", action # "apply" => row.apply = envelope[e].apply
    PROVE  JournalInv'
<1>1. PICK new : new = [row EXCEPT !.attempts = @ \cup {action}, !.state = PendingState[action]]
  OBVIOUS
<1>2. SaveRow(e, new) /\ UNCHANGED world /\ permits' = [permits EXCEPT ![h] = @ \cup {<<e, action>>}]
  BY <1>1 DEF Reserve
<1>3. /\ new \in EnvelopeRow /\ new.attempts = row.attempts \cup {action} /\ new.state = PendingState[action]
      /\ new.candidate = row.candidate /\ new.dispatched = row.dispatched /\ new.apply = row.apply
      /\ new.routeMayBeActive = row.routeMayBeActive
  BY <1>1, StatesAre DEF EnvelopeRow, OneShot
<1>4. EnvelopeOK(e, new)
  BY <1>3, StatesAre DEF EnvelopeOK, OneShot, RoutedStates
<1>5. permits' \in [Handles -> SUBSET (Envelopes \X OneShot)]
  BY <1>2 DEF JournalInv
<1>6. \A k \in Handles, f \in Envelopes, a \in OneShot :
         <<f, a>> \in permits'[k] => <<f, a>> \in permits[k] \/ (f = e /\ a \in new.attempts)
  BY <1>2, <1>3 DEF JournalInv
<1>7. world.route # None => new.state \in RoutedStates
  BY <1>3, StatesAre DEF OneShot, RoutedStates
<1> QED BY <1>2, <1>3, <1>4, <1>5, <1>6, <1>7, RowMoves

\* A permit is used: what the journal lets through is marked and may take effect once.
LEMMA DispatchKeeps ==
    ASSUME JournalInv, NEW h \in Handles, NEW e \in Envelopes, NEW action \in OneShot, DispatchOnce(h, e, action)
    PROVE  JournalInv'
<1>1. /\ <<e, action>> \in permits[h] /\ permits' = [permits EXCEPT ![h] = @ \ {<<e, action>>}]
      /\ Opened(e) /\ action \in envelope[e].attempts
  BY DEF DispatchOnce, JournalInv
<1>2. /\ permits' \in [Handles -> SUBSET (Envelopes \X OneShot)]
      /\ \A k \in Handles, f \in Envelopes, a \in OneShot : <<f, a>> \in permits'[k] => <<f, a>> \in permits[k]
  BY <1>1 DEF JournalInv
<1>3. CASE ~MayDispatch(e, action)
  <2>1. UNCHANGED <<envelope, world>>
    BY <1>3 DEF DispatchOnce
  <2> QED BY <1>2, <2>1 DEF JournalInv, Opened, EnvelopeOK, Stands, Routed
<1>4. CASE MayDispatch(e, action)
  <2>1. EnvelopeOK(e, envelope[e]) /\ envelope[e] \in EnvelopeRow /\ envelope[e].state = PendingState[action]
        /\ action \notin envelope[e].dispatched
    BY <1>1, <1>4 DEF JournalInv, EnvelopeOK, MayDispatch
  <2>2. PICK row : row = [envelope[e] EXCEPT !.dispatched = @ \cup {action}]
    OBVIOUS
  <2>3. /\ row \in EnvelopeRow /\ row # None /\ row.dispatched = envelope[e].dispatched \cup {action} /\ row.state = envelope[e].state
        /\ row.attempts = envelope[e].attempts /\ row.candidate = envelope[e].candidate /\ row.apply = envelope[e].apply
        /\ row.routeMayBeActive = envelope[e].routeMayBeActive
    BY <2>1, <2>2, EnvelopeAssumption DEF EnvelopeRow
  <2>4. envelope' = [envelope EXCEPT ![e] = row]
    BY <1>4, <2>2 DEF DispatchOnce, SaveRow
  <2>5. \A f \in Envelopes : envelope'[f] = IF f = e THEN row ELSE envelope[f]
    BY <2>4 DEF JournalInv
  <2>6. envelope' \in [Envelopes -> {None} \cup EnvelopeRow]
    BY <2>3, <2>4 DEF JournalInv
  <2>7. \A f \in Envelopes : Opened(f)' <=> Opened(f)
    BY <1>1, <2>3, <2>5 DEF Opened
  <2>8. PICK calls : calls = [world.calls EXCEPT ![e][action] = @ + 1]
    OBVIOUS
  <2>9. /\ calls \in [Envelopes -> [OneShot -> Nat]]
        /\ \A f \in Envelopes, a \in OneShot :
             calls[f][a] = IF f = e /\ a = action THEN world.calls[e][action] + 1 ELSE world.calls[f][a]
    BY <2>8 DEF JournalInv
  <2>10. /\ world'.calls = calls
         /\ world' = [candidates |-> world'.candidates, asPlanned |-> world'.asPlanned, route |-> world'.route,
                      applied |-> world'.applied, calls |-> world'.calls]
         /\ world'.asPlanned \subseteq Candidates
         /\ \/ world'.candidates = world.candidates
            \/ /\ action = "create"
               /\ \E c \in Candidates : /\ world'.candidates = world.candidates \cup {<<e, c>>}
                                        /\ \A f \in Envelopes : <<f, c>> \notin world.candidates
         /\ world'.route = world.route \/ world'.route = None \/ (action = "target" /\ world'.route = envelope[e].candidate)
         /\ world'.applied = world.applied \/ (action = "apply" /\ world'.applied = world.applied \cup {e})
    <3>1. world \in [candidates : SUBSET (Envelopes \X Candidates), asPlanned : SUBSET Candidates,
                     route : Candidates \cup {None}, applied : SUBSET Envelopes, calls : [Envelopes -> [OneShot -> Nat]]]
      BY DEF JournalInv
    <3>2. CASE NoEffect(e, action)
      <4>1. world' = [world EXCEPT !.calls = calls]
        BY <3>1, <3>2, <2>8 DEF NoEffect
      <4> QED BY <3>1, <4>1
    <3>3. CASE TakesEffect(e, action)
      <4>1. CASE action = "create"
        <5>1. PICK c \in Candidates, good \in BOOLEAN :
                /\ \A f \in Envelopes : <<f, c>> \notin world.candidates
                /\ world' = [world EXCEPT !.candidates = @ \cup {<<e, c>>}, !.calls[e][action] = @ + 1,
                                          !.asPlanned = IF good THEN @ \cup {c} ELSE @ \ {c}]
          BY <3>3, <4>1 DEF TakesEffect
        <5>2. PICK planned \in SUBSET Candidates : planned = IF good THEN world.asPlanned \cup {c} ELSE world.asPlanned \ {c}
          BY <3>1
        <5>3. world' = [world EXCEPT !.candidates = world.candidates \cup {<<e, c>>}, !.calls = calls, !.asPlanned = planned]
          BY <3>1, <2>8, <5>1, <5>2
        <5> QED BY <3>1, <4>1, <5>1, <5>3
      <4>2. CASE action = "target"
        <5>1. world' = [world EXCEPT !.route = envelope[e].candidate, !.calls = calls]
          BY <3>1, <3>3, <4>2, <2>8 DEF TakesEffect
        <5> QED BY <3>1, <4>2, <5>1
      <4>3. CASE action = "apply"
        <5>1. PICK applied : applied = IF Routed(e) THEN world.applied \cup {e} ELSE world.applied
          OBVIOUS
        <5>2. world' = [world EXCEPT !.applied = applied, !.calls = calls]
          BY <3>1, <3>3, <4>3, <2>8, <5>1 DEF TakesEffect
        <5> QED BY <3>1, <4>3, <5>1, <5>2
      <4>4. CASE action = "restore"
        <5>1. world' = [world EXCEPT !.route = None, !.calls = calls]
          BY <3>1, <3>3, <4>4, <2>8 DEF TakesEffect
        <5> QED BY <3>1, <5>1
      <4> QED BY <4>1, <4>2, <4>3, <4>4 DEF OneShot
    <3> QED BY <1>4, <3>2, <3>3 DEF DispatchOnce
  <2>11. world' \in [candidates : SUBSET (Envelopes \X Candidates), asPlanned : SUBSET Candidates,
                     route : Candidates \cup {None}, applied : SUBSET Envelopes, calls : [Envelopes -> [OneShot -> Nat]]]
    <3>1. world'.candidates \subseteq Envelopes \X Candidates /\ world'.applied \subseteq Envelopes
      BY <2>10 DEF JournalInv
    <3>2. world'.route \in Candidates \cup {None}
      BY <2>1, <2>10 DEF JournalInv, EnvelopeRow
    <3> QED BY <2>9, <2>10, <3>1, <3>2
  <2>12. EnvelopeOK(e, row)'
    <3>1. /\ row \in EnvelopeRow /\ row.dispatched \subseteq row.attempts
          /\ \A a \in OneShot : world'.calls[e][a] = IF a \in row.dispatched THEN 1 ELSE 0
      BY <1>1, <2>1, <2>3, <2>9, <2>10 DEF EnvelopeOK
    <3>2. "create" \notin row.dispatched => \A c \in Candidates : <<e, c>> \notin world'.candidates
      BY <2>1, <2>3, <2>10 DEF EnvelopeOK
    <3>3. row.state \in {"NEW", "CREATE_PENDING"} => row.candidate = None
      BY <2>1, <2>3 DEF EnvelopeOK
    <3>4. row.candidate # None => \A c \in Candidates : <<e, c>> \in world'.candidates => c = row.candidate
      BY <2>1, <2>3, <2>10, StatesAre DEF EnvelopeOK
    <3>5. row.state = "CLOSED" => \A c \in Candidates : <<e, c>> \notin world'.candidates
      BY <2>1, <2>3, StatesAre DEF OneShot
    <3>6. (row.state \in RoutedStates => row.routeMayBeActive) /\ (row.state = "APPLY_PENDING" => row.apply # "NOT_ATTEMPTED")
      BY <2>1, <2>3 DEF EnvelopeOK
    <3>7. (row.apply = "VERIFIED" => e \in world'.applied) /\ (e \in world'.applied => row.apply # "NOT_ATTEMPTED")
      BY <2>1, <2>3, <2>10, StatesAre DEF EnvelopeOK
    <3> QED BY <3>1, <3>2, <3>3, <3>4, <3>5, <3>6, <3>7 DEF EnvelopeOK
  <2>13. ASSUME NEW f \in Envelopes, f # e, Opened(f) PROVE EnvelopeOK(f, envelope[f])'
    <3>1. EnvelopeOK(f, envelope[f]) /\ envelope'[f] = envelope[f]
      BY <2>5, <2>13 DEF JournalInv
    <3>2. (\A a \in OneShot : world'.calls[f][a] = world.calls[f][a])
          /\ (\A c : <<f, c>> \in world'.candidates <=> <<f, c>> \in world.candidates)
          /\ (f \in world'.applied <=> f \in world.applied)
      BY <2>9, <2>10, <2>13
    <3> QED BY <3>1, <3>2 DEF EnvelopeOK
  <2>14. ASSUME NEW f \in Envelopes, ~Opened(f)
         PROVE  /\ \A a \in OneShot : world'.calls[f][a] = 0
                /\ f \notin world'.applied /\ \A c \in Candidates : <<f, c>> \notin world'.candidates
    BY <1>1, <2>9, <2>10, <2>14 DEF JournalInv
  <2>15. ASSUME NEW f \in Envelopes, NEW c \in Candidates, NEW d \in Candidates,
                <<f, c>> \in world'.candidates, <<f, d>> \in world'.candidates
         PROVE  c = d
    <3>1. action = "create" => \A b \in Candidates : <<e, b>> \notin world.candidates
      BY <2>1 DEF EnvelopeOK
    <3> QED BY <2>10, <2>15, <3>1 DEF JournalInv
  <2>16. ASSUME NEW f \in Envelopes, NEW g \in Envelopes, Opened(f)', Opened(g)', envelope'[f].state # "CLOSED", envelope'[g].state # "CLOSED"
         PROVE  f = g
    BY <2>3, <2>5, <2>7, <2>16 DEF JournalInv
  <2>17. ASSUME NEW k \in Handles, NEW f \in Envelopes, NEW a \in OneShot, <<f, a>> \in permits'[k]
         PROVE  Opened(f)' /\ a \in envelope'[f].attempts
    BY <1>2, <2>3, <2>5, <2>7, <2>17 DEF JournalInv
  <2>18. ASSUME world'.route # None PROVE \E f \in Envelopes : Stands(f, RoutedStates)' /\ Routed(f)'
    <3>1. CASE world'.route = world.route
      <4>1. PICK f \in Envelopes : Stands(f, RoutedStates) /\ Routed(f)
        BY <2>18, <3>1 DEF JournalInv
      <4>2. Stands(f, RoutedStates)' /\ Routed(f)'
        BY <2>3, <2>5, <2>7, <2>18, <3>1, <4>1 DEF Stands, Routed
      <4> QED BY <4>2
    <3>2. CASE action = "target" /\ world'.route = envelope[e].candidate
      <4>1. Stands(e, RoutedStates)' /\ Routed(e)'
        BY <1>1, <2>1, <2>3, <2>5, <2>7, <2>18, <3>2, StatesAre DEF Stands, Routed, RoutedStates
      <4> QED BY <4>1
    <3> QED BY <2>10, <2>18, <3>1, <3>2
  <2>19. ASSUME NEW f \in Envelopes, Opened(f)' PROVE EnvelopeOK(f, envelope[f])'
    <3>1. CASE f = e
      BY <2>5, <2>12, <3>1
    <3>2. CASE f # e
      BY <2>7, <2>13, <2>19, <3>2
    <3> QED BY <3>1, <3>2
  <2> QED BY <1>2, <2>6, <2>7, <2>11, <2>14, <2>15, <2>16, <2>17, <2>18, <2>19 DEF JournalInv
<1> QED BY <1>3, <1>4

\* The platform changes by hand, without a call.
LEMMA ByHandKeeps ==
    ASSUME JournalInv, NEW e \in Envelopes, (\E c \in Candidates : RemoveCandidate(e, c)) \/ TakeRouteBack(e)
    PROVE  JournalInv'
<1>1. PICK candidates \in SUBSET world.candidates, route \in {world.route, None} :
         world' = [world EXCEPT !.candidates = candidates, !.route = route] /\ UNCHANGED <<envelope, permits>>
  <2>1. world = [world EXCEPT !.route = world.route] /\ world = [world EXCEPT !.candidates = world.candidates]
    BY DEF JournalInv
  <2>2. ASSUME NEW c \in Candidates, RemoveCandidate(e, c)
        PROVE  world' = [world EXCEPT !.candidates = world.candidates \ {<<e, c>>}, !.route = world.route] /\ UNCHANGED <<envelope, permits>>
    <3>1. world \in [candidates : SUBSET (Envelopes \X Candidates), asPlanned : SUBSET Candidates,
                     route : Candidates \cup {None}, applied : SUBSET Envelopes, calls : [Envelopes -> [OneShot -> Nat]]]
      BY DEF JournalInv
    <3>2. PICK X : X = world.candidates \ {<<e, c>>}
      OBVIOUS
    <3>3. world' = [world EXCEPT !.candidates = X] /\ UNCHANGED <<envelope, permits>>
      BY <2>2, <3>2 DEF RemoveCandidate
    <3>4. [world EXCEPT !.candidates = X] = [world EXCEPT !.candidates = X, !.route = world.route]
      BY <3>1
    <3> QED BY <3>2, <3>3, <3>4
  <2>3. CASE TakeRouteBack(e)
    BY <2>1, <2>3 DEF TakeRouteBack, JournalInv
  <2> QED BY <2>2, <2>3
<1>2. /\ world' \in [candidates : SUBSET (Envelopes \X Candidates), asPlanned : SUBSET Candidates,
                     route : Candidates \cup {None}, applied : SUBSET Envelopes, calls : [Envelopes -> [OneShot -> Nat]]]
      /\ world'.candidates \subseteq world.candidates /\ (world'.route = world.route \/ world'.route = None)
      /\ world'.applied = world.applied /\ world'.calls = world.calls
  BY <1>1 DEF JournalInv
<1>3. \A f \in Envelopes : Opened(f) => EnvelopeOK(f, envelope[f])'
  BY <1>1, <1>2 DEF JournalInv, EnvelopeOK
<1>4. world'.route # None => \E f \in Envelopes : Stands(f, RoutedStates)' /\ Routed(f)'
  BY <1>1, <1>2 DEF JournalInv, Stands, Routed, Opened
<1> QED BY <1>1, <1>2, <1>3, <1>4 DEF JournalInv, Opened

LEMMA OpenKeeps ==
    ASSUME JournalInv, NEW e \in Envelopes, OpenEnvelope(e)
    PROVE  JournalInv'
<1>1. ~Opened(e) /\ envelope' = [envelope EXCEPT ![e] = NewEnvelope] /\ UNCHANGED <<permits, world>>
      /\ \A f \in Envelopes : Opened(f) => envelope[f].state = "CLOSED"
  BY DEF OpenEnvelope, SaveRow
<1>2. NewEnvelope \in EnvelopeRow /\ NewEnvelope # None
  <2>1. NewEnvelope \in EnvelopeRow
    BY StatesAre DEF NewEnvelope, EnvelopeRow
  <2> QED BY <2>1, EnvelopeAssumption
<1>3. \A f \in Envelopes : envelope'[f] = IF f = e THEN NewEnvelope ELSE envelope[f]
  BY <1>1 DEF JournalInv
<1>4. envelope' \in [Envelopes -> {None} \cup EnvelopeRow]
  BY <1>1, <1>2 DEF JournalInv
<1>5. EnvelopeOK(e, NewEnvelope)'
  <2>1. (\A a \in OneShot : world'.calls[e][a] = 0) /\ e \notin world'.applied /\ \A c \in Candidates : <<e, c>> \notin world'.candidates
    BY <1>1 DEF JournalInv
  <2> QED BY <1>2, <2>1 DEF NewEnvelope, EnvelopeOK, RoutedStates
<1>6. \A f \in Envelopes : Opened(f)' => EnvelopeOK(f, envelope[f])'
  BY <1>1, <1>3, <1>5 DEF JournalInv, Opened, EnvelopeOK
<1>7. \A f \in Envelopes : Opened(f)' <=> Opened(f) \/ f = e
  BY <1>1, <1>2, <1>3 DEF Opened
<1>8. world'.route = None
  BY <1>1 DEF JournalInv, Stands, RoutedStates
<1> QED BY <1>1, <1>3, <1>4, <1>6, <1>7, <1>8 DEF JournalInv

LEMMA RehearseStep == ASSUME JournalInv, Rehearse PROVE JournalInv'
<1>1. ASSUME NEW h \in Handles, NEW e \in Envelopes, PrepareRehearsal(h, e) PROVE JournalInv'
  <2>1. Stands(e, {"NEW"}) /\ world.route = None /\ Reserve(h, e, "create", envelope[e])
    BY <1>1 DEF PrepareRehearsal, StableOnly
  <2> QED BY <2>1, OpenRow, ReservationKeeps DEF OneShot
<1>2. ASSUME NEW h \in Handles, NEW e \in Envelopes, Target(h, e) PROVE JournalInv'
  <2>1. Stands(e, {"CANDIDATE"}) /\ Reserve(h, e, "target", [envelope[e] EXCEPT !.routeMayBeActive = TRUE])
    BY <1>2 DEF Target
  <2>2. PICK row : row = [envelope[e] EXCEPT !.routeMayBeActive = TRUE]
    OBVIOUS
  <2>3. /\ row \in EnvelopeRow /\ row.attempts = envelope[e].attempts /\ row.candidate = envelope[e].candidate
        /\ row.dispatched = envelope[e].dispatched /\ row.apply = envelope[e].apply /\ row.routeMayBeActive
    BY <2>1, <2>2, OpenRow DEF EnvelopeRow
  <2>4. Reserve(h, e, "target", row) /\ Opened(e) /\ envelope[e].state = "CANDIDATE" /\ EnvelopeOK(e, envelope[e])
    BY <2>1, <2>2, OpenRow
  <2> QED BY <2>3, <2>4, ReservationKeeps DEF OneShot
<1>3. ASSUME NEW h \in Handles, NEW e \in Envelopes, ReserveApply(h, e) PROVE JournalInv'
  <2>1. Stands(e, {"READY"}) /\ Reserve(h, e, "apply", [envelope[e] EXCEPT !.apply = "UNKNOWN"])
    BY <1>3 DEF ReserveApply
  <2>2. PICK row : row = [envelope[e] EXCEPT !.apply = "UNKNOWN"]
    OBVIOUS
  <2>3. Opened(e) /\ envelope[e].state = "READY" /\ EnvelopeOK(e, envelope[e]) /\ envelope[e] \in EnvelopeRow
    BY <2>1, OpenRow
  <2>4. /\ row \in EnvelopeRow /\ row.attempts = envelope[e].attempts /\ row.candidate = envelope[e].candidate
        /\ row.dispatched = envelope[e].dispatched /\ row.apply = "UNKNOWN" /\ row.routeMayBeActive = envelope[e].routeMayBeActive
    BY <2>2, <2>3 DEF EnvelopeRow
  <2>5. row.routeMayBeActive
    BY <2>3, <2>4 DEF EnvelopeOK, RoutedStates
  <2>6. Reserve(h, e, "apply", row)
    BY <2>1, <2>2
  <2> QED BY <2>3, <2>4, <2>5, <2>6, ReservationKeeps DEF OneShot
<1>4. ASSUME NEW h \in Handles, NEW e \in Envelopes, RestoreRoute(h, e) PROVE JournalInv'
  <2>1. Stands(e, {"ROUTE_PENDING", "READY", "APPLY_PENDING", "APPLIED"}) /\ Reserve(h, e, "restore", envelope[e])
    BY <1>4 DEF RestoreRoute
  <2>2. Opened(e) /\ envelope[e].state \in {"ROUTE_PENDING", "READY", "APPLY_PENDING", "APPLIED"}
        /\ EnvelopeOK(e, envelope[e]) /\ envelope[e] \in EnvelopeRow
    BY <2>1, OpenRow
  <2>3. envelope[e].routeMayBeActive
    BY <2>2 DEF EnvelopeOK, RoutedStates
  <2> QED BY <2>1, <2>2, <2>3, ReservationKeeps DEF OneShot
<1>5. ASSUME NEW e \in Envelopes, NEW c \in Candidates, CandidateReady(e, c) PROVE JournalInv'
  <2>1. Stands(e, {"CREATE_PENDING"}) /\ <<e, c>> \in world.candidates
        /\ Observe(e, [envelope[e] EXCEPT !.candidate = c, !.state = "CANDIDATE"])
    BY <1>5 DEF CandidateReady
  <2>2. PICK row : row = [envelope[e] EXCEPT !.candidate = c, !.state = "CANDIDATE"]
    OBVIOUS
  <2>3. Opened(e) /\ envelope[e].state = "CREATE_PENDING" /\ EnvelopeOK(e, envelope[e]) /\ envelope[e] \in EnvelopeRow
    BY <2>1, OpenRow
  <2>4. /\ row \in EnvelopeRow /\ row.state = "CANDIDATE" /\ row.candidate = c /\ row.attempts = envelope[e].attempts
        /\ row.dispatched = envelope[e].dispatched /\ row.apply = envelope[e].apply /\ row.routeMayBeActive = envelope[e].routeMayBeActive
    BY <2>2, <2>3, StatesAre DEF EnvelopeRow
  <2>5. EnvelopeOK(e, row)
    BY <2>1, <2>3, <2>4 DEF EnvelopeOK, RoutedStates, JournalInv
  <2>6. ~Stands(e, RoutedStates)
    BY <2>3 DEF Stands, RoutedStates
  <2> QED BY <2>1, <2>2, <2>3, <2>4, <2>5, <2>6, Observed
<1>6. ASSUME NEW e \in Envelopes, VerifyTarget(e) PROVE JournalInv'
  <2>1. Stands(e, {"ROUTE_PENDING"}) /\ Observe(e, [envelope[e] EXCEPT !.state = "READY"])
    BY <1>6 DEF VerifyTarget
  <2>2. PICK row : row = [envelope[e] EXCEPT !.state = "READY"]
    OBVIOUS
  <2>3. Opened(e) /\ envelope[e].state = "ROUTE_PENDING" /\ EnvelopeOK(e, envelope[e]) /\ envelope[e] \in EnvelopeRow
    BY <2>1, OpenRow
  <2>4. /\ row \in EnvelopeRow /\ row.state = "READY" /\ row.candidate = envelope[e].candidate /\ row.attempts = envelope[e].attempts
        /\ row.dispatched = envelope[e].dispatched /\ row.apply = envelope[e].apply /\ row.routeMayBeActive = envelope[e].routeMayBeActive
    BY <2>2, <2>3, StatesAre DEF EnvelopeRow
  <2>5. EnvelopeOK(e, row)
    BY <2>3, <2>4 DEF EnvelopeOK, RoutedStates
  <2> QED BY <2>1, <2>2, <2>3, <2>4, <2>5, Observed DEF RoutedStates
<1>7. ASSUME NEW e \in Envelopes, RecordApply(e) PROVE JournalInv'
  <2>1. Stands(e, {"APPLY_PENDING"}) /\ e \in world.applied /\ Observe(e, [envelope[e] EXCEPT !.apply = "VERIFIED", !.state = "APPLIED"])
    BY <1>7 DEF RecordApply
  <2>2. PICK row : row = [envelope[e] EXCEPT !.apply = "VERIFIED", !.state = "APPLIED"]
    OBVIOUS
  <2>3. Opened(e) /\ envelope[e].state = "APPLY_PENDING" /\ EnvelopeOK(e, envelope[e]) /\ envelope[e] \in EnvelopeRow
    BY <2>1, OpenRow
  <2>4. /\ row \in EnvelopeRow /\ row.state = "APPLIED" /\ row.candidate = envelope[e].candidate /\ row.attempts = envelope[e].attempts
        /\ row.dispatched = envelope[e].dispatched /\ row.apply = "VERIFIED" /\ row.routeMayBeActive = envelope[e].routeMayBeActive
    BY <2>2, <2>3, StatesAre DEF EnvelopeRow
  <2>5. EnvelopeOK(e, row)
    BY <2>1, <2>3, <2>4 DEF EnvelopeOK, RoutedStates
  <2> QED BY <2>1, <2>2, <2>3, <2>4, <2>5, Observed DEF RoutedStates
<1>8. ASSUME NEW e \in Envelopes, ObservePending(e) PROVE JournalInv'
  <2>1. Stands(e, {"APPLY_PENDING"}) /\ e \notin world.applied /\ Observe(e, [envelope[e] EXCEPT !.apply = "NOT_OCCURRED"])
    BY <1>8 DEF ObservePending
  <2>2. PICK row : row = [envelope[e] EXCEPT !.apply = "NOT_OCCURRED"]
    OBVIOUS
  <2>3. Opened(e) /\ envelope[e].state = "APPLY_PENDING" /\ EnvelopeOK(e, envelope[e]) /\ envelope[e] \in EnvelopeRow
    BY <2>1, OpenRow
  <2>4. /\ row \in EnvelopeRow /\ row.state = "APPLY_PENDING" /\ row.candidate = envelope[e].candidate /\ row.attempts = envelope[e].attempts
        /\ row.dispatched = envelope[e].dispatched /\ row.apply = "NOT_OCCURRED" /\ row.routeMayBeActive = envelope[e].routeMayBeActive
    BY <2>2, <2>3 DEF EnvelopeRow
  <2>5. EnvelopeOK(e, row)
    BY <2>1, <2>3, <2>4 DEF EnvelopeOK, RoutedStates
  <2> QED BY <2>1, <2>2, <2>3, <2>4, <2>5, Observed DEF RoutedStates
<1>9. ASSUME NEW e \in Envelopes, VerifyRestored(e) PROVE JournalInv'
  <2>1. Stands(e, {"RESTORE_PENDING"}) /\ world.route = None
        /\ Observe(e, [envelope[e] EXCEPT !.routeMayBeActive = FALSE, !.state = "MANUAL_CLOSE"])
    BY <1>9 DEF VerifyRestored, StableOnly
  <2>2. PICK row : row = [envelope[e] EXCEPT !.routeMayBeActive = FALSE, !.state = "MANUAL_CLOSE"]
    OBVIOUS
  <2>3. Opened(e) /\ envelope[e].state = "RESTORE_PENDING" /\ EnvelopeOK(e, envelope[e]) /\ envelope[e] \in EnvelopeRow
    BY <2>1, OpenRow
  <2>4. /\ row \in EnvelopeRow /\ row.state = "MANUAL_CLOSE" /\ row.candidate = envelope[e].candidate /\ row.attempts = envelope[e].attempts
        /\ row.dispatched = envelope[e].dispatched /\ row.apply = envelope[e].apply
    BY <2>2, <2>3, StatesAre DEF EnvelopeRow
  <2>5. EnvelopeOK(e, row)
    BY <2>1, <2>3, <2>4 DEF EnvelopeOK, RoutedStates
  <2> QED BY <2>1, <2>2, <2>3, <2>4, <2>5, Observed
<1>10. ASSUME NEW e \in Envelopes, RequestManualCleanup(e) PROVE JournalInv'
  <2>1. Stands(e, {"CREATE_PENDING", "CANDIDATE"}) /\ Observe(e, [envelope[e] EXCEPT !.state = "MANUAL_CLOSE"])
    BY <1>10 DEF RequestManualCleanup
  <2>2. PICK row : row = [envelope[e] EXCEPT !.state = "MANUAL_CLOSE"]
    OBVIOUS
  <2>3. Opened(e) /\ envelope[e].state \in {"CREATE_PENDING", "CANDIDATE"} /\ EnvelopeOK(e, envelope[e]) /\ envelope[e] \in EnvelopeRow
    BY <2>1, OpenRow
  <2>4. /\ row \in EnvelopeRow /\ row.state = "MANUAL_CLOSE" /\ row.candidate = envelope[e].candidate /\ row.attempts = envelope[e].attempts
        /\ row.dispatched = envelope[e].dispatched /\ row.apply = envelope[e].apply /\ row.routeMayBeActive = envelope[e].routeMayBeActive
    BY <2>2, <2>3, StatesAre DEF EnvelopeRow
  <2>5. EnvelopeOK(e, row)
    BY <2>1, <2>3, <2>4 DEF EnvelopeOK, RoutedStates
  <2>6. ~Stands(e, RoutedStates)
    BY <2>3 DEF Stands, RoutedStates
  <2> QED BY <2>1, <2>2, <2>3, <2>4, <2>5, <2>6, Observed
<1>11. ASSUME NEW e \in Envelopes, VerifyClosed(e) PROVE JournalInv'
  <2>1. /\ Stands(e, {"MANUAL_CLOSE"}) /\ Observe(e, [envelope[e] EXCEPT !.state = "CLOSED"])
        /\ envelope[e].candidate # None /\ <<e, envelope[e].candidate>> \notin world.candidates
    BY <1>11 DEF VerifyClosed
  <2>2. PICK row : row = [envelope[e] EXCEPT !.state = "CLOSED"]
    OBVIOUS
  <2>3. Opened(e) /\ envelope[e].state = "MANUAL_CLOSE" /\ EnvelopeOK(e, envelope[e]) /\ envelope[e] \in EnvelopeRow
    BY <2>1, OpenRow
  <2>4. /\ row \in EnvelopeRow /\ row.state = "CLOSED" /\ row.candidate = envelope[e].candidate /\ row.attempts = envelope[e].attempts
        /\ row.dispatched = envelope[e].dispatched /\ row.apply = envelope[e].apply /\ row.routeMayBeActive = envelope[e].routeMayBeActive
    BY <2>2, <2>3, StatesAre DEF EnvelopeRow
  <2>5. EnvelopeOK(e, row)
    BY <2>1, <2>3, <2>4 DEF EnvelopeOK, RoutedStates
  <2>6. ~Stands(e, RoutedStates)
    BY <2>3 DEF Stands, RoutedStates
  <2> QED BY <2>1, <2>2, <2>3, <2>4, <2>5, <2>6, Observed
<1>12. ASSUME NEW h \in Handles, Restart(h) PROVE JournalInv'
  <2>1. permits' = [permits EXCEPT ![h] = {}] /\ UNCHANGED <<envelope, world>>
    BY <1>12 DEF Restart
  <2>2. /\ permits' \in [Handles -> SUBSET (Envelopes \X OneShot)]
        /\ \A k \in Handles, f \in Envelopes, a \in OneShot : <<f, a>> \in permits'[k] => <<f, a>> \in permits[k]
    BY <2>1 DEF JournalInv
  <2> QED BY <2>1, <2>2 DEF JournalInv, Opened, EnvelopeOK, Stands, Routed
<1> QED BY <1>1, <1>2, <1>3, <1>4, <1>5, <1>6, <1>7, <1>8, <1>9, <1>10, <1>11, <1>12, OpenKeeps, DispatchKeeps, ByHandKeeps
        DEF Rehearse

(***************************************************************************)
(* The journal of the write transport.                                     *)
(***************************************************************************)
\* What the transport does leaves the envelopes alone, and the other way round.
LEMMA TransportLeavesJournal ==
    ASSUME JournalInv, UNCHANGED <<envelope, permits, world>> PROVE JournalInv'
BY DEF JournalInv, Opened, EnvelopeOK, Stands, Routed

LEMMA RehearseLeavesBudget ==
    ASSUME BudgetInv, UNCHANGED <<attempted, sending, written>> PROVE BudgetInv'
BY DEF BudgetInv, Reserved

LEMMA RehearseKeepsTransport ==
    ASSUME Rehearse PROVE UNCHANGED <<attempted, sending, written>>
BY DEF Rehearse, OpenEnvelope, VerifyTarget, RecordApply, ObservePending, VerifyRestored, RequestManualCleanup, VerifyClosed,
       TakeRouteBack, CandidateReady, RemoveCandidate, Restart, PrepareRehearsal, Target, ReserveApply, RestoreRoute, DispatchOnce,
       Reserve, Observe

\* A new row has a budget and an approval that no row had; its spender is the first to call with them.
LEMMA SpendGrantKeeps ==
    ASSUME BudgetInv, NEW s \in Grantees, NEW g \in Grants, SpendGrant(s, g)
    PROVE  BudgetInv'
<1>1. PICK row : row = [op |-> g.op, action |-> g.action, ref |-> g.ref, outcome |-> "UNKNOWN"]
  OBVIOUS
<1>2. PICK mine : mine = [pc |-> "call", grant |-> g]
  OBVIOUS
<1>3. ~Spent(g) /\ attempted' = attempted \cup {row} /\ sending' = [sending EXCEPT ![s] = mine] /\ written' = written
  BY <1>1, <1>2 DEF SpendGrant
<1>4. /\ row \in [op : {h.op : h \in Grants}, action : {h.action : h \in Grants},
                  ref : {h.ref : h \in Grants}, outcome : {"UNKNOWN", "RESPONSE_RECEIVED"}]
      /\ row.op = g.op /\ row.action = g.action /\ row.ref = g.ref /\ row.outcome = "UNKNOWN"
  BY <1>1
<1>5. mine \in [pc : {"idle", "call", "note"}, grant : Grants \cup {None}] /\ mine.pc = "call" /\ mine.grant = g
  BY <1>2
<1>6. \A t \in Grantees : sending'[t] = IF t = s THEN mine ELSE sending[t]
  BY <1>3 DEF BudgetInv
<1>7. ~Reserved(g) /\ written[g] = 0
  BY <1>3 DEF Spent, Reserved, BudgetInv
<1>8. \A h \in Grants : Reserved(h) => Reserved(h)'
  BY <1>3 DEF Reserved
<1>9. Reserved(g)'
  BY <1>3, <1>4 DEF Reserved, SameBudget
<1>10. \A a, b \in attempted' : SameBudget(a, b) \/ a.ref = b.ref => a = b
  <2>1. \A a \in attempted : ~(SameBudget(g, a) \/ a.ref = g.ref)
    BY <1>3 DEF Spent
  <2>2. \A a \in attempted : ~SameBudget(a, row) /\ ~SameBudget(row, a) /\ a.ref # row.ref
    BY <1>4, <2>1 DEF SameBudget
  <2> QED BY <1>3, <2>2 DEF BudgetInv
<1>11. \A t, u \in Grantees : sending'[t].pc = "call" /\ sending'[u].pc = "call" /\ sending'[t].grant = sending'[u].grant => t = u
  BY <1>5, <1>6, <1>7 DEF BudgetInv
<1>12. \A a \in attempted' : a.outcome = "RESPONSE_RECEIVED" => \E h \in Grants : written'[h] > 0 /\ SameBudget(h, a) /\ h.ref = a.ref
  BY <1>3, <1>4 DEF BudgetInv
<1>13. attempted' \subseteq [op : {h.op : h \in Grants}, action : {h.action : h \in Grants},
                             ref : {h.ref : h \in Grants}, outcome : {"UNKNOWN", "RESPONSE_RECEIVED"}]
  BY <1>3, <1>4 DEF BudgetInv
<1>14. sending' \in [Grantees -> [pc : {"idle", "call", "note"}, grant : Grants \cup {None}]]
  BY <1>3, <1>5 DEF BudgetInv
<1>15. \A t \in Grantees : /\ sending'[t].pc # "idle" => sending'[t].grant \in Grants
                           /\ sending'[t].pc = "call" => Reserved(sending[t].grant)' /\ written'[sending'[t].grant] = 0
                           /\ sending'[t].pc = "note" => written'[sending'[t].grant] = 1
  BY <1>3, <1>5, <1>6, <1>7, <1>8, <1>9 DEF BudgetInv
<1>16. written' \in [Grants -> {0, 1}] /\ \A h \in Grants : written'[h] > 0 => Reserved(h)'
  BY <1>3, <1>8 DEF BudgetInv
<1> QED BY <1>10, <1>11, <1>12, <1>13, <1>14, <1>15, <1>16 DEF BudgetInv

LEMMA CallKeeps ==
    ASSUME BudgetInv, NEW s \in Grantees, NEW answered \in BOOLEAN, CallPlatform(s, answered)
    PROVE  BudgetInv'
<1>1. PICK g \in Grants : g = sending[s].grant
  BY DEF CallPlatform, BudgetInv
<1>2. sending[s].pc = "call" /\ Reserved(g) /\ written[g] = 0 /\ attempted' = attempted
  BY <1>1 DEF CallPlatform, BudgetInv
<1>3. written' \in [Grants -> {0, 1}] /\ \A h \in Grants : written'[h] = IF h = g THEN 1 ELSE written[h]
  <2>1. written' = [written EXCEPT ![g] = written[g] + 1]
    BY <1>1 DEF CallPlatform
  <2> QED BY <1>2, <2>1 DEF BudgetInv
<1>4. PICK local \in [pc : {"idle", "note"}, grant : Grants \cup {None}] :
         sending' = [sending EXCEPT ![s] = local] /\ (local.pc = "note" => local.grant = g)
  <2>1. CASE answered
    <3>1. PICK local : local = [sending[s] EXCEPT !.pc = "note"]
      OBVIOUS
    <3>2. local \in [pc : {"idle", "note"}, grant : Grants \cup {None}] /\ local.grant = g
      BY <1>1, <3>1 DEF BudgetInv
    <3>3. sending' = [sending EXCEPT ![s] = local]
      BY <2>1, <3>1 DEF CallPlatform
    <3> QED BY <3>2, <3>3
  <2>2. CASE ~answered
    <3>1. sending' = [sending EXCEPT ![s] = AtRest]
      BY <2>2 DEF CallPlatform
    <3>2. AtRest \in [pc : {"idle", "note"}, grant : Grants \cup {None}] /\ AtRest.pc = "idle"
      BY DEF AtRest
    <3> QED BY <3>1, <3>2
  <2> QED BY <2>1, <2>2
<1>5. \A t \in Grantees : sending'[t] = IF t = s THEN local ELSE sending[t]
  BY <1>4 DEF BudgetInv
<1>6. local \in [pc : {"idle", "call", "note"}, grant : Grants \cup {None}] /\ local.pc # "call"
  BY <1>4
<1>7. sending' \in [Grantees -> [pc : {"idle", "call", "note"}, grant : Grants \cup {None}]]
  BY <1>4, <1>6 DEF BudgetInv
<1>8. \A t \in Grantees : sending'[t].pc # "idle" => sending'[t].grant \in Grants
  BY <1>4, <1>5 DEF BudgetInv
<1>9. ASSUME NEW t \in Grantees, sending'[t].pc = "call"
      PROVE  sending'[t] = sending[t] /\ sending[t].grant # g
  BY <1>1, <1>2, <1>5, <1>6, <1>9 DEF BudgetInv
<1>10. \A h : Reserved(h)' <=> Reserved(h)
  BY <1>2 DEF Reserved
<1>11. \A t \in Grantees : sending'[t].pc = "call" => Reserved(sending[t].grant)' /\ written'[sending'[t].grant] = 0
  BY <1>3, <1>8, <1>9, <1>10 DEF BudgetInv
<1>12. \A t \in Grantees : sending'[t].pc = "note" => written'[sending'[t].grant] = 1
  BY <1>3, <1>4, <1>5 DEF BudgetInv
<1>13. \A t, u \in Grantees : sending'[t].pc = "call" /\ sending'[u].pc = "call" /\ sending'[t].grant = sending'[u].grant => t = u
  BY <1>9 DEF BudgetInv
<1>14. \A h \in Grants : written'[h] > 0 => Reserved(h)'
  BY <1>2, <1>3, <1>10 DEF BudgetInv
<1>15. \A a \in attempted' : a.outcome = "RESPONSE_RECEIVED" => \E h \in Grants : written'[h] > 0 /\ SameBudget(h, a) /\ h.ref = a.ref
  BY <1>2, <1>3 DEF BudgetInv
<1> QED BY <1>2, <1>3, <1>7, <1>8, <1>11, <1>12, <1>13, <1>14, <1>15 DEF BudgetInv

\* A sender that has finished, one way or the other, only gives its grant up.
LEMMA RestsKeeps ==
    ASSUME BudgetInv, NEW s \in Grantees, sending' = [sending EXCEPT ![s] = AtRest], written' = written,
           \A h \in Grants : Reserved(h) => Reserved(h)',
           attempted' \subseteq [op : {g.op : g \in Grants}, action : {g.action : g \in Grants},
                                 ref : {g.ref : g \in Grants}, outcome : {"UNKNOWN", "RESPONSE_RECEIVED"}],
           \A a, b \in attempted' : SameBudget(a, b) \/ a.ref = b.ref => a = b,
           \A a \in attempted' : a.outcome = "RESPONSE_RECEIVED" =>
              \E g \in Grants : written[g] > 0 /\ SameBudget(g, a) /\ g.ref = a.ref
    PROVE  BudgetInv'
<1>1. AtRest \in [pc : {"idle", "call", "note"}, grant : Grants \cup {None}] /\ AtRest.pc = "idle"
  BY DEF AtRest
<1>2. \A t \in Grantees : sending'[t] = IF t = s THEN AtRest ELSE sending[t]
  BY DEF BudgetInv
<1>3. sending' \in [Grantees -> [pc : {"idle", "call", "note"}, grant : Grants \cup {None}]]
  BY <1>1 DEF BudgetInv
<1>4. \A t \in Grantees : /\ sending'[t].pc # "idle" => sending'[t].grant \in Grants
                          /\ sending'[t].pc = "call" => Reserved(sending[t].grant)' /\ written'[sending'[t].grant] = 0
                          /\ sending'[t].pc = "note" => written'[sending'[t].grant] = 1
  BY <1>1, <1>2 DEF BudgetInv
<1>5. \A t, u \in Grantees : sending'[t].pc = "call" /\ sending'[u].pc = "call" /\ sending'[t].grant = sending'[u].grant => t = u
  BY <1>1, <1>2 DEF BudgetInv
<1> QED BY <1>3, <1>4, <1>5 DEF BudgetInv

\* An answer is noted in the row of the budget, which is the caller's.
LEMMA NoteKeeps ==
    ASSUME BudgetInv, NEW s \in Grantees, NoteResponse(s)
    PROVE  BudgetInv'
<1>1. PICK g \in Grants : g = sending[s].grant
  BY DEF NoteResponse, BudgetInv
<1>2. /\ attempted' = {IF SameBudget(g, a) /\ a.outcome = "UNKNOWN" THEN [a EXCEPT !.outcome = "RESPONSE_RECEIVED"] ELSE a : a \in attempted}
      /\ sending' = [sending EXCEPT ![s] = AtRest] /\ written' = written
  BY <1>1 DEF NoteResponse
<1>3. written[g] = 1 /\ Reserved(g)
  BY <1>1 DEF NoteResponse, BudgetInv
<1> DEFINE Rows == [op : {h.op : h \in Grants}, action : {h.action : h \in Grants},
                    ref : {h.ref : h \in Grants}, outcome : {"UNKNOWN", "RESPONSE_RECEIVED"}]
           Noted(a) == IF SameBudget(g, a) /\ a.outcome = "UNKNOWN" THEN [a EXCEPT !.outcome = "RESPONSE_RECEIVED"] ELSE a
<1>4. attempted \subseteq Rows /\ attempted' = {Noted(a) : a \in attempted}
  BY <1>2 DEF BudgetInv
<1>5. ASSUME NEW a \in attempted
      PROVE  /\ Noted(a) \in Rows /\ Noted(a).op = a.op /\ Noted(a).action = a.action /\ Noted(a).ref = a.ref
             /\ Noted(a).outcome = "RESPONSE_RECEIVED" => a.outcome = "RESPONSE_RECEIVED" \/ SameBudget(g, a)
  <2>1. a \in Rows
    BY <1>4
  <2> QED BY <2>1
<1> HIDE DEF Noted, Rows
<1>6. attempted' \subseteq Rows
  BY <1>4, <1>5
<1>7. \A h \in Grants : Reserved(h) => Reserved(h)'
  BY <1>4, <1>5 DEF Reserved, SameBudget
<1>8. ASSUME NEW b \in attempted', NEW d \in attempted', SameBudget(b, d) \/ b.ref = d.ref PROVE b = d
  <2>1. PICK a \in attempted : b = Noted(a)
    BY <1>4
  <2>2. PICK c \in attempted : d = Noted(c)
    BY <1>4
  <2>3. SameBudget(a, c) \/ a.ref = c.ref
    BY <1>5, <1>8, <2>1, <2>2 DEF SameBudget
  <2>4. a = c
    BY <2>3 DEF BudgetInv
  <2> QED BY <2>1, <2>2, <2>4
<1>9. ASSUME NEW b \in attempted', b.outcome = "RESPONSE_RECEIVED"
      PROVE  \E h \in Grants : written[h] > 0 /\ SameBudget(h, b) /\ h.ref = b.ref
  <2>1. PICK a \in attempted : b = Noted(a)
    BY <1>4
  <2>2. b.op = a.op /\ b.action = a.action /\ b.ref = a.ref /\ (a.outcome = "RESPONSE_RECEIVED" \/ SameBudget(g, a))
    BY <1>5, <1>9, <2>1
  <2>3. CASE a.outcome = "RESPONSE_RECEIVED"
    BY <2>2, <2>3 DEF BudgetInv, SameBudget
  <2>4. CASE SameBudget(g, a)
    <3>1. PICK c \in attempted : SameBudget(g, c) /\ c.ref = g.ref
      BY <1>3 DEF Reserved
    <3>2. c = a
      BY <2>4, <3>1 DEF SameBudget, BudgetInv
    <3> QED BY <1>3, <2>2, <2>4, <3>1, <3>2 DEF SameBudget
  <2> QED BY <2>2, <2>3, <2>4
<1> QED BY <1>2, <1>6, <1>7, <1>8, <1>9, RestsKeeps DEF Rows

LEMMA TransportStep ==
    ASSUME BudgetInv, Transport
    PROVE  BudgetInv' /\ UNCHANGED <<envelope, permits, world>>
<1>1. ASSUME NEW s \in Grantees, OutcomeUnknown(s) PROVE BudgetInv'
  <2>1. sending' = [sending EXCEPT ![s] = AtRest] /\ written' = written /\ attempted' = attempted
    BY <1>1 DEF OutcomeUnknown
  <2>2. \A h \in Grants : Reserved(h) => Reserved(h)'
    BY <2>1 DEF Reserved
  <2>3. attempted' \subseteq [op : {g.op : g \in Grants}, action : {g.action : g \in Grants},
                              ref : {g.ref : g \in Grants}, outcome : {"UNKNOWN", "RESPONSE_RECEIVED"}]
    BY <2>1 DEF BudgetInv
  <2>4. /\ \A a, b \in attempted' : SameBudget(a, b) \/ a.ref = b.ref => a = b
        /\ \A a \in attempted' : a.outcome = "RESPONSE_RECEIVED" =>
              \E g \in Grants : written[g] > 0 /\ SameBudget(g, a) /\ g.ref = a.ref
    BY <2>1 DEF BudgetInv
  <2> QED BY <2>1, <2>2, <2>3, <2>4, RestsKeeps
<1>2. UNCHANGED <<envelope, permits, world>>
  BY DEF Transport, NoteResponse, OutcomeUnknown, SpendGrant, CallPlatform
<1> QED BY <1>1, <1>2, NoteKeeps, SpendGrantKeeps, CallKeeps DEF Transport

LEMMA RehearsalStep == RehearsalInv /\ [RehearsalNext]_rehearsalVars => RehearsalInv'
<1> SUFFICES ASSUME RehearsalInv, [RehearsalNext]_rehearsalVars PROVE RehearsalInv'
  OBVIOUS
<1>1. JournalInv /\ BudgetInv
  BY DEF RehearsalInv
<1>2. CASE Rehearse
  BY <1>1, <1>2, RehearseStep, RehearseKeepsTransport, RehearseLeavesBudget DEF RehearsalInv
<1>3. CASE Transport
  BY <1>1, <1>3, TransportStep, TransportLeavesJournal DEF RehearsalInv
<1>4. CASE UNCHANGED rehearsalVars
  BY <1>1, <1>4, RehearseLeavesBudget, TransportLeavesJournal DEF RehearsalInv, rehearsalVars
<1> QED BY <1>2, <1>3, <1>4 DEF RehearsalNext

LEMMA RehearsalInvIsSafe == RehearsalInv => RehearsalSafe
<1> SUFFICES ASSUME RehearsalInv PROVE RehearsalSafe
  OBVIOUS
<1>1. JournalInv /\ BudgetInv
  BY DEF RehearsalInv
<1>2. RehearsalTypeOK
  <2>1. written \in [Grants -> Nat]
    BY <1>1 DEF BudgetInv
  <2> QED BY <1>1, <2>1 DEF JournalInv, BudgetInv, RehearsalTypeOK
<1>3. NeverReplayed
  BY <1>1 DEF JournalInv, EnvelopeOK, NeverReplayed
<1>4. RouteIsJournalled
  <2>1. SUFFICES ASSUME world.route # None
                 PROVE  \E e \in Envelopes : /\ Stands(e, RehearsalStates \ {"MANUAL_CLOSE", "CLOSED"})
                                             /\ Routed(e) /\ envelope[e].routeMayBeActive
    BY DEF RouteIsJournalled
  <2>2. PICK e \in Envelopes : Stands(e, RoutedStates) /\ Routed(e)
    BY <1>1, <2>1 DEF JournalInv
  <2>3. Stands(e, RehearsalStates \ {"MANUAL_CLOSE", "CLOSED"})
    BY <2>2, StatesAre DEF Stands, RoutedStates
  <2>4. envelope[e].routeMayBeActive
    BY <1>1, <2>2 DEF JournalInv, EnvelopeOK, Stands
  <2> QED BY <2>2, <2>3, <2>4
<1>5. ClosedIsClean
  BY <1>1 DEF JournalInv, EnvelopeOK, ClosedIsClean
<1>6. BudgetSpentOnce
  <2>1. ASSUME NEW g \in Grants, NEW h \in Grants, written[g] > 0, written[h] > 0, SameBudget(g, h) \/ g.ref = h.ref
        PROVE  g = h /\ written[g] = 1
    <3>1. PICK a \in attempted : SameBudget(g, a) /\ a.ref = g.ref
      BY <1>1, <2>1 DEF BudgetInv, Reserved
    <3>2. PICK b \in attempted : SameBudget(h, b) /\ b.ref = h.ref
      BY <1>1, <2>1 DEF BudgetInv, Reserved
    <3>3. a = b
      BY <1>1, <2>1, <3>1, <3>2 DEF BudgetInv, SameBudget
    <3>4. g.op = h.op /\ g.action = h.action /\ g.ref = h.ref
      BY <3>1, <3>2, <3>3 DEF SameBudget
    <3>5. g = [op |-> g.op, action |-> g.action, ref |-> g.ref] /\ h = [op |-> h.op, action |-> h.action, ref |-> h.ref]
      BY RehearsalAssumption
    <3>6. written[g] = 1
      BY <1>1, <2>1 DEF BudgetInv
    <3> QED BY <3>4, <3>5, <3>6
  <2> QED BY <1>1, <2>1 DEF BudgetInv, BudgetSpentOnce
<1> QED BY <1>2, <1>3, <1>4, <1>5, <1>6 DEF RehearsalSafe

\* Whatever answers are lost and whichever processes end: no action of an envelope reaches the platform twice, a route is
\* journalled while it stands, what is closed is clean, and no budget or approval is spent for two calls.
THEOREM RehearsalIsSafe == RehearsalSpec => []RehearsalSafe
BY RehearsalStart, RehearsalStep, RehearsalInvIsSafe, PTL DEF RehearsalSpec

\* Releases and rehearsals beside each other are safe, as each of them is.
THEOREM ReleasesAreSafe == ReleasesSpec => []ReleasesSafe
BY ReleasesServeSoundly, RehearsalIsSafe, PTL DEF ReleasesSpec, ReleasesSafe

(***************************************************************************)
(* MonthlyReports: what is READY can be downloaded and is only withdrawn by *)
(* a new attempt.                                                          *)
(***************************************************************************)
ReportSteps == {"idle", "prepare", "dispatch", "scan", "again", "claim", "read", "lease"} \cup Leased
CallRecords == [pc : ReportSteps, center : Center, seen : ReportRow \cup {None}, holds : Nat]

\* A state names a workbook that is there, if it is READY.
StateOK(c, row) ==
    /\ row \in ReportRow /\ row.count >= 1 /\ row.attempt \in 1 .. row.etag
    /\ (row.sha # None) <=> (row.status = "READY")
    /\ row.status = "READY" => <<row.attempt, row.sha>> \in book[c]

\* A worker past its lease has seen its own RUNNING, and one that publishes has its workbook in the store.
CallOK(C) ==
    /\ C \in CallRecords
    /\ C.pc \in Leased \cup {"lease"} => C.seen # None
    /\ C.pc = "lease" => C.seen.status \in {"PENDING", "RUNNING"}
    /\ C.pc \in Leased => C.seen.status = "RUNNING"
    /\ C.pc = "publish" => <<C.seen.attempt, C.holds>> \in book[C.center]

ReportsInv ==
    /\ state = [c \in Center |-> state[c]] /\ book = [c \in Center |-> book[c]]
    /\ call = [w \in Workers |-> call[w]] /\ events \in [Center -> 0 .. Events] /\ faults \in 0 .. Faults
    /\ \A c \in Center : state[c] # None => StateOK(c, state[c])
    /\ \A w \in Workers : CallOK(call[w])

\* What ReadyIsKept says of a step.
KeepsReady ==
    \A c \in Center : state[c] # None /\ state[c].status = "READY" /\ state'[c] # state[c] =>
        state'[c].status = "PENDING" /\ state'[c].count = state[c].count + 1

LEMMA RestingIs ==
    Resting \in CallRecords /\ Resting.pc = "idle" /\ Centers \in Nat \ {0} /\ 1 \in Center
<1>1. Centers \in Nat \ {0} /\ 1 \in Center
  BY ReportsAssumption DEF Center
<1> QED BY <1>1 DEF Resting, CallRecords, ReportSteps

LEMMA ReportsStart == ReportsInit => ReportsInv
<1> SUFFICES ASSUME ReportsInit PROVE ReportsInv
  OBVIOUS
<1>1. CallOK(Resting)
  BY RestingIs DEF CallOK, Resting, Leased
<1>2. 0 \in 0 .. Events /\ 0 \in 0 .. Faults
  BY ReportsAssumption
<1> QED BY <1>1, <1>2 DEF ReportsInit, ReportsInv

\* The other workers are not disturbed by workbooks that are added, nor by a state's write.
LEMMA BooksGrow ==
    ASSUME ReportsInv, NEW w \in Workers, NEW C, call' = [call EXCEPT ![w] = C], CallOK(C)',
           \A c \in Center : book[c] \subseteq book'[c]
    PROVE  call' = [t \in Workers |-> call'[t]] /\ \A t \in Workers : CallOK(call[t])'
<1>1. call' = [t \in Workers |-> call'[t]] /\ \A t \in Workers : call'[t] = IF t = w THEN C ELSE call[t]
  BY DEF ReportsInv
<1>2. ASSUME NEW t \in Workers PROVE CallOK(call[t])'
  <2>1. CASE t = w
    BY <1>1, <2>1
  <2>2. CASE t # w
    <3>1. CallOK(call[t]) /\ call'[t] = call[t] /\ call[t].center \in Center
      BY <1>1, <2>2 DEF ReportsInv, CallOK, CallRecords
    <3> QED BY <3>1 DEF CallOK
  <2> QED BY <2>1, <2>2
<1> QED BY <1>1, <1>2

\* A step to pc keeps what the lease has given, or forgets it.
LEMMA Stepped ==
    ASSUME ReportsInv, NEW w \in Workers, NEW pc \in ReportSteps \ {"lease"}, Step(w, pc),
           pc \in Leased => call[w].pc \in Leased,
           \A c \in Center : book[c] \subseteq book'[c],
           pc = "publish" => <<call[w].seen.attempt, call[w].holds>> \in book'[call[w].center]
    PROVE  call' = [t \in Workers |-> call'[t]] /\ \A t \in Workers : CallOK(call[t])'
<1>1. CallOK(call[w]) /\ call[w] \in CallRecords
  BY DEF ReportsInv, CallOK
<1>2. PICK C : call' = [call EXCEPT ![w] = C] /\ CallOK(C)'
  <2>1. CASE pc = "idle"
    <3>1. call' = [call EXCEPT ![w] = Resting]
      BY <2>1 DEF Step, Leased
    <3>2. CallOK(Resting)'
      BY RestingIs DEF CallOK, Resting, Leased
    <3> QED BY <3>1, <3>2
  <2>2. CASE pc \in Leased
    <3>1. PICK C : C = [call[w] EXCEPT !.pc = pc]
      OBVIOUS
    <3>2. call' = [call EXCEPT ![w] = C]
      BY <2>2, <3>1 DEF Step, Leased
    <3>3. C \in CallRecords /\ C.pc = pc /\ C.center = call[w].center /\ C.seen = call[w].seen /\ C.holds = call[w].holds
      BY <1>1, <3>1 DEF CallRecords
    <3>4. call[w].seen # None /\ call[w].seen.status = "RUNNING"
      BY <1>1, <2>2 DEF CallOK
    <3>5. CallOK(C)'
      BY <3>3, <3>4 DEF CallOK, Leased
    <3> QED BY <3>2, <3>5
  <2>3. CASE pc # "idle" /\ pc \notin Leased
    <3>1. PICK C : C = [Resting EXCEPT !.pc = pc, !.center = call[w].center]
      OBVIOUS
    <3>2. call' = [call EXCEPT ![w] = C]
      BY <2>3, <3>1 DEF Step
    <3>3. C \in CallRecords /\ C.pc = pc
      BY <1>1, <3>1, RestingIs DEF CallRecords, Resting
    <3>4. CallOK(C)'
      BY <2>3, <3>3 DEF CallOK, Leased
    <3> QED BY <3>2, <3>4
  <2> QED BY <2>1, <2>2, <2>3
<1> QED BY <1>2, BooksGrow
\* A state is written where it is as it was seen, and the worker goes on.
LEMMA SaveKeeps ==
    ASSUME ReportsInv, NEW w \in Workers, NEW new, NEW done \in {"generate", "dispatch", "read", "idle"},
           NEW conflict \in {"idle", "read", "failing"}, NEW failed \in {"idle", "failing"}, Save(w, new, done, conflict, failed),
           conflict = "failing" \/ failed = "failing" => call[w].pc \in Leased,
           LET c == call[w].center IN
           state[c] = call[w].seen =>
              /\ new \in ReportRow /\ new.count >= 1 /\ new.attempt \in 1 .. (IF state[c] = None THEN 1 ELSE state[c].etag + 1)
              /\ (new.sha # None) <=> (new.status = "READY")
              /\ new.status = "READY" => <<new.attempt, new.sha>> \in book[c]
              /\ done = "generate" => new.status = "RUNNING"
              /\ state[c] # None /\ state[c].status = "READY" => new.status = "PENDING" /\ new.count = state[c].count + 1
    PROVE  ReportsInv' /\ KeepsReady
<1>1. PICK c \in Center : c = call[w].center
  BY DEF ReportsInv, CallOK, CallRecords
<1>2. book' = book /\ events' = events
  BY DEF Save
<1>3. PICK etag : etag = IF state[c] = None THEN 1 ELSE state[c].etag + 1
  OBVIOUS
<1>4. PICK row : row = [new EXCEPT !.etag = etag]
  OBVIOUS
<1>5. ASSUME state[c] = call[w].seen
      PROVE  /\ StateOK(c, row) /\ row # None
             /\ done = "generate" => row.status = "RUNNING"
             /\ state[c] # None /\ state[c].status = "READY" => row.status = "PENDING" /\ row.count = state[c].count + 1
  <2>1. /\ new \in ReportRow /\ new.count >= 1 /\ new.attempt \in 1 .. etag
        /\ (new.sha # None) <=> (new.status = "READY")
        /\ new.status = "READY" => <<new.attempt, new.sha>> \in book[c]
        /\ done = "generate" => new.status = "RUNNING"
        /\ state[c] # None /\ state[c].status = "READY" => new.status = "PENDING" /\ new.count = state[c].count + 1
    BY <1>1, <1>3, <1>5
  <2>2. etag \in Nat
    <3>1. ASSUME state[c] # None PROVE state[c].etag \in Nat
      BY <3>1 DEF ReportsInv, StateOK, ReportRow
    <3> QED BY <1>3, <3>1
  <2>3. /\ row \in ReportRow /\ row.status = new.status /\ row.attempt = new.attempt /\ row.count = new.count
        /\ row.etag = etag /\ row.sha = new.sha
    BY <1>4, <2>1, <2>2 DEF ReportRow
  <2>4. row # None
    BY <2>3, NoReportAssumption
  <2> QED BY <2>1, <2>3, <2>4 DEF StateOK
<1>6. ASSUME state' = [state EXCEPT ![c] = row], StateOK(c, row), row # None,
             state[c] # None /\ state[c].status = "READY" => row.status = "PENDING" /\ row.count = state[c].count + 1
      PROVE  /\ state' = [d \in Center |-> state'[d]] /\ state'[c] = row /\ KeepsReady
             /\ \A d \in Center : state'[d] # None => StateOK(d, state[d])'
  <2>1. state' = [d \in Center |-> state'[d]] /\ \A d \in Center : state'[d] = IF d = c THEN row ELSE state[d]
    BY <1>6 DEF ReportsInv
  <2> QED BY <1>2, <1>6, <2>1 DEF ReportsInv, StateOK, KeepsReady
<1>7. ASSUME UNCHANGED state
      PROVE  /\ state' = [d \in Center |-> state'[d]] /\ KeepsReady
             /\ \A d \in Center : state'[d] # None => StateOK(d, state[d])'
  BY <1>2, <1>7 DEF ReportsInv, StateOK, KeepsReady
<1>8. /\ state' = [d \in Center |-> state'[d]] /\ KeepsReady
      /\ \A d \in Center : state'[d] # None => StateOK(d, state[d])'
      /\ faults' \in 0 .. Faults
      /\ call' = [t \in Workers |-> call'[t]] /\ \A t \in Workers : CallOK(call[t])'
  <2>1. CASE /\ Matches(c, call[w].seen) /\ Write(w, c, new) /\ faults' = faults
             /\ IF done = "generate" THEN call' = [call EXCEPT ![w].pc = done, ![w].seen = state'[c]] ELSE Step(w, done)
    <3>1. state[c] = call[w].seen /\ state' = [state EXCEPT ![c] = row]
      BY <2>1, <1>3, <1>4 DEF Matches, Write
    <3>2. state'[c] = row
      BY <1>5, <1>6, <3>1
    <3>3. CASE done = "generate"
      <4>1. PICK C : C = [call[w] EXCEPT !.pc = "generate", !.seen = row]
        OBVIOUS
      <4>2. row \in ReportRow /\ row # None /\ row.status = "RUNNING" /\ call[w] \in CallRecords
        BY <1>5, <3>1, <3>3 DEF StateOK, ReportsInv, CallOK
      <4>3. C \in CallRecords /\ C.pc = "generate" /\ C.seen = row
        BY <4>1, <4>2 DEF CallRecords, ReportSteps, Leased
      <4>4. CallOK(C)'
        BY <4>2, <4>3 DEF CallOK, Leased
      <4>5. call' = [call EXCEPT ![w] = C]
        BY <2>1, <3>2, <3>3, <4>1, <4>2 DEF ReportsInv, CallRecords
      <4> QED BY <1>2, <1>5, <1>6, <2>1, <3>1, <4>4, <4>5, BooksGrow DEF ReportsInv
    <3>4. CASE done # "generate"
      <4>1. Step(w, done) /\ done \in ReportSteps \ {"lease"} /\ done \notin Leased
        BY <2>1, <3>4 DEF ReportSteps, Leased
      <4>2. call' = [t \in Workers |-> call'[t]] /\ \A t \in Workers : CallOK(call[t])'
        BY <1>2, <4>1, Stepped DEF Leased
      <4> QED BY <1>5, <1>6, <2>1, <3>1, <4>2 DEF ReportsInv
    <3> QED BY <3>3, <3>4
  <2>2. CASE ~Matches(c, call[w].seen) /\ Step(w, conflict) /\ UNCHANGED <<state, stale, faults>>
    <3>1. call' = [t \in Workers |-> call'[t]] /\ \A t \in Workers : CallOK(call[t])'
      BY <1>2, <2>2, Stepped DEF Leased, ReportSteps
    <3> QED BY <1>7, <2>2, <3>1 DEF ReportsInv
  <2>3. CASE faults < Faults /\ faults' = faults + 1 /\ Step(w, failed)
             /\ (UNCHANGED <<state, stale>> \/ (Matches(c, call[w].seen) /\ Write(w, c, new)))
    <3>1. call' = [t \in Workers |-> call'[t]] /\ \A t \in Workers : CallOK(call[t])'
      BY <1>2, <2>3, Stepped DEF Leased, ReportSteps
    <3>2. faults' \in 0 .. Faults
      BY <2>3, ReportsAssumption DEF ReportsInv
    <3>3. CASE UNCHANGED state
      BY <1>7, <3>1, <3>2, <3>3
    <3>4. CASE Matches(c, call[w].seen) /\ Write(w, c, new)
      <4>1. state[c] = call[w].seen /\ state' = [state EXCEPT ![c] = row]
        BY <3>4, <1>3, <1>4 DEF Matches, Write
      <4> QED BY <1>5, <1>6, <3>1, <3>2, <4>1
    <3> QED BY <2>3, <3>3, <3>4
  <2> QED BY <1>1, <2>1, <2>2, <2>3 DEF Save
<1> QED BY <1>2, <1>8 DEF ReportsInv

\* What a worker does besides writing states leaves them alone.
LEMMA StatesStay ==
    ASSUME ReportsInv, UNCHANGED state, \A c \in Center : book[c] \subseteq book'[c]
    PROVE  KeepsReady /\ \A c \in Center : state'[c] # None => StateOK(c, state[c])'
BY DEF ReportsInv, StateOK, KeepsReady

LEMMA NewAttempt ==
    ASSUME ReportsInv, NEW c \in Center
    PROVE  LET new == Pending(state[c]) IN
           /\ new \in ReportRow /\ new.count >= 1 /\ new.attempt \in 1 .. (IF state[c] = None THEN 1 ELSE state[c].etag + 1)
           /\ new.sha = None /\ new.status = "PENDING"
           /\ state[c] # None => new.count = state[c].count + 1
<1>1. CASE state[c] = None
  <2>1. Pending(state[c]) = [status |-> "PENDING", attempt |-> 1, count |-> 1, etag |-> 0, sha |-> None]
    BY <1>1 DEF Pending, NextCount
  <2> QED BY <1>1, <2>1 DEF ReportRow
<1>2. CASE state[c] # None
  <2>1. state[c].etag \in Nat /\ state[c].count \in Nat
    BY <1>2 DEF ReportsInv, StateOK, ReportRow
  <2>2. Pending(state[c]) = [status |-> "PENDING", attempt |-> state[c].etag + 1, count |-> state[c].count + 1, etag |-> 0, sha |-> None]
    BY <1>2 DEF Pending, NextCount
  <2> QED BY <1>2, <2>1, <2>2 DEF ReportRow
<1> QED BY <1>1, <1>2

LEMMA ScansOn ==
    ASSUME ReportsInv, NEW w \in Workers, ScanOn(w), book' = book
    PROVE  \E C : call' = [call EXCEPT ![w] = C] /\ CallOK(C)'
<1>1. call[w].center \in Center
  BY DEF ReportsInv, CallOK, CallRecords
<1>2. CASE call[w].center = Centers
  <2>1. call' = [call EXCEPT ![w] = Resting]
    BY <1>2 DEF ScanOn
  <2>2. CallOK(Resting)'
    BY RestingIs DEF CallOK, Resting, Leased
  <2> QED BY <2>1, <2>2
<1>3. CASE call[w].center # Centers
  <2>1. call[w].center + 1 \in Center
    BY <1>1, <1>3, RestingIs DEF Center
  <2>2. PICK C : C = [Resting EXCEPT !.pc = "scan", !.center = call[w].center + 1]
    OBVIOUS
  <2>3. call' = [call EXCEPT ![w] = C]
    BY <1>3, <2>2 DEF ScanOn
  <2>4. C \in CallRecords /\ C.pc = "scan"
    BY <2>1, <2>2 DEF Resting, CallRecords, ReportSteps
  <2>5. CallOK(C)'
    BY <2>4 DEF CallOK, Leased
  <2> QED BY <2>3, <2>5
<1> QED BY <1>2, <1>3

LEMMA ReportsStep ==
    ASSUME ReportsInv, ReportsNext
    PROVE  ReportsInv' /\ KeepsReady
<1>1. /\ \A w \in Workers : CallOK(call[w]) /\ call[w] \in CallRecords /\ call[w].center \in Center
      /\ \A c \in Center : state[c] # None => StateOK(c, state[c]) /\ state[c] \in ReportRow
  BY DEF ReportsInv, CallOK, StateOK, CallRecords
<1>2. ASSUME UNCHANGED <<state, book>>, events' \in [Center -> 0 .. Events], faults' \in 0 .. Faults,
             call' = [t \in Workers |-> call'[t]], \A t \in Workers : CallOK(call[t])'
      PROVE  ReportsInv' /\ KeepsReady
  BY <1>2, StatesStay DEF ReportsInv
\* A worker that only steps on.
<1>3. ASSUME NEW w \in Workers, NEW pc \in ReportSteps \ {"lease", "publish"}, Step(w, pc), pc \in Leased => call[w].pc \in Leased,
             UNCHANGED <<state, book>>, events' \in [Center -> 0 .. Events], faults' \in 0 .. Faults
      PROVE  ReportsInv' /\ KeepsReady
  BY <1>2, <1>3, Stepped
\* A worker that goes on with a state it has read, or with none.
<1>4. ASSUME NEW w \in Workers, NEW C, call' = [call EXCEPT ![w] = C], CallOK(C)', UNCHANGED <<state, book>>,
             events' \in [Center -> 0 .. Events], faults' \in 0 .. Faults
      PROVE  ReportsInv' /\ KeepsReady
  BY <1>2, <1>4, BooksGrow
<1>5. events \in [Center -> 0 .. Events] /\ faults \in 0 .. Faults
  BY DEF ReportsInv
<1>6. ASSUME NEW w \in Workers, NEW new, Save(w, new, "dispatch", "idle", "idle") \/ Save(w, new, "read", "read", "idle"),
             new = Pending(call[w].seen)
      PROVE  ReportsInv' /\ KeepsReady
  <2>1. PICK c \in Center : c = call[w].center
    BY <1>1
  <2>2. ASSUME state[c] = call[w].seen
        PROVE  /\ new \in ReportRow /\ new.count >= 1 /\ new.attempt \in 1 .. (IF state[c] = None THEN 1 ELSE state[c].etag + 1)
               /\ (new.sha # None) <=> (new.status = "READY")
               /\ new.status # "READY"
               /\ state[c] # None /\ state[c].status = "READY" => new.status = "PENDING" /\ new.count = state[c].count + 1
    BY <1>6, <2>2, NewAttempt
  <2> QED BY <1>6, <2>1, <2>2, SaveKeeps
<1>7. ASSUME NEW w \in Workers, Prepare(w) PROVE ReportsInv' /\ KeepsReady
  BY <1>6, <1>7 DEF Prepare
<1>8. ASSUME NEW w \in Workers, Claim(w) PROVE ReportsInv' /\ KeepsReady
  BY <1>6, <1>8 DEF Claim
<1>9. ASSUME NEW w \in Workers, Scan(w) PROVE ReportsInv' /\ KeepsReady
  <2>1. call[w].pc = "scan" /\ UNCHANGED <<state, book, events, faults>> /\ (Step(w, "again") \/ Step(w, "read") \/ ScanOn(w))
    BY <1>9 DEF Scan
  <2>2. CASE Step(w, "again") \/ Step(w, "read")
    BY <1>3, <1>5, <2>1, <2>2 DEF ReportSteps, Leased
  <2>3. CASE ScanOn(w)
    BY <1>4, <1>5, <2>1, <2>3, ScansOn
  <2> QED BY <2>1, <2>2, <2>3
<1>10. ASSUME NEW w \in Workers, ScanAgain(w) PROVE ReportsInv' /\ KeepsReady
  <2>1. PICK c \in Center : c = call[w].center
    BY <1>1
  <2>2. /\ call[w].pc = "again" /\ UNCHANGED <<state, book, events, faults>>
        /\ ScanOn(w) \/ call' = [call EXCEPT ![w].pc = "claim", ![w].seen = state[c]]
    BY <1>10, <2>1 DEF ScanAgain
  <2>3. CASE ScanOn(w)
    BY <1>4, <1>5, <2>2, <2>3, ScansOn
  <2>4. CASE call' = [call EXCEPT ![w].pc = "claim", ![w].seen = state[c]]
    <3>1. PICK C : C = [call[w] EXCEPT !.pc = "claim", !.seen = state[c]]
      OBVIOUS
    <3>2. call' = [call EXCEPT ![w] = C]
      BY <1>1, <2>4, <3>1 DEF ReportsInv, CallRecords
    <3>3. C \in CallRecords /\ C.pc = "claim"
      BY <1>1, <3>1 DEF CallRecords, ReportSteps
    <3>4. CallOK(C)'
      BY <3>3 DEF CallOK, Leased
    <3> QED BY <1>4, <1>5, <2>2, <3>2, <3>4
  <2> QED BY <2>2, <2>3, <2>4
<1>11. ASSUME NEW w \in Workers, Read(w) PROVE ReportsInv' /\ KeepsReady
  <2>1. PICK c \in Center : c = call[w].center
    BY <1>1
  <2>2. call[w].pc = "read" /\ UNCHANGED <<state, book, events, faults>>
    BY <1>11 DEF Read
  <2>3. CASE Step(w, "idle")
    BY <1>3, <1>5, <2>2, <2>3 DEF ReportSteps, Leased
  <2>4. CASE ~Step(w, "idle")
    <3>1. state[c] # None /\ Shown(c) \in {"PENDING", "EXPIRED"} /\ call' = [call EXCEPT ![w].pc = "lease", ![w].seen = state[c]]
      BY <1>11, <2>1, <2>4 DEF Read
    <3>2. state[c].status \in {"PENDING", "RUNNING"} /\ state[c] \in ReportRow
      <4>1. state[c].status \in {"PENDING", "RUNNING", "READY", "FAILED"} /\ state[c] \in ReportRow
        BY <1>1, <3>1 DEF ReportRow
      <4>2. CASE state[c].status \in {"PENDING", "RUNNING"} /\ stale[c]
        BY <4>1, <4>2
      <4>3. CASE ~(state[c].status \in {"PENDING", "RUNNING"} /\ stale[c])
        <5>1. Shown(c) = state[c].status
          BY <3>1, <4>3 DEF Shown
        <5> QED BY <3>1, <4>1, <5>1
      <4> QED BY <4>2, <4>3
    <3>3. PICK C : C = [call[w] EXCEPT !.pc = "lease", !.seen = state[c]]
      OBVIOUS
    <3>4. call' = [call EXCEPT ![w] = C]
      BY <1>1, <3>1, <3>3 DEF ReportsInv, CallRecords
    <3>5. C \in CallRecords /\ C.pc = "lease" /\ C.seen = state[c]
      BY <1>1, <3>2, <3>3 DEF CallRecords, ReportSteps
    <3>6. CallOK(C)'
      BY <3>1, <3>2, <3>5 DEF CallOK, Leased
    <3> QED BY <1>4, <1>5, <2>2, <3>4, <3>6
  <2> QED BY <2>3, <2>4
<1>12. ASSUME NEW w \in Workers, Lease(w) PROVE ReportsInv' /\ KeepsReady
  <2>1. PICK c \in Center : c = call[w].center
    BY <1>1
  <2>2. call[w].pc = "lease" /\ call[w].seen # None /\ call[w].seen.status \in {"PENDING", "RUNNING"}
    BY <1>1, <1>12 DEF Lease, CallOK
  <2>3. PICK new : new = [call[w].seen EXCEPT !.status = "RUNNING"]
    OBVIOUS
  <2>4. Save(w, new, "generate", "idle", "idle")
    BY <1>12, <2>3 DEF Lease
  <2>5. ASSUME state[c] = call[w].seen
        PROVE  /\ new \in ReportRow /\ new.count >= 1 /\ new.attempt \in 1 .. (state[c].etag + 1)
               /\ new.sha = None /\ new.status = "RUNNING" /\ state[c].status # "READY"
    <3>1. StateOK(c, state[c]) /\ state[c] \in ReportRow
      BY <1>1, <2>2, <2>5
    <3>2. /\ new \in ReportRow /\ new.count = state[c].count /\ new.attempt = state[c].attempt /\ new.sha = state[c].sha
          /\ new.status = "RUNNING"
      BY <2>3, <2>5, <3>1 DEF ReportRow
    <3>3. state[c].sha = None
      BY <2>2, <2>5, <3>1 DEF StateOK
    <3>4. state[c].attempt \in 1 .. (state[c].etag + 1)
      BY <3>1 DEF StateOK, ReportRow
    <3> QED BY <2>2, <2>5, <3>1, <3>2, <3>3, <3>4 DEF StateOK
  <2> QED BY <2>1, <2>2, <2>4, <2>5, SaveKeeps
<1>13. ASSUME NEW w \in Workers, Generate(w) PROVE ReportsInv' /\ KeepsReady
  <2>1. call[w].pc = "generate" /\ UNCHANGED <<state, book, events, faults>>
    BY <1>13 DEF Generate
  <2>2. CASE Step(w, "failing")
    BY <1>3, <1>5, <2>1, <2>2 DEF ReportSteps, Leased
  <2>3. CASE call' = [call EXCEPT ![w].pc = "put", ![w].holds = call[w].seen.etag]
    <3>1. call[w].seen \in ReportRow /\ call[w].seen.status = "RUNNING" /\ call[w].seen # None
      BY <1>1, <2>1 DEF CallOK, Leased, CallRecords
    <3>2. PICK C : C = [call[w] EXCEPT !.pc = "put", !.holds = call[w].seen.etag]
      OBVIOUS
    <3>3. call' = [call EXCEPT ![w] = C]
      BY <1>1, <2>3, <3>2 DEF ReportsInv, CallRecords
    <3>4. C \in CallRecords /\ C.pc = "put" /\ C.seen = call[w].seen
      BY <1>1, <3>1, <3>2 DEF CallRecords, ReportSteps, Leased, ReportRow
    <3>5. CallOK(C)'
      BY <3>1, <3>4 DEF CallOK, Leased
    <3> QED BY <1>4, <1>5, <2>1, <3>3, <3>5
  <2> QED BY <1>13, <2>2, <2>3 DEF Generate
<1>14. ASSUME NEW w \in Workers, Put(w) PROVE ReportsInv' /\ KeepsReady
  <2>1. PICK c \in Center : c = call[w].center
    BY <1>1
  <2>2. PICK a : a = call[w].seen.attempt
    OBVIOUS
  <2>3. PICK B : B = {b \in book[c] : b[1] # a} \cup {<<a, call[w].holds>>}
    OBVIOUS
  <2>4. call[w].pc = "put" /\ UNCHANGED <<state, events>>
    BY <1>14 DEF Put
  <2>5. \/ Absent(c, a) /\ book' = [book EXCEPT ![c] = B] /\ Step(w, "publish") /\ faults' = faults
        \/ book' = book /\ Step(w, "failing") /\ faults' \in 0 .. Faults
        \/ Absent(c, a) /\ book' = [book EXCEPT ![c] = B] /\ Step(w, "failing") /\ faults' \in 0 .. Faults
    BY <1>5, <1>14, <2>1, <2>2, <2>3, ReportsAssumption DEF Put
  <2>6. ASSUME Absent(c, a), book' = [book EXCEPT ![c] = B]
        PROVE  /\ book' = [d \in Center |-> book'[d]] /\ \A d \in Center : book[d] \subseteq book'[d]
               /\ <<a, call[w].holds>> \in book'[c]
    BY <2>3, <2>6 DEF ReportsInv, Absent
  <2>7. CASE Absent(c, a) /\ book' = [book EXCEPT ![c] = B] /\ Step(w, "publish") /\ faults' = faults
    <3>1. call' = [t \in Workers |-> call'[t]] /\ \A t \in Workers : CallOK(call[t])'
      BY <2>1, <2>2, <2>4, <2>6, <2>7, Stepped DEF ReportSteps, Leased
    <3> QED BY <1>5, <2>4, <2>6, <2>7, <3>1, StatesStay DEF ReportsInv
  <2>8. CASE book' = book /\ Step(w, "failing") /\ faults' \in 0 .. Faults
    BY <1>3, <1>5, <2>4, <2>8 DEF ReportSteps, Leased
  <2>9. CASE Absent(c, a) /\ book' = [book EXCEPT ![c] = B] /\ Step(w, "failing") /\ faults' \in 0 .. Faults
    <3>1. call' = [t \in Workers |-> call'[t]] /\ \A t \in Workers : CallOK(call[t])'
      BY <2>4, <2>6, <2>9, Stepped DEF ReportSteps, Leased
    <3> QED BY <1>5, <2>4, <2>6, <2>9, <3>1, StatesStay DEF ReportsInv
  <2> QED BY <2>5, <2>7, <2>8, <2>9
<1>15. ASSUME NEW w \in Workers, NEW new, NEW conflict \in {"idle", "failing"}, NEW failed \in {"idle", "failing"},
              Save(w, new, "idle", conflict, failed), call[w].pc \in Leased, NEW end \in {"READY", "FAILED"}, NEW sha \in Nat \cup {None},
              new = [call[w].seen EXCEPT !.status = end, !.sha = sha], (sha # None) <=> (end = "READY"),
              end = "READY" => <<call[w].seen.attempt, sha>> \in book[call[w].center]
       PROVE  ReportsInv' /\ KeepsReady
  <2>1. PICK c \in Center : c = call[w].center
    BY <1>1
  <2>2. call[w].seen # None /\ call[w].seen.status = "RUNNING"
    BY <1>1, <1>15 DEF CallOK
  <2>3. ASSUME state[c] = call[w].seen
        PROVE  /\ new \in ReportRow /\ new.count >= 1 /\ new.attempt \in 1 .. (state[c].etag + 1)
               /\ (new.sha # None) <=> (new.status = "READY")
               /\ new.status = "READY" => <<new.attempt, new.sha>> \in book[c]
               /\ state[c].status # "READY"
    <3>1. StateOK(c, state[c]) /\ state[c] \in ReportRow
      BY <1>1, <2>2, <2>3
    <3>2. /\ new \in ReportRow /\ new.count = state[c].count /\ new.attempt = state[c].attempt /\ new.sha = sha
          /\ new.status = end
      BY <1>15, <2>3, <3>1 DEF ReportRow
    <3>3. state[c].attempt \in 1 .. (state[c].etag + 1)
      BY <3>1 DEF StateOK, ReportRow
    <3> QED BY <1>15, <2>1, <2>2, <2>3, <3>1, <3>2, <3>3 DEF StateOK
  <2> QED BY <1>15, <2>1, <2>2, <2>3, SaveKeeps
<1>16. ASSUME NEW w \in Workers, Publish(w) PROVE ReportsInv' /\ KeepsReady
  <2>1. call[w].pc = "publish" /\ <<call[w].seen.attempt, call[w].holds>> \in book[call[w].center] /\ call[w].holds \in Nat
    BY <1>1, <1>16 DEF Publish, CallOK, CallRecords
  <2>2. call[w].holds # None
    BY <2>1, NoReportAssumption
  <2>3. PICK new : new = [call[w].seen EXCEPT !.status = "READY", !.sha = call[w].holds]
    OBVIOUS
  <2>4. Save(w, new, "idle", "failing", "failing")
    BY <1>16, <2>3 DEF Publish
  <2> QED BY <1>15, <2>1, <2>2, <2>3, <2>4 DEF Leased
<1>17. ASSUME NEW w \in Workers, RecordFailure(w) PROVE ReportsInv' /\ KeepsReady
  <2>1. call[w].pc = "failing" /\ call[w].seen \in ReportRow /\ call[w].seen # None /\ call[w].seen.status = "RUNNING"
    BY <1>1, <1>17 DEF RecordFailure, CallOK, CallRecords, Leased
  <2>2. PICK c \in Center : c = call[w].center
    BY <1>1
  <2>3. PICK new : new = [call[w].seen EXCEPT !.status = "FAILED"]
    OBVIOUS
  <2>4. Save(w, new, "idle", "idle", "idle")
    BY <1>17, <2>3 DEF RecordFailure
  <2>5. ASSUME state[c] = call[w].seen
        PROVE  /\ new \in ReportRow /\ new.count >= 1 /\ new.attempt \in 1 .. (state[c].etag + 1)
               /\ new.sha = None /\ new.status = "FAILED" /\ state[c].status # "READY"
    <3>1. StateOK(c, state[c]) /\ state[c] \in ReportRow
      BY <1>1, <2>1, <2>5
    <3>2. /\ new \in ReportRow /\ new.count = state[c].count /\ new.attempt = state[c].attempt /\ new.sha = state[c].sha
          /\ new.status = "FAILED"
      BY <2>3, <2>5, <3>1 DEF ReportRow
    <3>3. state[c].attempt \in 1 .. (state[c].etag + 1)
      BY <3>1 DEF StateOK, ReportRow
    <3> QED BY <2>1, <2>5, <3>1, <3>2, <3>3 DEF StateOK
  <2> QED BY <2>1, <2>2, <2>4, <2>5, SaveKeeps
<1>18. ASSUME NEW w \in Workers, NEW accepted \in BOOLEAN, SendEvent(w, accepted) PROVE ReportsInv' /\ KeepsReady
  <2>1. Step(w, "idle") /\ UNCHANGED <<state, book, faults>>
    BY <1>18 DEF SendEvent
  <2>2. events' \in [Center -> 0 .. Events]
    <3>1. PICK c \in Center : c = call[w].center
      BY <1>1
    <3>2. events' = [events EXCEPT ![c] = IF accepted /\ events[c] < Events THEN events[c] + 1 ELSE events[c]]
      BY <1>18, <3>1 DEF SendEvent
    <3> QED BY <1>5, <3>2, ReportsAssumption
  <2> QED BY <1>3, <1>5, <2>1, <2>2 DEF ReportSteps, Leased
<1>19. ASSUME NEW w \in Workers, StartSweep(w) PROVE ReportsInv' /\ KeepsReady
  BY <1>3, <1>5, <1>19 DEF StartSweep, ReportSteps, Leased
<1>20. ASSUME NEW w \in Workers, Crash(w) PROVE ReportsInv' /\ KeepsReady
  <2>1. faults' \in 0 .. Faults
    BY <1>5, <1>20, ReportsAssumption DEF Crash
  <2> QED BY <1>3, <1>5, <1>20, <2>1 DEF Crash, ReportSteps, Leased
<1>21. ASSUME NEW w \in Workers, NEW c \in Center, Deliver(w, c) PROVE ReportsInv' /\ KeepsReady
  <2>1. call[w].pc = "idle" /\ UNCHANGED <<state, book, faults>> /\ events[c] > 0 /\ events' = [events EXCEPT ![c] = events[c] - 1]
    BY <1>21 DEF Deliver
  <2>2. events' \in [Center -> 0 .. Events]
    BY <1>5, <2>1, ReportsAssumption
  <2>3. PICK C : C = [call[w] EXCEPT !.pc = "read", !.center = c]
    OBVIOUS
  <2>4. call' = [call EXCEPT ![w] = C]
    BY <1>21, <2>3 DEF Deliver
  <2>5. C \in CallRecords /\ C.pc = "read"
    BY <1>1, <2>3 DEF CallRecords, ReportSteps
  <2>6. CallOK(C)'
    BY <2>5 DEF CallOK, Leased
  <2> QED BY <1>4, <1>5, <2>1, <2>2, <2>4, <2>6
<1>22. ASSUME NEW w \in Workers, NEW c \in Center, NEW refresh \in BOOLEAN, StartPrepare(w, c, refresh) PROVE ReportsInv' /\ KeepsReady
  <2>1. UNCHANGED <<state, book, events, faults>>
    BY <1>22 DEF StartPrepare
  <2>2. PICK C : C = [call[w] EXCEPT !.pc = "prepare", !.center = c, !.seen = state[c]]
    OBVIOUS
  <2>3. call' = [call EXCEPT ![w] = C]
    BY <1>22, <2>2 DEF StartPrepare
  <2>4. C \in CallRecords /\ C.pc = "prepare"
    BY <1>1, <2>2 DEF CallRecords, ReportSteps
  <2>5. CallOK(C)'
    BY <2>4 DEF CallOK, Leased
  <2> QED BY <1>4, <1>5, <2>1, <2>3, <2>5
<1>23. ASSUME NEW c \in Center, Expire(c) PROVE ReportsInv' /\ KeepsReady
  <2>1. UNCHANGED <<state, book, events, call, faults>>
    BY <1>23 DEF Expire
  <2> QED BY <2>1, StatesStay DEF ReportsInv, CallOK
<1> QED BY <1>7, <1>8, <1>9, <1>10, <1>11, <1>12, <1>13, <1>14, <1>16, <1>17, <1>18, <1>19, <1>20, <1>21, <1>22, <1>23
        DEF ReportsNext, Work

\* However requests to the store, events, answers and workers are lost: a report that is READY can be downloaded, and only a
\* new attempt withdraws it.
THEOREM ReportsAreSafe == ReportsSpec => ReportsSafe
<1>1. ReportsInv /\ [ReportsNext]_reportVars => ReportsInv' /\ KeepsReady
  <2> SUFFICES ASSUME ReportsInv, [ReportsNext]_reportVars PROVE ReportsInv' /\ KeepsReady
    OBVIOUS
  <2>1. CASE UNCHANGED reportVars
    BY <2>1, StatesStay DEF reportVars, ReportsInv, CallOK
  <2> QED BY <2>1, ReportsStep
<1>2. ReportsInv => ReportsTypeOK /\ ReadyIsWhole
  BY DEF ReportsInv, ReportsTypeOK, ReadyIsWhole, StateOK, CallOK, CallRecords
<1>3. ReportsInv /\ [ReportsNext]_reportVars => [KeepsReady]_reportVars
  BY <1>1
<1>4. ReportsSpec => []ReportsInv
  BY <1>1, ReportsStart, PTL DEF ReportsSpec
<1>5. ReportsSpec => [][KeepsReady]_reportVars
  BY <1>3, <1>4, PTL DEF ReportsSpec
<1>6. ReportsSpec => ReadyIsKept
  BY <1>5 DEF ReadyIsKept, KeepsReady
<1>7. ReportsSpec => [](ReportsTypeOK /\ ReadyIsWhole)
  BY <1>2, <1>4, PTL
<1> QED BY <1>6, <1>7 DEF ReportsSafe
=============================================================================
