----------------------------- MODULE ImportsProofs -----------------------------
(***************************************************************************)
(* Theorems about what the staff enter from files and registers, for every *)
(* set of learners, rows and sources and any number of concurrent requests *)
(* and posting transactions: the roster of a month, the workbook of        *)
(* historical credits, the imports of confirmed credits, and where a       *)
(* learner belongs.                                                        *)
(***************************************************************************)
EXTENDS OpeningBalances, MonthlyRoster, HistoricalCredits, MemberRelations, FiniteSetTheorems, TLAPS

(***************************************************************************)
(* MonthlyRoster: a report attributes a learner to the class in which the  *)
(* month began.                                                            *)
(***************************************************************************)
OfItsClass(s) == s.group # None => ClassOf[s.group] = s.class
SeatOK(s) == s = None \/ (s \in Seats /\ OfItsClass(s))
RowOK(r) == r = None \/ (r \in RosterRows /\ OfItsClass(r))

\* Learners of whom a report says where they began.
Began(m) == m \notin gone /\ origin[m] # None
Undecided == month # "FROZEN" /\ day # "NEXT"

\* A view has no more rows than there are, and of the same classes; who has no row in it is, as long as rows can be
\* captured, in the class of the beginning; and who was never away is in service in it, if it is not who is edited.
ViewOK(v, but) ==
    /\ v = [roll |-> v.roll, place |-> v.place, fact |-> v.fact]
    /\ v.place \in [Attendees -> Places]
    /\ v.roll = [m \in Attendees |-> v.roll[m]] /\ v.fact = [m \in Attendees |-> v.fact[m]]
    /\ \A m \in Attendees : RowOK(v.roll[m]) /\ SeatOK(v.fact[m])
    /\ \A m \in Attendees : v.roll[m] # None => roll[m] # None /\ roll[m].class = v.roll[m].class
    /\ \A m \in Attendees \ but : m \notin gone => v.place[m].active
    /\ \A m \in Attendees : Began(m) /\ v.roll[m] # None => v.roll[m].class = origin[m]
    /\ \A m \in Attendees : Began(m) /\ v.roll[m] = None /\ Undecided =>
         v.place[m].class = origin[m] /\ (v.fact[m] # None => v.fact[m].class = origin[m])

RosterCallOK(r) ==
    /\ r = [pc |-> r.pc, what |-> r.what, who |-> r.who, to |-> r.to, group |-> r.group, view |-> r.view]
    /\ r.what \in {"edit", "transfer"} /\ r.who \in Attendees /\ r.to \in Classes \cup {None}
    /\ r.group \in Groups \cup {None} /\ (r.what = "transfer" => r.group \in Groups)
    /\ ViewOK(r.view, IF r.what = "edit" THEN {r.who} ELSE {})

Present ==
    /\ place \in [Attendees -> Places]
    /\ roll = [m \in Attendees |-> roll[m]] /\ fact = [m \in Attendees |-> fact[m]]
    /\ \A m \in Attendees : RowOK(roll[m]) /\ SeatOK(fact[m])
    /\ \A m \in Attendees : fact[m] # None => fact[m].group # None
    /\ \A m \in Attendees : m \notin gone => place[m].active
    /\ \A m \in Attendees : Began(m) /\ roll[m] # None => roll[m].class = origin[m]
    /\ \A m \in Attendees : Began(m) /\ roll[m] = None /\ Undecided =>
         place[m].class = origin[m] /\ (fact[m] # None => fact[m].class = origin[m])

RosterInv ==
    /\ day \in {"EARLY", "DUE", "NEXT"} /\ month \in {"NONE", "OPEN", "FROZEN"}
    /\ Present
    /\ month = "FROZEN" => \A m \in Attendees : Began(m) => roll[m] # None
    /\ rosterCall = [c \in RosterCalls |-> rosterCall[c]]
    /\ \A c \in RosterCalls : rosterCall[c].pc = "viewed" => RosterCallOK(rosterCall[c])

\* What no step undoes.
RowsKept ==
    /\ \A m \in Attendees : roll[m] # None => roll'[m] # None /\ roll'[m].class = roll[m].class
    /\ gone \subseteq gone' /\ origin' = origin /\ (Undecided' => Undecided)
    /\ month = "FROZEN" => month' = "FROZEN" /\ roll' = roll

LEMMA NoRowsAtAll == DOMAIN <<>> = {}
OBVIOUS

LEMMA OnlyIsOne == ASSUME NEW S PROVE Only(S) = None \/ Only(S) \in S
<1>1. CASE Cardinality(S) = 1
  <2>1. S # {}
    BY <1>1, FS_EmptySet
  <2> QED BY <1>1, <2>1 DEF Only
<1>2. CASE Cardinality(S) # 1
  BY <1>2 DEF Only
<1> QED BY <1>1, <1>2

LEMMA CurrentSeat ==
    ASSUME NEW p \in Places
    PROVE  /\ SeatOK(Current(p))
           /\ Current(p) # None => Current(p).class = p.class /\ p.active
           /\ p.active /\ p.class # None => Current(p) # None
<1>1. CASE ~p.active \/ p.class = None
  BY <1>1 DEF Current, SeatOK
<1>2. CASE p.active /\ p.class # None
  <2>1. PICK g : g = Only({x \in p.groups : ClassOf[x] = p.class})
    OBVIOUS
  <2>2. g = None \/ (g \in Groups /\ ClassOf[g] = p.class)
    <3>1. g = None \/ g \in {x \in p.groups : ClassOf[x] = p.class}
      BY <2>1, OnlyIsOne
    <3> QED BY <3>1 DEF Places
  <2>3. Current(p) = [class |-> p.class, group |-> g]
    BY <1>2, <2>1 DEF Current
  <2>4. Current(p) \in Seats /\ Current(p).class = p.class /\ Current(p).group = g
    BY <1>2, <2>2, <2>3 DEF Places, Seats
  <2> QED BY <1>2, <2>2, <2>4, RosterAssumption DEF SeatOK, OfItsClass
<1> QED BY <1>1, <1>2 DEF Places

LEMMA RowOfSeat ==
    ASSUME NEW s, SeatOK(s), s # None
    PROVE  RowOK(Row(s)) /\ Row(s) # None /\ Row(s).class = s.class /\ Row(s).included
<1>1. Row(s) \in RosterRows /\ Row(s).class = s.class /\ Row(s).group = s.group /\ Row(s).included
  BY DEF Row, SeatOK, Seats, RosterRows
<1> QED BY <1>1, RosterAssumption DEF RowOK, SeatOK, OfItsClass

\* A row keeps its class; without one the class of now counts, or that of the first meeting.
LEMMA ProjectedRow ==
    ASSUME NEW now, NEW old, NEW first, SeatOK(now), RowOK(old), SeatOK(first)
    PROVE  LET new == Projected(now, old, first) IN
           /\ RowOK(new)
           /\ old # None => new # None /\ new.class = old.class
           /\ now # None => new # None /\ new.included
           /\ now = None /\ old = None => new = None
           /\ old = None /\ now # None => new.class = now.class \/ (first # None /\ new.class = first.class)
<1>1. CASE old = None /\ now = None
  BY <1>1 DEF Projected, RowOK
<1>2. CASE old = None /\ now # None /\ first # None /\ first.class # now.class
  <2>1. RowOK(Row(first)) /\ Row(first) # None /\ Row(first).class = first.class
    BY <1>2, RowOfSeat
  <2>2. Row(first) \in Seats \cup RosterRows
    BY <2>1 DEF RowOK
  <2>3. RowOK(Row(Row(first))) /\ Row(Row(first)) # None /\ Row(Row(first)).class = first.class /\ Row(Row(first)).included
    <3>1. Row(Row(first)) = Row(first) /\ Row(first).included
      BY DEF Row
    <3> QED BY <2>1, <3>1
  <2>4. Projected(now, old, first) = Row(Row(first))
    BY <1>2, <2>1 DEF Projected
  <2> QED BY <1>2, <2>3, <2>4
<1>3. CASE old = None /\ now # None /\ ~(first # None /\ first.class # now.class)
  <2>1. Projected(now, old, first) = Row(now)
    BY <1>3 DEF Projected
  <2> QED BY <1>3, <2>1, RowOfSeat
<1>4. CASE old # None /\ now = None
  <2>1. PICK new : new = [old EXCEPT !.included = FALSE]
    OBVIOUS
  <2>2. Projected(now, old, first) = new
    BY <1>4, <2>1 DEF Projected
  <2>3. new \in RosterRows /\ new.class = old.class /\ new.group = old.group
    BY <1>4, <2>1 DEF RowOK, RosterRows
  <2> QED BY <1>4, <2>2, <2>3, RosterAssumption DEF RowOK, OfItsClass
<1>5. CASE old # None /\ now # None /\ old.class = now.class
  <2>1. Projected(now, old, first) = Row(now)
    BY <1>5 DEF Projected
  <2> QED BY <1>5, <2>1, RowOfSeat
<1>6. CASE old # None /\ now # None /\ old.class # now.class
  <2>1. Projected(now, old, first) = Row(old)
    BY <1>6 DEF Projected
  <2>2. Row(old) \in RosterRows /\ Row(old).class = old.class /\ Row(old).group = old.group /\ Row(old).included
    BY <1>6 DEF Row, RowOK, RosterRows
  <2> QED BY <1>6, <2>1, <2>2, RosterAssumption DEF RowOK, OfItsClass
<1> QED BY <1>1, <1>2, <1>3, <1>4, <1>5, <1>6

(***************************************************************************)
(* What a call captures from its view.                                     *)
(***************************************************************************)
\* Rows that may be stored on the strength of a view: with the view's classes, and those of the beginning.
RowsOK(rows, v) ==
    /\ rows = [m \in DOMAIN rows |-> rows[m]] /\ DOMAIN rows \subseteq Attendees
    /\ \A m \in DOMAIN rows :
         /\ RowOK(rows[m]) /\ rows[m] # None
         /\ v.roll[m] # None => rows[m].class = v.roll[m].class
         /\ Began(m) => rows[m].class = origin[m]

LEMMA RefreshRowsOK ==
    ASSUME NEW v, NEW but, ViewOK(v, but), Undecided
    PROVE  /\ RowsOK(RefreshRows(v), v)
           /\ \A m \in Attendees : Began(m) /\ v.place[m].active => m \in DOMAIN RefreshRows(v)
<1>1. /\ DOMAIN RefreshRows(v) = {m \in Attendees : Sees(v, m) # None}
      /\ RefreshRows(v) = [m \in DOMAIN RefreshRows(v) |-> RefreshRows(v)[m]]
      /\ \A m \in DOMAIN RefreshRows(v) : RefreshRows(v)[m] = Sees(v, m)
  BY DEF RefreshRows
<1>2. ASSUME NEW m \in Attendees
      PROVE  /\ RowOK(Sees(v, m))
             /\ v.roll[m] # None => Sees(v, m) # None /\ Sees(v, m).class = v.roll[m].class
             /\ Began(m) /\ Sees(v, m) # None => Sees(v, m).class = origin[m]
             /\ Began(m) /\ v.place[m].active => Sees(v, m) # None
  <2>1. PICK now : now = Current(v.place[m])
    OBVIOUS
  <2>2. /\ SeatOK(now) /\ RowOK(v.roll[m]) /\ SeatOK(v.fact[m])
        /\ now # None => now.class = v.place[m].class
        /\ v.place[m].active /\ v.place[m].class # None => now # None
    BY <2>1, CurrentSeat DEF ViewOK
  <2>3. PICK new : new = Projected(now, v.roll[m], v.fact[m])
    OBVIOUS
  <2>4. Sees(v, m) = new
    BY <2>1, <2>3 DEF Sees
  <2>5. /\ RowOK(new)
        /\ v.roll[m] # None => new # None /\ new.class = v.roll[m].class
        /\ now # None => new # None
        /\ now = None /\ v.roll[m] = None => new = None
        /\ v.roll[m] = None /\ now # None => new.class = now.class \/ (v.fact[m] # None /\ new.class = v.fact[m].class)
    BY <2>2, <2>3, ProjectedRow
  <2>6. ASSUME Began(m), new # None PROVE new.class = origin[m]
    <3>1. CASE v.roll[m] # None
      BY <2>5, <2>6, <3>1 DEF ViewOK
    <3>2. CASE v.roll[m] = None
      BY <2>2, <2>5, <2>6, <3>2 DEF ViewOK
    <3> QED BY <3>1, <3>2
  <2>7. ASSUME Began(m), v.place[m].active PROVE new # None
    <3>1. CASE v.roll[m] # None
      BY <2>5, <3>1
    <3>2. CASE v.roll[m] = None
      <4>1. v.place[m].class # None
        BY <2>7, <3>2 DEF ViewOK, Began
      <4> QED BY <2>2, <2>5, <2>7, <4>1
    <3> QED BY <3>1, <3>2
  <2> QED BY <2>4, <2>5, <2>6, <2>7
<1> QED BY <1>1, <1>2 DEF RowsOK

\* An own row, from a view or from what the call has made of it.
LEMMA OwnRowIs ==
    ASSUME NEW v, NEW m \in Attendees, v.place[m] \in Places
    PROVE  /\ OwnRow(v, m) = [x \in DOMAIN OwnRow(v, m) |-> OwnRow(v, m)[x]]
           /\ DOMAIN OwnRow(v, m) \subseteq {m}
           /\ m \in DOMAIN OwnRow(v, m) =>
                /\ RowOK(OwnRow(v, m)[m]) /\ OwnRow(v, m)[m] # None /\ OwnRow(v, m)[m].class = v.place[m].class
                /\ v.place[m].active /\ v.place[m].class # None
                /\ v.roll[m] # None => v.roll[m].class = v.place[m].class
           /\ v.roll[m] = None /\ v.place[m].active /\ v.place[m].class # None => m \in DOMAIN OwnRow(v, m)
<1>1. PICK now : now = Current(v.place[m])
  OBVIOUS
<1>2. /\ SeatOK(now) /\ (now # None => now.class = v.place[m].class /\ v.place[m].active)
      /\ (v.place[m].active /\ v.place[m].class # None => now # None)
  BY <1>1, CurrentSeat
<1>3. CASE now = None \/ (v.roll[m] # None /\ v.roll[m].class # now.class)
  <2>1. OwnRow(v, m) = <<>>
    BY <1>1, <1>3 DEF OwnRow
  <2>2. v.roll[m] = None /\ v.place[m].active /\ v.place[m].class # None => FALSE
    BY <1>2, <1>3
  <2>3. <<>> = [x \in DOMAIN <<>> |-> <<>>[x]]
    OBVIOUS
  <2> QED BY <2>1, <2>2, <2>3, NoRowsAtAll
<1>4. CASE ~(now = None \/ (v.roll[m] # None /\ v.roll[m].class # now.class))
  <2>1. OwnRow(v, m) = [x \in {m} |-> Row(now)]
    BY <1>1, <1>4 DEF OwnRow
  <2>2. RowOK(Row(now)) /\ Row(now) # None /\ Row(now).class = now.class
    BY <1>2, <1>4, RowOfSeat
  <2>3. now.class # None
    BY <1>2, <1>4, UnitAssumption DEF SeatOK, Seats
  <2> QED BY <1>2, <1>4, <2>1, <2>2, <2>3
<1> QED BY <1>3, <1>4

LEMMA OwnRowOK ==
    ASSUME NEW v, NEW but, ViewOK(v, but), Undecided, NEW m \in Attendees
    PROVE  /\ RowsOK(OwnRow(v, m), v)
           /\ Began(m) /\ v.place[m].active /\ v.roll[m] = None => m \in DOMAIN OwnRow(v, m)
<1>1. v.place[m] \in Places
  BY DEF ViewOK
<1>2. ASSUME m \in DOMAIN OwnRow(v, m), Began(m) PROVE OwnRow(v, m)[m].class = origin[m]
  <2>1. OwnRow(v, m)[m].class = v.place[m].class /\ (v.roll[m] # None => v.roll[m].class = v.place[m].class)
    BY <1>1, <1>2, OwnRowIs
  <2> QED BY <1>2, <2>1 DEF ViewOK
<1>3. Began(m) /\ v.place[m].active /\ v.roll[m] = None => m \in DOMAIN OwnRow(v, m)
  <2>1. Began(m) /\ v.roll[m] = None => v.place[m].class # None
    BY DEF ViewOK, Began
  <2> QED BY <1>1, <2>1, OwnRowIs
<1>4. \A x \in DOMAIN OwnRow(v, m) : x = m
  BY <1>1, OwnRowIs
<1> QED BY <1>1, <1>2, <1>3, <1>4, OwnRowIs DEF RowsOK

LEMMA NothingCaptured == ASSUME NEW v PROVE RowsOK(<<>>, v)
<1>1. <<>> = [m \in DOMAIN <<>> |-> <<>>[m]]
  OBVIOUS
<1> QED BY <1>1, NoRowsAtAll DEF RowsOK

LEMMA CapturedOK ==
    ASSUME NEW v, NEW but, ViewOK(v, but), NEW m \in Attendees, day \in {"EARLY", "DUE", "NEXT"}
    PROVE  /\ RowsOK(Captured(v, m), v)
           /\ ~Undecided => Captured(v, m) = <<>>
           /\ Undecided /\ day = "DUE" =>
                \A x \in Attendees : Began(x) /\ v.place[x].active => x \in DOMAIN Captured(v, m)
           /\ Undecided /\ day = "EARLY" => Captured(v, m) = OwnRow(v, m)
           /\ Undecided /\ Began(m) /\ v.place[m].active /\ v.roll[m] = None => m \in DOMAIN Captured(v, m)
<1>1. CASE ~Undecided
  <2>1. Captured(v, m) = <<>>
    BY <1>1 DEF Captured, Undecided
  <2> QED BY <1>1, <2>1, NothingCaptured
<1>2. CASE Undecided /\ day = "EARLY"
  <2>1. Captured(v, m) = OwnRow(v, m)
    BY <1>2 DEF Captured, Undecided
  <2> QED BY <1>2, <2>1, OwnRowOK
<1>3. CASE Undecided /\ day = "DUE"
  <2>1. Captured(v, m) = RefreshRows(v)
    BY <1>3 DEF Captured, Undecided
  <2> QED BY <1>3, <2>1, RefreshRowsOK
<1> QED BY <1>1, <1>2, <1>3 DEF Undecided

(***************************************************************************)
(* The steps.                                                              *)
(***************************************************************************)
LEMMA ViewStays ==
    ASSUME NEW v, NEW but, ViewOK(v, but), RowsKept
    PROVE  ViewOK(v, but)'
<1>1. /\ \A m \in Attendees : Began(m)' => Began(m)
      /\ \A m \in Attendees : m \notin gone' => m \notin gone
      /\ origin' = origin /\ (Undecided' => Undecided)
  BY DEF RowsKept, Began
<1>2. \A m \in Attendees : v.roll[m] # None => roll'[m] # None /\ roll'[m].class = v.roll[m].class
  BY DEF RowsKept, ViewOK
<1>3. /\ v = [roll |-> v.roll, place |-> v.place, fact |-> v.fact]
      /\ v.place \in [Attendees -> Places]
      /\ v.roll = [m \in Attendees |-> v.roll[m]] /\ v.fact = [m \in Attendees |-> v.fact[m]]
      /\ \A m \in Attendees : RowOK(v.roll[m]) /\ SeatOK(v.fact[m])
  BY DEF ViewOK
<1>4. \A m \in Attendees \ but : m \notin gone' => v.place[m].active
  BY <1>1 DEF ViewOK
<1>5. \A m \in Attendees : Began(m)' /\ v.roll[m] # None => v.roll[m].class = origin'[m]
  BY <1>1 DEF ViewOK
<1>6. \A m \in Attendees : Began(m)' /\ v.roll[m] = None /\ Undecided' =>
        v.place[m].class = origin'[m] /\ (v.fact[m] # None => v.fact[m].class = origin'[m])
  BY <1>1 DEF ViewOK
<1> QED BY <1>2, <1>3, <1>4, <1>5, <1>6 DEF ViewOK

LEMMA CallsStay ==
    ASSUME RosterInv, RowsKept, NEW c \in RosterCalls, rosterCall[c].pc = "viewed", rosterCall'[c] = rosterCall[c]
    PROVE  RosterCallOK(rosterCall[c])'
<1>1. PICK r : r = rosterCall[c]
  OBVIOUS
<1>2. RosterCallOK(r)
  BY <1>1 DEF RosterInv
<1>3. ViewOK(r.view, IF r.what = "edit" THEN {r.who} ELSE {})
  BY <1>2 DEF RosterCallOK
<1>4. ViewOK(r.view, IF r.what = "edit" THEN {r.who} ELSE {})'
  BY <1>3, ViewStays
<1>5. RosterCallOK(r)'
  BY <1>2, <1>4 DEF RosterCallOK
<1> QED BY <1>1, <1>5

\* The view that opens now.
LEMMA ViewOpens ==
    ASSUME Present, NEW v, v = View
    PROVE  ViewOK(v, {})
BY DEF Present, ViewOK, View

\* A step of the clock, the roster or the relations that only lets calls go.
LEMMA StepIs ==
    ASSUME RosterInv, RowsKept, Present',
           day' \in {"EARLY", "DUE", "NEXT"}, month' \in {"NONE", "OPEN", "FROZEN"},
           month' = "FROZEN" => \A m \in Attendees : Began(m)' => roll'[m] # None,
           rosterCall' = [c \in RosterCalls |-> rosterCall'[c]],
           \A c \in RosterCalls : rosterCall'[c] = rosterCall[c] \/ rosterCall'[c] = NoRosterCall
    PROVE  RosterInv'
<1>1. ASSUME NEW c \in RosterCalls, rosterCall'[c].pc = "viewed" PROVE RosterCallOK(rosterCall[c])' 
  <2>1. rosterCall'[c] = rosterCall[c]
    BY <1>1 DEF NoRosterCall
  <2> QED BY <1>1, <2>1, CallsStay
<1> QED BY <1>1 DEF RosterInv

\* Nothing but the calls changes.
LEMMA NothingElse ==
    ASSUME RosterInv, UNCHANGED <<day, month, roll, place, fact, origin, gone>>
    PROVE  RowsKept /\ Present' /\ (\A m \in Attendees : Began(m)' = Began(m))
<1>1. (Undecided' <=> Undecided) /\ (\A m \in Attendees : Began(m)' = Began(m))
  BY DEF Undecided, Began
<1> QED BY <1>1 DEF RosterInv, Present, RowsKept

LEMMA CallOpens ==
    ASSUME RosterInv, NEW c \in RosterCalls, NEW r, RosterCallOK(r),
           UNCHANGED <<day, month, roll, place, fact, origin, gone>>, rosterCall' = [rosterCall EXCEPT ![c] = r]
    PROVE  RosterInv' /\ RowsKept
<1>1. RowsKept /\ Present' /\ (\A m \in Attendees : Began(m)' = Began(m))
  BY NothingElse
<1>2. RosterCallOK(r)'
  <2>1. ViewOK(r.view, IF r.what = "edit" THEN {r.who} ELSE {})
    BY DEF RosterCallOK
  <2>2. ViewOK(r.view, IF r.what = "edit" THEN {r.who} ELSE {})'
    BY <1>1, <2>1, ViewStays
  <2> QED BY <2>2 DEF RosterCallOK
<1>3. ASSUME NEW b \in RosterCalls, rosterCall'[b].pc = "viewed" PROVE RosterCallOK(rosterCall[b])'
  <2>1. CASE b = c
    <3>1. rosterCall'[b] = r
      BY <2>1 DEF RosterInv
    <3> QED BY <1>2, <3>1
  <2>2. CASE b # c
    <3>1. rosterCall'[b] = rosterCall[b]
      BY <2>2 DEF RosterInv
    <3> QED BY <1>1, <1>3, <3>1, CallsStay
  <2> QED BY <2>1, <2>2
<1>4. rosterCall' = [b \in RosterCalls |-> rosterCall'[b]]
  BY DEF RosterInv
<1> QED BY <1>1, <1>3, <1>4 DEF RosterInv

LEMMA RosterStart == RosterInit => RosterInv
<1> SUFFICES ASSUME RosterInit PROVE RosterInv
  OBVIOUS
<1>1. place \in [Attendees -> Places]
  BY DEF RosterInit, Places
<1>2. \A m \in Attendees : roll[m] = None /\ fact[m] = None
  BY DEF RosterInit
<1>3. \A m \in Attendees : m \notin gone => place[m].active /\ origin[m] = place[m].class
  BY <1>1 DEF RosterInit
<1>4. roll = [m \in Attendees |-> roll[m]] /\ fact = [m \in Attendees |-> fact[m]]
  BY DEF RosterInit
<1>5. Present
  BY <1>1, <1>2, <1>3, <1>4 DEF Present, Began, RowOK, SeatOK
<1>6. \A c \in RosterCalls : rosterCall[c].pc # "viewed"
  BY DEF RosterInit, NoRosterCall
<1>7. rosterCall = [c \in RosterCalls |-> rosterCall[c]]
  BY DEF RosterInit
<1> QED BY <1>5, <1>6, <1>7 DEF RosterInv, RosterInit

LEMMA BeginEditStep ==
    ASSUME RosterInv, NEW c \in RosterCalls, NEW m \in Attendees, NEW k \in Classes \cup {None},
           NEW g \in Groups \cup {None}, NEW on \in BOOLEAN, BeginEdit(c, m, k, g, on)
    PROVE  RosterInv' /\ RowsKept
<1>1. PICK old : old = View
  OBVIOUS
<1>2. ViewOK(old, {})
  BY <1>1, ViewOpens DEF RosterInv
<1>3. PICK v : v = [old EXCEPT !.place[m].active = on]
  OBVIOUS
<1>4. /\ old.place[m] \in Places /\ old.place \in [Attendees -> Places]
      /\ old = [roll |-> old.roll, place |-> old.place, fact |-> old.fact]
  BY <1>2 DEF ViewOK
<1>5. /\ v = [roll |-> old.roll, place |-> [old.place EXCEPT ![m].active = on], fact |-> old.fact]
  BY <1>3, <1>4
<1>6. /\ v = [roll |-> v.roll, place |-> v.place, fact |-> v.fact]
      /\ v.roll = old.roll /\ v.fact = old.fact
      /\ v.place = [old.place EXCEPT ![m].active = on]
  BY <1>5
<1>7. /\ v.place \in [Attendees -> Places]
      /\ \A x \in Attendees : v.place[x].class = old.place[x].class
      /\ \A x \in Attendees : x # m => v.place[x] = old.place[x]
  BY <1>4, <1>6 DEF Places
<1>8. ViewOK(v, {m})
  BY <1>2, <1>6, <1>7 DEF ViewOK
<1>9. PICK r : r = [pc |-> "viewed", what |-> "edit", who |-> m, to |-> k, group |-> g, view |-> v]
  OBVIOUS
<1>10. RosterCallOK(r)
  BY <1>8, <1>9 DEF RosterCallOK
<1>11. rosterCall' = [rosterCall EXCEPT ![c] = r]
  BY <1>1, <1>3, <1>9 DEF BeginEdit
<1>12. UNCHANGED <<day, month, roll, place, fact, origin, gone>>
  BY DEF BeginEdit
<1> QED BY <1>10, <1>11, <1>12, CallOpens

LEMMA BeginTransferStep ==
    ASSUME RosterInv, NEW c \in RosterCalls, NEW m \in Attendees, NEW g \in Groups, BeginTransfer(c, m, g)
    PROVE  RosterInv' /\ RowsKept
<1>1. PICK v : v = View
  OBVIOUS
<1>2. ViewOK(v, {})
  BY <1>1, ViewOpens DEF RosterInv
<1>3. PICK r : r = [pc |-> "viewed", what |-> "transfer", who |-> m, to |-> ClassOf[g], group |-> g, view |-> v]
  OBVIOUS
<1>4. RosterCallOK(r)
  BY <1>2, <1>3, UnitAssumption DEF RosterCallOK
<1>5. rosterCall' = [rosterCall EXCEPT ![c] = r]
  BY <1>1, <1>3 DEF BeginTransfer
<1>6. UNCHANGED <<day, month, roll, place, fact, origin, gone>>
  BY DEF BeginTransfer
<1> QED BY <1>4, <1>5, <1>6, CallOpens

LEMMA FailCallStep ==
    ASSUME RosterInv, NEW c \in RosterCalls, UNCHANGED <<day, month, roll, place, fact, origin, gone>>,
           rosterCall' = [rosterCall EXCEPT ![c] = NoRosterCall]
    PROVE  RosterInv' /\ RowsKept
<1>1. RowsKept /\ Present' /\ (\A m \in Attendees : Began(m)' = Began(m))
  BY NothingElse
<1>2. /\ rosterCall' = [b \in RosterCalls |-> rosterCall'[b]]
      /\ \A b \in RosterCalls : rosterCall'[b] = rosterCall[b] \/ rosterCall'[b] = NoRosterCall
  BY DEF RosterInv
<1> QED BY <1>1, <1>2, StepIs DEF RosterInv

LEMMA ChangeStatusStep ==
    ASSUME RosterInv, NEW m \in Attendees, ChangeStatus(m)
    PROVE  RosterInv' /\ RowsKept
<1>1. /\ place' = [place EXCEPT ![m].active = ~place[m].active] /\ gone' = gone \cup {m}
      /\ UNCHANGED <<day, month, roll, fact, rosterCall, origin>>
  BY DEF ChangeStatus
<1>2. RowsKept
  BY <1>1 DEF RowsKept, Undecided
<1>3. PICK on \in BOOLEAN : on = ~place[m].active
  BY DEF RosterInv, Present, Places
<1>4. place' = [place EXCEPT ![m].active = on]
  BY <1>1, <1>3
<1>5. /\ place' \in [Attendees -> Places]
      /\ \A x \in Attendees : x # m => place'[x] = place[x]
  BY <1>4 DEF RosterInv, Present, Places
<1>6. \A x \in Attendees : Began(x)' => Began(x) /\ x # m
  BY <1>1 DEF Began
<1>7. Undecided' => Undecided
  BY <1>1 DEF Undecided
<1>8. Present'
  BY <1>1, <1>5, <1>6, <1>7 DEF RosterInv, Present
<1>9. /\ rosterCall' = [b \in RosterCalls |-> rosterCall'[b]]
      /\ \A b \in RosterCalls : rosterCall'[b] = rosterCall[b] \/ rosterCall'[b] = NoRosterCall
  BY <1>1 DEF RosterInv
<1> QED BY <1>1, <1>2, <1>6, <1>8, <1>9, StepIs DEF RosterInv

LEMMA AttendStep ==
    ASSUME RosterInv, NEW m \in Attendees, Attend(m)
    PROVE  RosterInv' /\ RowsKept
<1>1. PICK now : now = Current(place[m])
  OBVIOUS
<1>2. /\ fact' = [fact EXCEPT ![m] = now] /\ now # None /\ now.group # None
      /\ UNCHANGED <<day, month, roll, place, rosterCall, origin, gone>>
  BY <1>1 DEF Attend
<1>3. SeatOK(now) /\ now.class = place[m].class
  BY <1>1, <1>2, CurrentSeat DEF RosterInv, Present
<1>4. RowsKept
  BY <1>2 DEF RowsKept, Undecided
<1>5. \A x \in Attendees : fact'[x] = IF x = m THEN now ELSE fact[x]
  BY <1>2 DEF RosterInv, Present
<1>6. fact' = [x \in Attendees |-> fact'[x]]
  BY <1>2 DEF RosterInv, Present
<1>7. (\A x \in Attendees : Began(x)' = Began(x)) /\ (Undecided' <=> Undecided)
  BY <1>2 DEF Began, Undecided
<1>8. Present'
  BY <1>2, <1>3, <1>5, <1>6, <1>7 DEF RosterInv, Present
<1>9. /\ rosterCall' = [b \in RosterCalls |-> rosterCall'[b]]
      /\ \A b \in RosterCalls : rosterCall'[b] = rosterCall[b] \/ rosterCall'[b] = NoRosterCall
  BY <1>2 DEF RosterInv
<1> QED BY <1>2, <1>4, <1>7, <1>8, <1>9, StepIs DEF RosterInv

LEMMA PassTimeStep ==
    ASSUME RosterInv, PassTime
    PROVE  RosterInv' /\ RowsKept
<1>1. /\ UNCHANGED <<month, roll, place, fact, rosterCall, origin, gone>>
      /\ day # "NEXT" /\ day' \in {"EARLY", "DUE", "NEXT"}
  BY DEF PassTime
<1>2. \A x \in Attendees : Began(x)' = Began(x)
  BY <1>1 DEF Began
<1>3. Undecided' => Undecided
  BY <1>1 DEF Undecided
<1>4. RowsKept
  BY <1>1, <1>3 DEF RowsKept
<1>5. Present'
  BY <1>1, <1>2, <1>3 DEF RosterInv, Present
<1>6. /\ rosterCall' = [b \in RosterCalls |-> rosterCall'[b]]
      /\ \A b \in RosterCalls : rosterCall'[b] = rosterCall[b] \/ rosterCall'[b] = NoRosterCall
  BY <1>1 DEF RosterInv
<1> QED BY <1>1, <1>2, <1>4, <1>5, <1>6, StepIs DEF RosterInv

\* Rows captured from a view, stored in what the roster is by now.
LEMMA StoreOK ==
    ASSUME Present, NEW v, NEW but, ViewOK(v, but), NEW rows, RowsOK(rows, v), ~Clashes(v, rows), NEW new, new = Stored(rows)
    PROVE  /\ new = [m \in Attendees |-> new[m]]
           /\ \A m \in Attendees :
                /\ RowOK(new[m]) /\ (m \in DOMAIN rows => new[m] = rows[m] /\ new[m] # None)
                /\ m \notin DOMAIN rows => new[m] = roll[m]
                /\ roll[m] # None => new[m] # None /\ new[m].class = roll[m].class
                /\ Began(m) /\ new[m] # None => new[m].class = origin[m]
<1>1. new = [m \in Attendees |-> IF m \in DOMAIN rows THEN rows[m] ELSE roll[m]]
  BY DEF Stored
<1>2. ASSUME NEW m \in Attendees, m \in DOMAIN rows
      PROVE  /\ new[m] = rows[m] /\ new[m] # None /\ RowOK(new[m])
             /\ roll[m] # None => new[m].class = roll[m].class
             /\ Began(m) => new[m].class = origin[m]
  <2>1. new[m] = rows[m] /\ RowOK(rows[m]) /\ rows[m] # None /\ (Began(m) => rows[m].class = origin[m])
    BY <1>1, <1>2 DEF RowsOK
  <2>2. roll[m] # None => v.roll[m] # None
    BY <1>2 DEF Clashes
  <2>3. v.roll[m] # None => rows[m].class = v.roll[m].class /\ roll[m].class = v.roll[m].class
    BY <1>2 DEF RowsOK, ViewOK
  <2> QED BY <2>1, <2>2, <2>3
<1>3. ASSUME NEW m \in Attendees, m \notin DOMAIN rows
      PROVE  /\ new[m] = roll[m] /\ RowOK(new[m])
             /\ Began(m) /\ new[m] # None => new[m].class = origin[m]
  BY <1>1, <1>3 DEF Present
<1> QED BY <1>1, <1>2, <1>3

LEMMA RefreshStep ==
    ASSUME RosterInv, RefreshMonth
    PROVE  RosterInv' /\ RowsKept
<1>1. PICK v : v = View
  OBVIOUS
<1>2. ViewOK(v, {}) /\ v.place = place /\ v.roll = roll
  BY <1>1, ViewOpens DEF RosterInv, View
<1>3. PICK rows : rows = RefreshRows(v)
  OBVIOUS
<1>4. /\ Undecided /\ roll' = Stored(rows) /\ month' = MonthAfter
      /\ UNCHANGED <<day, place, fact, rosterCall, origin, gone>>
  BY <1>1, <1>3 DEF RefreshMonth, Undecided
<1>5. RowsOK(rows, v) /\ \A m \in Attendees : Began(m) /\ place[m].active => m \in DOMAIN rows
  BY <1>2, <1>3, <1>4, RefreshRowsOK
<1>6. ~Clashes(v, rows)
  BY <1>2 DEF Clashes
<1>7. PICK new : new = roll'
  OBVIOUS
<1>8. /\ new = [m \in Attendees |-> new[m]]
      /\ \A m \in Attendees :
           /\ RowOK(new[m]) /\ (m \in DOMAIN rows => new[m] # None)
           /\ roll[m] # None => new[m] # None /\ new[m].class = roll[m].class
           /\ Began(m) /\ new[m] # None => new[m].class = origin[m]
  BY <1>2, <1>4, <1>5, <1>6, <1>7, StoreOK DEF RosterInv
<1>9. \A m \in Attendees : Began(m)' = Began(m)
  BY <1>4 DEF Began
<1>10. month' \in {"NONE", "OPEN", "FROZEN"} /\ month # "FROZEN"
  BY <1>4 DEF MonthAfter, RosterInv, Undecided
<1>11. RowsKept
  BY <1>4, <1>7, <1>8, <1>10 DEF RowsKept, Undecided
<1>12. Present'
  BY <1>4, <1>7, <1>8, <1>9 DEF RosterInv, Present
<1>13. \A m \in Attendees : Began(m)' => roll'[m] # None
  BY <1>5, <1>7, <1>8, <1>9 DEF RosterInv, Present, Began
<1> QED BY <1>4, <1>10, <1>11, <1>12, <1>13, StepIs DEF RosterInv

\* What ends an edit or a transfer with its rows written: nothing is decided any more that was still to be decided.
LEMMA MonthGoesOn ==
    ASSUME RosterInv, month' = MonthAfter, day' = day
    PROVE  /\ month' \in {"NONE", "OPEN", "FROZEN"} /\ (month = "FROZEN" => month' = "FROZEN")
           /\ Undecided' => Undecided /\ day = "EARLY"
           /\ month' = "FROZEN" => month = "FROZEN" \/ (Undecided /\ day = "DUE")
BY DEF RosterInv, MonthAfter, Undecided

LEMMA FinishTransferStep ==
    ASSUME RosterInv, NEW c \in RosterCalls, FinishTransfer(c)
    PROVE  RosterInv' /\ RowsKept
<1>1. PICK r : r = rosterCall[c]
  OBVIOUS
<1>2. RosterCallOK(r) /\ r.what = "transfer" /\ rosterCall' = [rosterCall EXCEPT ![c] = NoRosterCall]
  BY <1>1 DEF RosterInv, FinishTransfer
<1>3. PICK m : m = r.who
  OBVIOUS
<1>4. PICK v : v = r.view
  OBVIOUS
<1>5. ViewOK(v, {}) /\ m \in Attendees /\ r.group \in Groups
  BY <1>2, <1>3, <1>4 DEF RosterCallOK
<1>6. PICK rows : rows = Captured(v, m)
  OBVIOUS
<1>7. CASE Clashes(v, rows)
  <2>1. UNCHANGED <<day, month, roll, place, fact, origin, gone>>
    BY <1>1, <1>3, <1>4, <1>6, <1>7 DEF FinishTransfer
  <2> QED BY <1>2, <2>1, FailCallStep
<1>8. CASE ~Clashes(v, rows)
  <2>1. /\ month' = MonthAfter /\ roll' = Stored(rows) /\ UNCHANGED <<day, fact, origin, gone>>
        /\ \E others \in SUBSET (place[m].groups \ v.place[m].groups) :
              place' = [place EXCEPT ![m].groups = {r.group} \cup others]
    BY <1>1, <1>3, <1>4, <1>6, <1>8 DEF FinishTransfer
  <2>2. /\ RowsOK(rows, v)
        /\ ~Undecided => rows = <<>>
        /\ Undecided /\ day = "DUE" => \A x \in Attendees : Began(x) /\ v.place[x].active => x \in DOMAIN rows
    BY <1>5, <1>6, CapturedOK DEF RosterInv
  <2>3. PICK new : new = roll'
    OBVIOUS
  <2>4. /\ new = [x \in Attendees |-> new[x]]
        /\ \A x \in Attendees :
             /\ RowOK(new[x]) /\ (x \in DOMAIN rows => new[x] # None)
             /\ x \notin DOMAIN rows => new[x] = roll[x]
             /\ roll[x] # None => new[x] # None /\ new[x].class = roll[x].class
             /\ Began(x) /\ new[x] # None => new[x].class = origin[x]
    BY <1>5, <1>8, <2>1, <2>2, <2>3, StoreOK DEF RosterInv
  <2>5. /\ month' \in {"NONE", "OPEN", "FROZEN"} /\ (month = "FROZEN" => month' = "FROZEN")
        /\ Undecided' => Undecided /\ day = "EARLY"
        /\ month' = "FROZEN" => month = "FROZEN" \/ (Undecided /\ day = "DUE")
    BY <2>1, MonthGoesOn
  <2>6. \A x \in Attendees : Began(x)' = Began(x)
    BY <2>1 DEF Began
  <2>7. PICK G : G \in SUBSET Groups /\ place' = [place EXCEPT ![m].groups = G]
    <3>1. PICK others \in SUBSET (place[m].groups \ v.place[m].groups) :
             place' = [place EXCEPT ![m].groups = {r.group} \cup others]
      BY <2>1
    <3>2. {r.group} \cup others \in SUBSET Groups
      BY <1>5 DEF RosterInv, Present, Places
    <3> QED BY <3>1, <3>2
  <2>8. /\ place' \in [Attendees -> Places]
        /\ \A x \in Attendees : place'[x].active = place[x].active /\ place'[x].class = place[x].class
    <3>1. place \in [Attendees -> Places]
      BY DEF RosterInv, Present
    <3>2. \A x \in Attendees : place'[x] = IF x = m THEN [place[x] EXCEPT !.groups = G] ELSE place[x]
      BY <2>7, <3>1
    <3>3. \A p \in Places : LET q == [p EXCEPT !.groups = G] IN q \in Places /\ q.active = p.active /\ q.class = p.class
      BY <2>7 DEF Places
    <3>4. \A x \in Attendees : /\ place'[x] \in Places
                              /\ place'[x].active = place[x].active /\ place'[x].class = place[x].class
      BY <3>1, <3>2, <3>3
    <3>5. place' = [x \in Attendees |-> place'[x]]
      BY <2>7, <3>1
    <3> QED BY <3>4, <3>5
  <2>9. month = "FROZEN" => roll' = roll
    <3>1. month = "FROZEN" => rows = <<>>
      BY <2>2 DEF Undecided
    <3>2. month = "FROZEN" => \A x \in Attendees : new[x] = roll[x]
      BY <3>1, <2>4, NoRowsAtAll
    <3> QED BY <2>3, <2>4, <3>2 DEF RosterInv, Present
  <2>10. RowsKept
    BY <2>1, <2>3, <2>4, <2>5, <2>9 DEF RowsKept
  <2>11. Present'
    BY <2>1, <2>3, <2>4, <2>5, <2>6, <2>8 DEF RosterInv, Present
  <2>12. month' = "FROZEN" => \A x \in Attendees : Began(x)' => roll'[x] # None
    <3>1. ASSUME Undecided, day = "DUE", NEW x \in Attendees, Began(x) PROVE new[x] # None
      BY <1>5, <2>2, <2>4, <3>1 DEF ViewOK, Began
    <3>2. ASSUME month = "FROZEN", NEW x \in Attendees, Began(x) PROVE new[x] # None
      BY <2>3, <2>9, <3>2 DEF RosterInv
    <3> QED BY <2>3, <2>5, <2>6, <3>1, <3>2
  <2>13. /\ rosterCall' = [b \in RosterCalls |-> rosterCall'[b]]
         /\ \A b \in RosterCalls : rosterCall'[b] = rosterCall[b] \/ rosterCall'[b] = NoRosterCall
    BY <1>2 DEF RosterInv
  <2>14. day' \in {"EARLY", "DUE", "NEXT"}
    BY <2>1 DEF RosterInv
  <2>15. RosterInv'
    BY <2>5, <2>10, <2>11, <2>12, <2>13, <2>14, StepIs
  <2> QED BY <2>10, <2>15
<1> QED BY <1>7, <1>8

\* The rows of an edit: those of its first call, and the own row in the class that it wrote.
EditedRoll(first, later) == [x \in Attendees |-> IF x \in DOMAIN later THEN later[x] ELSE Stored(first)[x]]

Own(v, m, k, first) == [v EXCEPT !.place[m].class = k, !.roll = [x \in Attendees |-> IF x \in DOMAIN first THEN first[x] ELSE @[x]]]

LEMMA OwnView ==
    ASSUME NEW v, NEW but, ViewOK(v, but), NEW m \in Attendees, NEW k \in Classes \cup {None}, NEW first,
           NEW own, own = Own(v, m, k, first)
    PROVE  /\ own.place[m] \in Places /\ own.place[m].class = k /\ own.place[m].active = v.place[m].active
           /\ own.roll[m] = IF m \in DOMAIN first THEN first[m] ELSE v.roll[m]
<1>1. /\ v = [roll |-> v.roll, place |-> v.place, fact |-> v.fact]
      /\ v.place \in [Attendees -> Places] /\ v.place[m] \in Places
  BY DEF ViewOK
<1>2. PICK seen : seen = [x \in Attendees |-> IF x \in DOMAIN first THEN first[x] ELSE v.roll[x]]
  OBVIOUS
<1>3. PICK there : there = [v.place EXCEPT ![m].class = k]
  OBVIOUS
<1>4. own = [roll |-> seen, place |-> there, fact |-> v.fact]
  BY <1>1, <1>2, <1>3 DEF Own
<1>5. own.roll = seen /\ own.place = there
  BY <1>4
<1>6. there[m] = [v.place[m] EXCEPT !.class = k]
  BY <1>1, <1>3
<1>7. there[m] \in Places /\ there[m].class = k /\ there[m].active = v.place[m].active
  BY <1>1, <1>6 DEF Places
<1> QED BY <1>2, <1>5, <1>7

LEMMA LaterOK ==
    ASSUME RosterInv, NEW v, NEW but, ViewOK(v, but), NEW m \in Attendees, NEW k \in Classes \cup {None},
           NEW first, first = Captured(v, m), ~Clashes(v, first), Undecided,
           NEW own, own = Own(v, m, k, first),
           NEW later, later = OwnRow(own, m), ~Clashes(own, later), m \in DOMAIN later,
           NEW new, new = Stored(first)
    PROVE  /\ RowOK(later[m]) /\ later[m] # None
           /\ new[m] # None => later[m].class = new[m].class
           /\ new[m] = None => ~(Began(m) /\ v.place[m].active)
<1>1. /\ own.place[m] \in Places /\ own.place[m].class = k /\ own.place[m].active = v.place[m].active
      /\ own.roll[m] = IF m \in DOMAIN first THEN first[m] ELSE v.roll[m]
  BY OwnView
<1>2. /\ RowOK(later[m]) /\ later[m] # None /\ later[m].class = k
      /\ own.roll[m] # None => own.roll[m].class = k
  BY <1>1, OwnRowIs
<1>3. /\ RowsOK(first, v)
      /\ Began(m) /\ v.place[m].active /\ v.roll[m] = None => m \in DOMAIN first
  BY CapturedOK DEF RosterInv
<1>4. m \in DOMAIN first => new[m] = first[m] /\ first[m] # None
  BY <1>3 DEF RowsOK, Stored
<1>5. m \notin DOMAIN first => new[m] = roll[m]
  BY DEF Stored
<1>6. own.roll[m] = None => roll[m] = None
  BY DEF Clashes
<1>7. v.roll[m] # None => roll[m] # None /\ roll[m].class = v.roll[m].class
  BY DEF ViewOK
<1> QED BY <1>1, <1>2, <1>3, <1>4, <1>5, <1>6, <1>7

LEMMA EditOK ==
    ASSUME RosterInv, NEW v, NEW but, ViewOK(v, but), NEW m \in Attendees, NEW k \in Classes \cup {None},
           NEW first, first = Captured(v, m), ~Clashes(v, first),
           NEW own, own = Own(v, m, k, first),
           NEW later, later = (IF month # "FROZEN" /\ day = "EARLY" THEN OwnRow(own, m) ELSE <<>>), ~Clashes(own, later),
           NEW new, new = EditedRoll(first, later)
    PROVE  /\ new = [x \in Attendees |-> new[x]]
           /\ \A x \in Attendees :
                /\ RowOK(new[x]) /\ (x \in DOMAIN first => new[x] # None)
                /\ roll[x] # None => new[x] # None /\ new[x].class = roll[x].class
                /\ Began(x) /\ (x = m => v.place[m].active) /\ new[x] # None => new[x].class = origin[x]
           /\ month = "FROZEN" => new = roll
<1>1. PICK old : old = Stored(first)
  OBVIOUS
<1>2. RowsOK(first, v) /\ (~Undecided => first = <<>>)
  BY CapturedOK DEF RosterInv
<1>3. \A x \in Attendees :
        /\ RowOK(old[x]) /\ (x \in DOMAIN first => old[x] # None)
        /\ x \notin DOMAIN first => old[x] = roll[x]
        /\ roll[x] # None => old[x] # None /\ old[x].class = roll[x].class
        /\ Began(x) /\ old[x] # None => old[x].class = origin[x]
  BY <1>1, <1>2, StoreOK DEF RosterInv
<1>4. new = [x \in Attendees |-> IF x \in DOMAIN later THEN later[x] ELSE old[x]]
  BY <1>1 DEF EditedRoll
<1>5. CASE month # "FROZEN" /\ day = "EARLY"
  <2>1. Undecided /\ later = OwnRow(own, m)
    BY <1>5 DEF Undecided
  <2>2. DOMAIN later \subseteq {m}
    BY <2>1, OwnView, OwnRowIs
  <2>3. \A x \in Attendees : x # m => new[x] = old[x]
    BY <1>4, <2>2
  <2>4. CASE m \in DOMAIN later
    <3>1. new[m] = later[m]
      BY <1>4, <2>4
    <3>2. /\ RowOK(later[m]) /\ later[m] # None
          /\ old[m] # None => later[m].class = old[m].class
          /\ old[m] = None => ~(Began(m) /\ v.place[m].active)
      BY <1>1, <2>1, <2>4, LaterOK
    <3> QED BY <1>3, <1>4, <1>5, <2>3, <3>1, <3>2
  <2>5. CASE m \notin DOMAIN later
    <3>1. \A x \in Attendees : new[x] = old[x]
      BY <1>4, <2>2, <2>5
    <3> QED BY <1>3, <1>4, <1>5, <3>1
  <2> QED BY <2>4, <2>5
<1>6. CASE ~(month # "FROZEN" /\ day = "EARLY")
  <2>1. \A x \in Attendees : new[x] = old[x]
    BY <1>4, <1>6, NoRowsAtAll
  <2>2. month = "FROZEN" => \A x \in Attendees : old[x] = roll[x]
    BY <1>2, <1>3, NoRowsAtAll DEF Undecided
  <2>3. month = "FROZEN" => new = roll
    BY <1>4, <2>1, <2>2 DEF RosterInv, Present
  <2> QED BY <1>3, <1>4, <2>1, <2>3
<1> QED BY <1>5, <1>6

LEMMA FinishEditStep ==
    ASSUME RosterInv, NEW c \in RosterCalls, FinishEdit(c)
    PROVE  RosterInv' /\ RowsKept
<1>1. PICK r : r = rosterCall[c]
  OBVIOUS
<1>2. RosterCallOK(r) /\ r.what = "edit" /\ rosterCall' = [rosterCall EXCEPT ![c] = NoRosterCall]
  BY <1>1 DEF RosterInv, FinishEdit
<1>3. PICK m : m = r.who
  OBVIOUS
<1>4. PICK v : v = r.view
  OBVIOUS
<1>5. PICK k : k = r.to
  OBVIOUS
<1>6. ViewOK(v, {m}) /\ m \in Attendees /\ k \in Classes \cup {None} /\ r.group \in Groups \cup {None}
  BY <1>2, <1>3, <1>4, <1>5 DEF RosterCallOK
<1>7. PICK first : first = Captured(v, m)
  OBVIOUS
<1>8. PICK own : own = Own(v, m, k, first)
  OBVIOUS
<1>9. PICK later : later = IF month # "FROZEN" /\ day = "EARLY" THEN OwnRow(own, m) ELSE <<>>
  OBVIOUS
<1>10. /\ Clashes(v, first) \/ Clashes(own, later) => UNCHANGED <<month, roll, place, gone>>
       /\ ~(Clashes(v, first) \/ Clashes(own, later)) =>
            /\ month' = MonthAfter /\ roll' = EditedRoll(first, later)
            /\ place' = [place EXCEPT ![m] = [active |-> v.place[m].active, class |-> k, groups |-> {r.group} \ {None}]]
            /\ gone' = IF v.place[m].active THEN gone ELSE gone \cup {m}
       /\ UNCHANGED <<day, fact, origin>>
  BY <1>1, <1>3, <1>4, <1>5, <1>7, <1>8, <1>9 DEF FinishEdit, Own, EditedRoll
<1>11. CASE Clashes(v, first) \/ Clashes(own, later)
  <2>1. UNCHANGED <<day, month, roll, place, fact, origin, gone>>
    BY <1>10, <1>11
  <2> QED BY <1>2, <2>1, FailCallStep
<1>12. CASE ~Clashes(v, first) /\ ~Clashes(own, later)
  <2>1. PICK new : new = roll'
    OBVIOUS
  <2>2. /\ new = [x \in Attendees |-> new[x]]
        /\ \A x \in Attendees :
             /\ RowOK(new[x]) /\ (x \in DOMAIN first => new[x] # None)
             /\ roll[x] # None => new[x] # None /\ new[x].class = roll[x].class
             /\ Began(x) /\ (x = m => v.place[m].active) /\ new[x] # None => new[x].class = origin[x]
        /\ month = "FROZEN" => new = roll
    BY <1>6, <1>7, <1>8, <1>9, <1>10, <1>12, <2>1, EditOK
  <2>3. /\ Undecided /\ day = "DUE" => \A x \in Attendees : Began(x) /\ v.place[x].active => x \in DOMAIN first
        /\ Undecided /\ Began(m) /\ v.place[m].active /\ v.roll[m] = None => m \in DOMAIN first
    BY <1>6, <1>7, CapturedOK DEF RosterInv
  <2>4. /\ month' \in {"NONE", "OPEN", "FROZEN"} /\ (month = "FROZEN" => month' = "FROZEN")
        /\ Undecided' => Undecided /\ day = "EARLY"
        /\ month' = "FROZEN" => month = "FROZEN" \/ (Undecided /\ day = "DUE")
    BY <1>10, <1>12, MonthGoesOn
  <2>5. gone \subseteq gone' /\ (m \notin gone' => v.place[m].active) /\ origin' = origin
    BY <1>10, <1>12
  <2>6. \A x \in Attendees : Began(x)' => Began(x) /\ (x = m => v.place[m].active)
    BY <2>5 DEF Began
  <2>7. PICK here : here = [active |-> v.place[m].active, class |-> k, groups |-> {r.group} \ {None}]
    OBVIOUS
  <2>8. here \in Places /\ here.active = v.place[m].active
    <3>1. v.place[m].active \in BOOLEAN
      BY <1>6 DEF ViewOK, Places
    <3>2. {r.group} \ {None} \in SUBSET Groups
      BY <1>6
    <3> QED BY <1>6, <2>7, <3>1, <3>2 DEF Places
  <2>9. /\ place' \in [Attendees -> Places] /\ place'[m] = here
        /\ \A x \in Attendees : x # m => place'[x] = place[x]
    BY <1>6, <1>10, <1>12, <2>7, <2>8 DEF RosterInv, Present
  <2>10. \A x \in Attendees : x \notin gone' => place'[x].active
    BY <2>5, <2>8, <2>9 DEF RosterInv, Present
  <2>11. RowsKept
    BY <2>1, <2>2, <2>4, <2>5 DEF RowsKept
  <2>12. \A x \in Attendees : Began(x)' /\ Undecided' => x # m \/ new[x] # None
    <3>1. ASSUME Began(m)', Undecided' PROVE new[m] # None
      <4>1. CASE v.roll[m] = None
        BY <1>6, <2>2, <2>3, <2>4, <2>6, <3>1, <4>1
      <4>2. CASE v.roll[m] # None
        BY <1>6, <2>2, <4>2 DEF ViewOK
      <4> QED BY <4>1, <4>2
    <3> QED BY <3>1
  <2>13. \A x \in Attendees : Began(x)' /\ new[x] = None /\ Undecided' =>
           place'[x].class = origin'[x] /\ (fact'[x] # None => fact'[x].class = origin'[x])
    <3>1. ASSUME NEW x \in Attendees, Began(x)', new[x] = None, Undecided'
          PROVE  place'[x].class = origin'[x] /\ (fact'[x] # None => fact'[x].class = origin'[x])
      <4>1. x # m /\ Began(x) /\ roll[x] = None /\ Undecided
        BY <2>2, <2>4, <2>6, <2>12, <3>1
      <4> QED BY <1>10, <2>9, <4>1 DEF RosterInv, Present
    <3> QED BY <3>1
  <2>14. Present'
    <3>1. \A x \in Attendees : RowOK(roll'[x]) /\ SeatOK(fact'[x])
      BY <1>10, <2>1, <2>2 DEF RosterInv, Present
    <3>2. \A x \in Attendees : Began(x)' /\ roll'[x] # None => roll'[x].class = origin'[x]
      BY <2>1, <2>2, <2>5, <2>6
    <3>3. roll' = [x \in Attendees |-> roll'[x]] /\ fact' = [x \in Attendees |-> fact'[x]]
      BY <1>10, <2>1, <2>2 DEF RosterInv, Present
    <3>4. \A x \in Attendees : fact'[x] # None => fact'[x].group # None
      BY <1>10 DEF RosterInv, Present
    <3> QED BY <2>1, <2>9, <2>10, <2>13, <3>1, <3>2, <3>3, <3>4 DEF Present
  <2>15. month' = "FROZEN" => \A x \in Attendees : Began(x)' => roll'[x] # None
    <3>1. ASSUME Undecided, day = "DUE", NEW x \in Attendees, Began(x), x = m => v.place[m].active PROVE new[x] # None
      <4>1. v.place[x].active
        BY <1>6, <3>1 DEF ViewOK, Began
      <4> QED BY <2>2, <2>3, <3>1, <4>1
    <3>2. ASSUME month = "FROZEN", NEW x \in Attendees, Began(x) PROVE new[x] # None
      BY <2>2, <3>2 DEF RosterInv
    <3> QED BY <2>1, <2>4, <2>6, <3>1, <3>2
  <2>16. /\ rosterCall' = [b \in RosterCalls |-> rosterCall'[b]]
         /\ \A b \in RosterCalls : rosterCall'[b] = rosterCall[b] \/ rosterCall'[b] = NoRosterCall
    BY <1>2 DEF RosterInv
  <2>17. day' \in {"EARLY", "DUE", "NEXT"}
    BY <1>10 DEF RosterInv
  <2>18. RosterInv'
    BY <2>4, <2>11, <2>14, <2>15, <2>16, <2>17, StepIs
  <2> QED BY <2>11, <2>18
<1> QED BY <1>11, <1>12

LEMMA RosterStep == RosterInv /\ [RosterNext]_rosterVars => RosterInv' /\ RowsKept
<1> SUFFICES ASSUME RosterInv, [RosterNext]_rosterVars PROVE RosterInv' /\ RowsKept
  OBVIOUS
<1>1. ASSUME NEW c \in RosterCalls, NEW m \in Attendees, NEW k \in Classes \cup {None},
             NEW g \in Groups \cup {None}, NEW on \in BOOLEAN, BeginEdit(c, m, k, g, on)
      PROVE  RosterInv' /\ RowsKept
  BY <1>1, BeginEditStep
<1>2. ASSUME NEW c \in RosterCalls, NEW m \in Attendees, NEW g \in Groups, BeginTransfer(c, m, g)
      PROVE  RosterInv' /\ RowsKept
  BY <1>2, BeginTransferStep
<1>3. ASSUME NEW c \in RosterCalls, FinishEdit(c) PROVE RosterInv' /\ RowsKept
  BY <1>3, FinishEditStep
<1>4. ASSUME NEW c \in RosterCalls, FinishTransfer(c) PROVE RosterInv' /\ RowsKept
  BY <1>4, FinishTransferStep
<1>5. ASSUME NEW c \in RosterCalls, FailRosterCall(c) PROVE RosterInv' /\ RowsKept
  <2>1. /\ UNCHANGED <<day, month, roll, place, fact, origin, gone>>
        /\ rosterCall' = [rosterCall EXCEPT ![c] = NoRosterCall]
    BY <1>5 DEF FailRosterCall
  <2> QED BY <2>1, FailCallStep
<1>6. ASSUME NEW m \in Attendees, ChangeStatus(m) PROVE RosterInv' /\ RowsKept
  BY <1>6, ChangeStatusStep
<1>7. ASSUME NEW m \in Attendees, Attend(m) PROVE RosterInv' /\ RowsKept
  BY <1>7, AttendStep
<1>8. CASE RefreshMonth
  BY <1>8, RefreshStep
<1>9. CASE PassTime
  BY <1>9, PassTimeStep
<1>10. CASE UNCHANGED rosterVars
  <2>1. /\ UNCHANGED <<day, month, roll, place, fact, origin, gone>>
        /\ UNCHANGED rosterCall
    BY <1>10 DEF rosterVars
  <2>2. RowsKept /\ Present' /\ (\A m \in Attendees : Began(m)' = Began(m))
    BY <2>1, NothingElse
  <2>3. /\ rosterCall' = [b \in RosterCalls |-> rosterCall'[b]]
        /\ \A b \in RosterCalls : rosterCall'[b] = rosterCall[b] \/ rosterCall'[b] = NoRosterCall
    BY <2>1 DEF RosterInv
  <2>4. month' = "FROZEN" => \A x \in Attendees : Began(x)' => roll'[x] # None
    BY <2>1, <2>2 DEF RosterInv
  <2>5. day' \in {"EARLY", "DUE", "NEXT"} /\ month' \in {"NONE", "OPEN", "FROZEN"}
    BY <2>1 DEF RosterInv
  <2>6. RosterInv'
    BY <2>2, <2>3, <2>4, <2>5, StepIs
  <2> QED BY <2>2, <2>6
<1> QED BY <1>1, <1>2, <1>3, <1>4, <1>5, <1>6, <1>7, <1>8, <1>9, <1>10 DEF RosterNext

LEMMA RosterIsSafe == RosterInv => RosterSafe
<1> SUFFICES ASSUME RosterInv PROVE RosterSafe
  OBVIOUS
<1>1. RosterTypeOK
  BY DEF RosterInv, Present, RosterTypeOK, RowOK, SeatOK
<1>2. RowsAreWhole
  BY DEF RosterInv, Present, RowsAreWhole, RowOK, OfItsClass
<1>3. ASSUME NEW m \in Attendees, Began(m), day # "NEXT" \/ month = "FROZEN" \/ roll[m] # None
      PROVE  /\ Current(place[m]) # None => Report(m) # None /\ (month = "FROZEN" \/ Report(m).included)
             /\ Report(m) # None => Report(m).class = origin[m]
  <2>1. CASE month = "FROZEN"
    BY <1>3, <2>1 DEF Report, RosterInv, Present
  <2>2. CASE month # "FROZEN"
    <3>1. PICK now : now = Current(place[m])
      OBVIOUS
    <3>2. SeatOK(now) /\ RowOK(roll[m]) /\ SeatOK(fact[m]) /\ (now # None => now.class = place[m].class)
      BY <3>1, CurrentSeat DEF RosterInv, Present
    <3>3. PICK new : new = Projected(now, roll[m], fact[m])
      OBVIOUS
    <3>4. /\ roll[m] # None => new # None /\ new.class = roll[m].class
          /\ now # None => new # None /\ new.included
          /\ now = None /\ roll[m] = None => new = None
          /\ roll[m] = None /\ now # None => new.class = now.class \/ (fact[m] # None /\ new.class = fact[m].class)
      BY <3>2, <3>3, ProjectedRow
    <3>5. Report(m) = new
      BY <2>2, <3>1, <3>3 DEF Report
    <3>6. new # None => new.class = origin[m]
      <4>1. CASE roll[m] # None
        BY <1>3, <3>4, <4>1 DEF RosterInv, Present
      <4>2. CASE roll[m] = None
        <5>1. Undecided
          BY <1>3, <2>2, <4>2 DEF Undecided
        <5> QED BY <1>3, <3>2, <3>4, <4>2, <5>1 DEF RosterInv, Present
      <4> QED BY <4>1, <4>2
    <3> QED BY <3>1, <3>4, <3>5, <3>6
  <2> QED BY <2>1, <2>2
<1>4. ReportKeepsClass
  BY <1>3 DEF ReportKeepsClass, Began
<1> QED BY <1>1, <1>2, <1>4 DEF RosterSafe

\* A report of the month attributes a learner to the class in which the month began.
THEOREM RosterReportsAreSafe == RosterSpec => []RosterSafe
<1>1. RosterInit => RosterInv
  BY RosterStart
<1>2. RosterInv /\ [RosterNext]_rosterVars => RosterInv'
  BY RosterStep
<1>3. RosterInv => RosterSafe
  BY RosterIsSafe
<1> QED BY <1>1, <1>2, <1>3, PTL DEF RosterSpec

\* A frozen month stays as it is, and no row goes or changes its class before.
THEOREM RosterIsKept == RosterSpec => RosterKept
<1>1. RosterInit => RosterInv
  BY RosterStart
<1>2. RosterInv /\ [RosterNext]_rosterVars => RosterInv'
  BY RosterStep
<1>3. RosterInv /\ [RosterNext]_rosterVars =>
        [/\ month = "FROZEN" => month' = "FROZEN" /\ roll' = roll
         /\ \A m \in Attendees : roll[m] # None => roll'[m] # None /\ roll'[m].class = roll[m].class]_rosterVars
  BY RosterStep DEF RowsKept
<1> QED BY <1>1, <1>2, <1>3, PTL DEF RosterSpec, RosterKept

(***************************************************************************)
(* HistoricalCredits: a cell is entered once, as it was reviewed.          *)
(***************************************************************************)
RowStates == [match : Matches, who : Persons \cup {None}, snapshot : Snapshots \cup {None}, credit : TotalStates]
CellStates == [staged : {"PENDING_REVIEW", "POSTED"}, of : {"MONTH", "SEPTEMBER", "YEAR"},
               period : {"READY", "DUAL_TRACK_PENDING", "PERIOD_REVIEW_REQUIRED", "YEAR_ACCEPTED", "MONTH_CONFIRMED"}]
ReviewOK ==
    /\ serving \subseteq Persons
    /\ mapped.class \in Classes \cup {None}
    /\ sourceRow \in [SourceRows -> RowStates]
    /\ \A r \in SourceRows \ TotalMissing : sourceRow[r].credit = "NOT_REQUIRED"
    /\ sourceCell \in [Cells -> CellStates]

\* What a batch has ready is of a learner, and never of September.
BatchOK(b) == \A c \in ReadyIn(b) : c \in Cells /\ sourceCell[c].of # "SEPTEMBER" /\ b.facts[c].who \in Persons
Approvals == {"APPROVED", "POSTING", "PARTIAL_FAILED", "POSTED"}
FrozenOK(b, f) ==
    /\ f = [status |-> f.status, maker |-> f.maker, approver |-> f.approver, entered |-> f.entered]
    /\ f.entered \subseteq ReadyIn(b)
    /\ f.status \in {"DRY_RUN", "PENDING_APPROVAL"} \cup Approvals
    /\ f.status \in Approvals => f.approver \in Staff \ {f.maker}
FrozenInv ==
    /\ frozen = [b \in DOMAIN frozen |-> frozen[b]]
    /\ \A b \in DOMAIN frozen : BatchOK(b) /\ FrozenOK(b, frozen[b])

\* A batch that was approved is at work until its call ends.
AtWork(b) == b \in DOMAIN frozen /\ frozen[b].status \in Approvals
PostingOK(x) ==
    /\ x = [pc |-> x.pc, batch |-> x.batch, cell |-> x.cell, todo |-> x.todo]
    /\ x.pc \in {"idle", "loop", "checked"}
    /\ x.cell = None \/ x.cell \in Cells
    /\ x.pc # "idle" => AtWork(x.batch) /\ x.todo \subseteq ReadyIn(x.batch)
    /\ x.pc = "checked" => x.cell \in ReadyIn(x.batch)
PostingInv == posting = [p \in Posters |-> posting[p]] /\ \A p \in Posters : PostingOK(posting[p])

EntryOK(e) ==
    /\ e.cell \in Cells /\ e.who \in Persons /\ e.class \in Classes
    /\ e.row.who = e.who /\ e.row.match \in {"AUTO_MATCHED", "CONFIRMED"}
    /\ e.row.credit \in {"NOT_REQUIRED", "APPROVED"}
    /\ MapConfirmed(e.map) /\ e.map.class = e.class
    /\ AtWork(e.batch) /\ sourceCell[e.cell].of # "SEPTEMBER"
CreditedInv == \A e \in credited : EntryOK(e)

\* What the ledger and the batches have of a cell, each of them once if it is POSTED.
EntriesOf(c) == {e \in credited : e.cell = c}
BatchesOf(c) == {b \in DOMAIN frozen : c \in frozen[b].entered}
One(S) == \E x : S = {x}
OnceInv ==
    \A c \in Cells :
        IF sourceCell[c].staged = "POSTED" THEN One(EntriesOf(c)) /\ One(BatchesOf(c))
        ELSE EntriesOf(c) = {} /\ BatchesOf(c) = {}

HistInv == ReviewOK /\ FrozenInv /\ PostingInv /\ CreditedInv /\ OnceInv

LEMMA HistoryStart == HistoryInit => HistInv
<1> SUFFICES ASSUME HistoryInit PROVE HistInv
  OBVIOUS
<1>1. sourceRow \in [SourceRows -> RowStates]
  BY DEF HistoryInit, RowStates, Matches, TotalStates, Verdicts
<1>2. sourceCell \in [Cells -> CellStates] /\ \A c \in Cells : sourceCell[c].staged = "PENDING_REVIEW"
  <2>1. PICK of \in [Cells -> {"MONTH", "SEPTEMBER", "YEAR"}] :
           sourceCell = [c \in Cells |-> [staged |-> "PENDING_REVIEW", of |-> of[c], period |-> ReviewOf(of[c])]]
    BY DEF HistoryInit
  <2>2. \A c \in Cells : ReviewOf(of[c]) \in {"READY", "DUAL_TRACK_PENDING", "PERIOD_REVIEW_REQUIRED"}
    BY DEF ReviewOf
  <2> QED BY <2>1, <2>2 DEF CellStates
<1>3. DOMAIN frozen = {} /\ frozen = [b \in {} |-> None] /\ credited = {}
  BY DEF HistoryInit
<1>4. ReviewOK
  BY <1>1, <1>2 DEF ReviewOK, HistoryInit
<1>5. FrozenInv /\ CreditedInv
  BY <1>3 DEF FrozenInv, CreditedInv
<1>6. PostingInv
  BY DEF HistoryInit, PostingInv, PostingOK, NoPosting
<1>7. OnceInv
  BY <1>2, <1>3 DEF OnceInv, EntriesOf, BatchesOf
<1> QED BY <1>4, <1>5, <1>6, <1>7 DEF HistInv

\* Batches that are only moved on, and a ledger that stands.
Onward ==
    /\ \A b \in DOMAIN frozen : b \in DOMAIN frozen' /\ frozen'[b].entered = frozen[b].entered
    /\ \A b \in DOMAIN frozen : frozen[b].status \in Approvals => frozen'[b].status \in Approvals
    /\ \A b \in DOMAIN frozen' : b \in DOMAIN frozen \/ frozen'[b].entered = {}
    /\ credited' = credited
SameCells == \A c \in Cells : sourceCell'[c].of = sourceCell[c].of /\ sourceCell'[c].staged = sourceCell[c].staged

LEMMA NothingEntered ==
    ASSUME HistInv, Onward, SameCells
    PROVE  OnceInv' /\ CreditedInv' /\ (\A b : AtWork(b) => AtWork(b)') /\ \A b : BatchOK(b) => BatchOK(b)'
<1>1. \A b : AtWork(b) => AtWork(b)'
  BY DEF AtWork, Onward
<1>2. \A c \in Cells : EntriesOf(c)' = EntriesOf(c) /\ BatchesOf(c)' = BatchesOf(c)
  BY DEF EntriesOf, BatchesOf, Onward
<1>3. OnceInv'
  BY <1>2 DEF HistInv, OnceInv, SameCells
<1>4. CreditedInv'
  <2>1. ASSUME NEW e \in credited, EntryOK(e) PROVE EntryOK(e)'
    BY <1>1, <2>1 DEF EntryOK, SameCells
  <2> QED BY <2>1 DEF HistInv, CreditedInv, Onward
<1>5. ASSUME NEW b, BatchOK(b) PROVE BatchOK(b)'
  BY <1>5 DEF BatchOK, SameCells
<1> QED BY <1>1, <1>3, <1>4, <1>5

\* A step of the review, or of another page.
LEMMA ReviewStep ==
    ASSUME HistInv, ReviewOK', SameCells, UNCHANGED <<frozen, credited, posting>>
    PROVE  HistInv'
<1>1. Onward
  BY DEF Onward
<1>2. OnceInv' /\ CreditedInv' /\ (\A b : AtWork(b) => AtWork(b)') /\ \A b : BatchOK(b) => BatchOK(b)'
  BY <1>1, NothingEntered
<1>3. FrozenInv'
  BY <1>2 DEF HistInv, FrozenInv
<1>4. PostingInv'
  <2>1. ASSUME NEW p \in Posters PROVE PostingOK(posting[p])'
    BY <1>2 DEF HistInv, PostingInv, PostingOK
  <2> QED BY <2>1 DEF HistInv, PostingInv
<1> QED BY <1>2, <1>3, <1>4 DEF HistInv

LEMMA MatchedRow ==
    ASSUME NEW row \in RowStates, NEW k \in Classes \cup {None}, NEW r \in SourceRows, NEW snap \in Snapshots,
           NEW eligible, eligible \subseteq Persons
    PROVE  Matched(row, k, r, snap, eligible) \in RowStates /\ Matched(row, k, r, snap, eligible).credit = row.credit
<1>1. PICK hits : hits = IF k = None THEN {} ELSE NamedIn[k][r]
  OBVIOUS
<1>2. PICK one : one = Only(hits \cap eligible)
  OBVIOUS
<1>3. one \in Persons \cup {None}
  <2>1. one = None \/ one \in hits \cap eligible
    BY <1>2, OnlyIsOne
  <2> QED BY <2>1
<1>4. PICK who : who = IF Cardinality(hits) = 1 THEN one ELSE None
  OBVIOUS
<1>5. PICK match : match = IF Cardinality(hits) > 1 THEN "AMBIGUOUS" ELSE IF one # None THEN "AUTO_MATCHED" ELSE "NOT_FOUND"
  OBVIOUS
<1>6. who \in Persons \cup {None} /\ match \in Matches
  BY <1>3, <1>4, <1>5 DEF Matches
<1>7. Matched(row, k, r, snap, eligible) = [row EXCEPT !.snapshot = snap, !.who = who, !.match = match]
  BY <1>1, <1>2, <1>4, <1>5 DEF Matched
<1> QED BY <1>6, <1>7 DEF RowStates

\* Which step it is of the review, there is a row, a cell or the label that it changes to what it can be.
LEMMA ReviewSteps ==
    ASSUME HistInv,
           \/ \E found \in {"PENDING_REVIEW", "EXACT"}, k \in Classes \cup {None} : Propose(found, k)
           \/ \E k \in Classes, snap \in Snapshots : ConfirmClass(k, snap)
           \/ \E k \in Classes \cup {None}, snap \in Snapshots : MatchStaged(k, snap)
           \/ \E snap \in Snapshots : CountBulk(snap)
           \/ ConfirmBulk
           \/ \E r \in SourceRows, m \in Persons, snap \in Snapshots : ConfirmMatch(r, m, snap)
           \/ \E r \in SourceRows, verdict \in Verdicts : Judge(r, verdict)
           \/ \E C \in SUBSET Cells : AcceptYear(C)
           \/ \E c \in Cells : ConfirmMonth(c)
           \/ \E m \in Persons : ChangeService(m)
    PROVE  HistInv'
<1> USE DEF HistInv, ReviewOK
<1>1. ASSUME NEW found \in {"PENDING_REVIEW", "EXACT"}, NEW k \in Classes \cup {None}, Propose(found, k)
      PROVE  ReviewOK' /\ SameCells /\ UNCHANGED <<frozen, credited, posting>>
  BY <1>1 DEF Propose, SameCells
<1>2. ASSUME NEW k \in Classes, NEW snap \in Snapshots, ConfirmClass(k, snap)
      PROVE  ReviewOK' /\ SameCells /\ UNCHANGED <<frozen, credited, posting>>
  <2>1. sourceRow' = [r \in SourceRows |-> Matched(sourceRow[r], k, r, snap, serving)]
    BY <1>2 DEF ConfirmClass
  <2>2. \A r \in SourceRows : sourceRow'[r] \in RowStates /\ sourceRow'[r].credit = sourceRow[r].credit
    BY <2>1, MatchedRow
  <2>3. sourceRow' \in [SourceRows -> RowStates]
    BY <2>1, <2>2
  <2> QED BY <1>2, <2>2, <2>3 DEF ConfirmClass, SameCells
<1>3. ASSUME NEW k \in Classes \cup {None}, NEW snap \in Snapshots, MatchStaged(k, snap)
      PROVE  ReviewOK' /\ SameCells /\ UNCHANGED <<frozen, credited, posting>>
  <2>1. sourceRow' = [r \in SourceRows |-> Matched(sourceRow[r], k, r, snap, Persons)]
    BY <1>3 DEF MatchStaged
  <2>2. \A r \in SourceRows : sourceRow'[r] \in RowStates /\ sourceRow'[r].credit = sourceRow[r].credit
    BY <2>1, MatchedRow
  <2>3. sourceRow' \in [SourceRows -> RowStates]
    BY <2>1, <2>2
  <2> QED BY <1>3, <2>2, <2>3 DEF MatchStaged, SameCells
<1>4. ASSUME NEW snap \in Snapshots, CountBulk(snap)
      PROVE  ReviewOK' /\ SameCells /\ UNCHANGED <<frozen, credited, posting>>
  BY <1>4 DEF CountBulk, SameCells
<1>5. ASSUME ConfirmBulk
      PROVE  ReviewOK' /\ SameCells /\ UNCHANGED <<frozen, credited, posting>>
  <2>1. /\ sourceRow' \in [SourceRows -> RowStates]
        /\ \A r \in SourceRows : sourceRow'[r].credit = sourceRow[r].credit
    <3>1. CASE UNCHANGED sourceRow
      BY <3>1
    <3>2. CASE sourceRow' = [r \in SourceRows |-> IF r \in AutoMatched THEN [sourceRow[r] EXCEPT !.match = "CONFIRMED"] ELSE sourceRow[r]]
      BY <3>2 DEF RowStates, Matches
    <3> QED BY <1>5, <3>1, <3>2 DEF ConfirmBulk
  <2> QED BY <1>5, <2>1 DEF ConfirmBulk, SameCells
<1>6. ASSUME NEW r \in SourceRows, NEW m \in Persons, NEW snap \in Snapshots, ConfirmMatch(r, m, snap)
      PROVE  ReviewOK' /\ SameCells /\ UNCHANGED <<frozen, credited, posting>>
  <2>1. sourceRow' = [sourceRow EXCEPT ![r].match = "CONFIRMED", ![r].who = m, ![r].snapshot = snap]
    BY <1>6 DEF ConfirmMatch
  <2>2. /\ sourceRow' \in [SourceRows -> RowStates]
        /\ \A x \in SourceRows : sourceRow'[x].credit = sourceRow[x].credit
    BY <2>1 DEF RowStates, Matches
  <2> QED BY <1>6, <2>2 DEF ConfirmMatch, SameCells
<1>7. ASSUME NEW r \in SourceRows, NEW verdict \in Verdicts, Judge(r, verdict)
      PROVE  ReviewOK' /\ SameCells /\ UNCHANGED <<frozen, credited, posting>>
  <2>1. /\ sourceRow' \in [SourceRows -> RowStates]
        /\ r \in TotalMissing /\ \A x \in SourceRows : x # r => sourceRow'[x].credit = sourceRow[x].credit
    BY <1>7 DEF Judge, RowStates, TotalStates
  <2> QED BY <1>7, <2>1 DEF Judge, SameCells
<1>8. ASSUME NEW C \in SUBSET Cells, AcceptYear(C)
      PROVE  ReviewOK' /\ SameCells /\ UNCHANGED <<frozen, credited, posting>>
  <2>1. sourceCell' \in [Cells -> CellStates] /\ SameCells
    BY <1>8 DEF AcceptYear, CellStates, SameCells
  <2> QED BY <1>8, <2>1 DEF AcceptYear
<1>9. ASSUME NEW c \in Cells, ConfirmMonth(c)
      PROVE  ReviewOK' /\ SameCells /\ UNCHANGED <<frozen, credited, posting>>
  <2>1. sourceCell' \in [Cells -> CellStates] /\ SameCells
    BY <1>9 DEF ConfirmMonth, CellStates, SameCells
  <2> QED BY <1>9, <2>1 DEF ConfirmMonth
<1>10. ASSUME NEW m \in Persons, ChangeService(m)
       PROVE  ReviewOK' /\ SameCells /\ UNCHANGED <<frozen, credited, posting>>
  BY <1>10 DEF ChangeService, SameCells, reviewVars
<1>11. ReviewOK' /\ SameCells /\ UNCHANGED <<frozen, credited, posting>>
  BY <1>1, <1>2, <1>3, <1>4, <1>5, <1>6, <1>7, <1>8, <1>9, <1>10
<1> QED BY <1>11, ReviewStep

\* What is ready when a group is proposed is identified, in service and of no September.
LEMMA ProposedOK == ASSUME ReviewOK, NEW period, NEW own PROVE BatchOK(Proposed(period, own))
<1>1. PICK b : b = Proposed(period, own)
  OBVIOUS
<1>2. PICK S : S = {x \in Cells : sourceCell[x].of = period /\ (x \notin InLedger \/ x \in own)}
  OBVIOUS
<1>3. PICK facts : facts = [c \in S |-> [who |-> sourceRow[RowOf[c]].who, blocked |-> Blocked(c)]]
  OBVIOUS
<1>4. b = [map |-> mapped, period |-> period, facts |-> facts]
  BY <1>1, <1>2, <1>3 DEF Proposed
<1>5. b.facts = facts /\ DOMAIN facts = S
  BY <1>3, <1>4
<1>6. ASSUME NEW c \in Cells, Blocked(c) = None
      PROVE  sourceCell[c].of # "SEPTEMBER" /\ sourceRow[RowOf[c]].who \in Persons
  <2>1. PICK row : row = sourceRow[RowOf[c]]
    OBVIOUS
  <2>2. row \in RowStates
    BY <2>1, HistoryAssumption DEF ReviewOK
  <2>3. row.match \in Reasons /\ row.credit \in Reasons /\ row.who \in Persons \cup {None}
    BY <2>2 DEF RowStates, Reasons
  <2>4. None # row.match /\ None # row.credit /\ None # "MEMBER_NOT_ACTIVE" /\ None # "DUAL_TRACK_PENDING"
    BY <2>3, HistoryAssumption DEF Reasons
  <2>5. Identified(RowOf[c]) /\ ~DualTrack(c)
    BY <1>6, <2>1, <2>4 DEF Blocked
  <2> QED BY <2>1, <2>3, <2>5 DEF Identified, DualTrack
<1>7. \A c \in ReadyIn(b) : c \in Cells /\ Blocked(c) = None /\ b.facts[c].who = sourceRow[RowOf[c]].who
  BY <1>2, <1>3, <1>5 DEF ReadyIn
<1> QED BY <1>1, <1>6, <1>7 DEF BatchOK

(***************************************************************************)
(* Batches and their posting.                                              *)
(***************************************************************************)
\* A step that moves batches on, without an entry.
LEMMA BatchStep ==
    ASSUME HistInv, Onward, UNCHANGED <<serving, mapped, sourceRow, sourceCell>>,
           frozen' = [b \in DOMAIN frozen' |-> frozen'[b]],
           \A b \in DOMAIN frozen' : BatchOK(b) /\ FrozenOK(b, frozen'[b]),
           posting' = [p \in Posters |-> posting'[p]],
           \A p \in Posters : posting'[p] = posting[p] \/ PostingOK(posting[p])'
    PROVE  HistInv'
<1>1. SameCells
  BY DEF SameCells
<1>2. OnceInv' /\ CreditedInv' /\ (\A b : AtWork(b) => AtWork(b)') /\ \A b : BatchOK(b) => BatchOK(b)'
  BY <1>1, NothingEntered
<1>3. FrozenInv'
  BY <1>2 DEF FrozenInv
<1>4. ASSUME NEW p \in Posters PROVE PostingOK(posting[p])'
  <2>1. CASE posting'[p] = posting[p]
    <3>1. PostingOK(posting[p])
      BY DEF HistInv, PostingInv
    <3> QED BY <1>2, <2>1, <3>1 DEF PostingOK
  <2> QED BY <2>1
<1>5. PostingInv'
  BY <1>4 DEF PostingInv
<1> QED BY <1>2, <1>3, <1>5 DEF HistInv, ReviewOK

LEMMA FreezeStep ==
    ASSUME HistInv, NEW u \in Staff, Freeze(u)
    PROVE  HistInv'
<1>1. PICK groups : groups = {Proposed(period, {}) : period \in {sourceCell[c].of : c \in Cells \ InLedger}}
  OBVIOUS
<1>2. PICK fresh : fresh = [status |-> "DRY_RUN", maker |-> u, approver |-> None, entered |-> {}]
  OBVIOUS
<1>3. /\ frozen' = [b \in DOMAIN frozen \cup groups |-> IF b \in DOMAIN frozen THEN frozen[b] ELSE fresh]
      /\ UNCHANGED <<serving, mapped, sourceRow, sourceCell, credited, posting>>
  BY <1>1, <1>2 DEF Freeze, reviewVars
<1>4. /\ DOMAIN frozen' = DOMAIN frozen \cup groups /\ frozen' = [b \in DOMAIN frozen' |-> frozen'[b]]
      /\ \A b \in DOMAIN frozen : frozen'[b] = frozen[b]
      /\ \A b \in DOMAIN frozen' : b \in DOMAIN frozen \/ (b \in groups /\ frozen'[b] = fresh)
  BY <1>3
<1>5. Onward
  BY <1>2, <1>3, <1>4 DEF Onward
<1>6. \A b \in groups : BatchOK(b)
  BY <1>1, ProposedOK DEF HistInv
<1>7. \A b : FrozenOK(b, fresh)
  BY <1>2 DEF FrozenOK, Approvals
<1>8. \A b \in DOMAIN frozen' : BatchOK(b) /\ FrozenOK(b, frozen'[b])
  BY <1>4, <1>6, <1>7 DEF HistInv, FrozenInv
<1>9. posting' = [p \in Posters |-> posting'[p]]
  BY <1>3 DEF HistInv, PostingInv
<1> QED BY <1>3, <1>4, <1>5, <1>8, <1>9, BatchStep

\* One batch gets another record with what it has entered.
LEMMA BatchMoves ==
    ASSUME HistInv, NEW b \in DOMAIN frozen, NEW f, FrozenOK(b, f), f.entered = frozen[b].entered,
           frozen[b].status \in Approvals => f.status \in Approvals, SetFrozen(b, f),
           UNCHANGED <<serving, mapped, sourceRow, sourceCell, credited>>
    PROVE  /\ Onward /\ frozen' = [x \in DOMAIN frozen' |-> frozen'[x]] /\ DOMAIN frozen' = DOMAIN frozen
           /\ frozen'[b] = f
           /\ \A x \in DOMAIN frozen' : BatchOK(x) /\ FrozenOK(x, frozen'[x])
<1>1. /\ DOMAIN frozen' = DOMAIN frozen /\ frozen' = [x \in DOMAIN frozen' |-> frozen'[x]]
      /\ frozen'[b] = f /\ \A x \in DOMAIN frozen : x # b => frozen'[x] = frozen[x]
  BY DEF SetFrozen, HistInv, FrozenInv
<1>2. Onward
  BY <1>1 DEF Onward
<1>3. \A x \in DOMAIN frozen' : BatchOK(x) /\ FrozenOK(x, frozen'[x])
  BY <1>1 DEF HistInv, FrozenInv
<1> QED BY <1>1, <1>2, <1>3

LEMMA BatchSteps ==
    ASSUME HistInv, NEW b \in DOMAIN frozen, NEW u \in Staff,
           SubmitFrozen(b) \/ ApproveFrozen(b, u) \/ ReconcileFrozen(b)
    PROVE  HistInv'
<1>1. PICK old : old = frozen[b]
  OBVIOUS
<1>2. FrozenOK(b, old)
  BY <1>1 DEF HistInv, FrozenInv
<1>3. \E f : /\ FrozenOK(b, f) /\ f.entered = old.entered /\ SetFrozen(b, f)
             /\ old.status \in Approvals => f.status \in Approvals
  <2>1. CASE SubmitFrozen(b)
    <3>1. PICK f : f = [old EXCEPT !.status = "PENDING_APPROVAL"]
      OBVIOUS
    <3>2. SetFrozen(b, f) /\ old.status = "DRY_RUN"
      BY <1>1, <2>1, <3>1 DEF SubmitFrozen
    <3>3. FrozenOK(b, f) /\ f.entered = old.entered
      BY <1>2, <3>1 DEF FrozenOK, Approvals
    <3> QED BY <3>2, <3>3 DEF Approvals
  <2>2. CASE ApproveFrozen(b, u)
    <3>1. PICK f : f = [old EXCEPT !.status = "APPROVED", !.approver = u]
      OBVIOUS
    <3>2. SetFrozen(b, f) /\ old.maker # u
      BY <1>1, <2>2, <3>1 DEF ApproveFrozen
    <3>3. FrozenOK(b, f) /\ f.entered = old.entered /\ f.status = "APPROVED"
      BY <1>2, <3>1, <3>2 DEF FrozenOK, Approvals
    <3> QED BY <3>2, <3>3 DEF Approvals
  <2>3. CASE ReconcileFrozen(b)
    <3>1. PICK to : to = Outcome(b)
      OBVIOUS
    <3>2. PICK f : f = [old EXCEPT !.status = to]
      OBVIOUS
    <3>3. SetFrozen(b, f) /\ old.status = "POSTING" /\ to \in Approvals
      BY <1>1, <2>3, <3>1, <3>2 DEF ReconcileFrozen, Outcome, Approvals
    <3>4. FrozenOK(b, f) /\ f.entered = old.entered /\ f.status = to
      BY <1>2, <3>2, <3>3 DEF FrozenOK, Approvals
    <3> QED BY <3>3, <3>4
  <2> QED BY <2>1, <2>2, <2>3
<1>4. UNCHANGED <<serving, mapped, sourceRow, sourceCell, credited, posting>>
  BY DEF SubmitFrozen, ApproveFrozen, ReconcileFrozen, reviewVars
<1>5. PICK f : /\ FrozenOK(b, f) /\ f.entered = old.entered /\ SetFrozen(b, f)
               /\ old.status \in Approvals => f.status \in Approvals
  BY <1>3
<1>6. /\ Onward /\ frozen' = [x \in DOMAIN frozen' |-> frozen'[x]]
      /\ \A x \in DOMAIN frozen' : BatchOK(x) /\ FrozenOK(x, frozen'[x])
  BY <1>1, <1>4, <1>5, BatchMoves
<1>7. posting' = [p \in Posters |-> posting'[p]]
  BY <1>4 DEF HistInv, PostingInv
<1> QED BY <1>4, <1>6, <1>7, BatchStep

LEMMA BeginPostStep ==
    ASSUME HistInv, NEW p \in Posters, NEW b \in DOMAIN frozen, BeginHistoryPost(p, b)
    PROVE  HistInv'
<1>1. PICK old : old = frozen[b]
  OBVIOUS
<1>2. PICK f : f = [old EXCEPT !.status = "POSTING"]
  OBVIOUS
<1>3. PICK x : x = [pc |-> "loop", batch |-> b, cell |-> None, todo |-> ReadyIn(b) \ old.entered]
  OBVIOUS
<1>4. /\ SetFrozen(b, f) /\ old.status \in Approvals /\ posting' = [posting EXCEPT ![p] = x]
      /\ UNCHANGED <<serving, mapped, sourceRow, sourceCell, credited>>
  BY <1>1, <1>2, <1>3 DEF BeginHistoryPost, reviewVars, Approvals
<1>5. FrozenOK(b, f) /\ f.entered = old.entered /\ f.status = "POSTING"
  BY <1>1, <1>2, <1>4 DEF HistInv, FrozenInv, FrozenOK, Approvals
<1>6. /\ Onward /\ frozen' = [y \in DOMAIN frozen' |-> frozen'[y]] /\ DOMAIN frozen' = DOMAIN frozen /\ frozen'[b] = f
      /\ \A y \in DOMAIN frozen' : BatchOK(y) /\ FrozenOK(y, frozen'[y])
  BY <1>1, <1>4, <1>5, BatchMoves DEF Approvals
<1>7. /\ posting' = [q \in Posters |-> posting'[q]] /\ posting'[p] = x
      /\ \A q \in Posters : q # p => posting'[q] = posting[q]
  BY <1>4 DEF HistInv, PostingInv
<1>8. PostingOK(posting[p])'
  BY <1>3, <1>5, <1>6, <1>7 DEF PostingOK, AtWork, Approvals
<1> QED BY <1>4, <1>6, <1>7, <1>8, BatchStep

\* A poster's step that leaves batches and ledger alone.
LEMMA PosterMoves ==
    ASSUME HistInv, NEW p \in Posters, NEW x, PostingOK(x), posting' = [posting EXCEPT ![p] = x],
           UNCHANGED <<serving, mapped, sourceRow, sourceCell, frozen, credited>>
    PROVE  HistInv'
<1>1. Onward /\ frozen' = [y \in DOMAIN frozen' |-> frozen'[y]]
      /\ \A y \in DOMAIN frozen' : BatchOK(y) /\ FrozenOK(y, frozen'[y])
  BY DEF Onward, HistInv, FrozenInv
<1>2. /\ posting' = [q \in Posters |-> posting'[q]] /\ posting'[p] = x
      /\ \A q \in Posters : q # p => posting'[q] = posting[q]
  BY DEF HistInv, PostingInv
<1>3. PostingOK(posting[p])'
  BY <1>2 DEF PostingOK, AtWork
<1> QED BY <1>1, <1>2, <1>3, BatchStep

LEMMA PosterSteps ==
    ASSUME HistInv, NEW p \in Posters, (\E c \in Cells : CheckCell(p, c)) \/ FailCell(p) \/ CrashHistoryPost(p)
    PROVE  HistInv'
<1>1. PICK y : y = posting[p]
  OBVIOUS
<1>2. PostingOK(y)
  BY <1>1 DEF HistInv, PostingInv
<1>3. ASSUME NEW c \in Cells, CheckCell(p, c) PROVE HistInv'
  <2>1. PICK x : x = [y EXCEPT !.pc = "checked", !.cell = c]
    OBVIOUS
  <2>2. /\ posting' = [posting EXCEPT ![p] = x] /\ c \in y.todo /\ y.pc = "loop"
        /\ UNCHANGED <<serving, mapped, sourceRow, sourceCell, frozen, credited>>
    BY <1>1, <1>3, <2>1 DEF CheckCell, reviewVars, HistInv, PostingInv
  <2>3. PostingOK(x)
    BY <1>2, <1>3, <2>1, <2>2 DEF PostingOK
  <2> QED BY <2>2, <2>3, PosterMoves
<1>4. CASE FailCell(p)
  <2>1. PICK x : x = [y EXCEPT !.pc = "loop", !.cell = None, !.todo = {}]
    OBVIOUS
  <2>2. /\ posting' = [posting EXCEPT ![p] = x] /\ y.pc # "idle"
        /\ UNCHANGED <<serving, mapped, sourceRow, sourceCell, frozen, credited>>
    BY <1>1, <1>4, <2>1 DEF FailCell, reviewVars
  <2>3. PostingOK(x)
    BY <1>2, <2>1, <2>2 DEF PostingOK
  <2> QED BY <2>2, <2>3, PosterMoves
<1>5. CASE CrashHistoryPost(p)
  <2>1. /\ posting' = [posting EXCEPT ![p] = NoPosting]
        /\ UNCHANGED <<serving, mapped, sourceRow, sourceCell, frozen, credited>>
    BY <1>5 DEF CrashHistoryPost, reviewVars
  <2>2. PostingOK(NoPosting)
    BY DEF PostingOK, NoPosting
  <2> QED BY <2>1, <2>2, PosterMoves
<1> QED BY <1>3, <1>4, <1>5

LEMMA FinishPostStep ==
    ASSUME HistInv, NEW p \in Posters, FinishHistoryPost(p)
    PROVE  HistInv'
<1>1. PICK b : b = posting[p].batch
  OBVIOUS
<1>2. posting[p].pc = "loop" /\ AtWork(b)
  BY <1>1 DEF FinishHistoryPost, HistInv, PostingInv, PostingOK
<1>3. PICK old : old = frozen[b]
  OBVIOUS
<1>4. PICK to : to = Outcome(b)
  OBVIOUS
<1>5. PICK f : f = [old EXCEPT !.status = to]
  OBVIOUS
<1>6. /\ SetFrozen(b, f) /\ posting' = [posting EXCEPT ![p] = NoPosting] /\ to \in Approvals
      /\ UNCHANGED <<serving, mapped, sourceRow, sourceCell, credited>>
  BY <1>1, <1>3, <1>4, <1>5 DEF FinishHistoryPost, reviewVars, Outcome, Approvals
<1>7. FrozenOK(b, f) /\ f.entered = old.entered /\ f.status = to
  BY <1>2, <1>3, <1>5, <1>6 DEF HistInv, FrozenInv, FrozenOK, Approvals, AtWork
<1>8. /\ Onward /\ frozen' = [x \in DOMAIN frozen' |-> frozen'[x]]
      /\ \A x \in DOMAIN frozen' : BatchOK(x) /\ FrozenOK(x, frozen'[x])
  BY <1>2, <1>3, <1>6, <1>7, BatchMoves DEF AtWork
<1>9. /\ posting' = [q \in Posters |-> posting'[q]] /\ posting'[p] = NoPosting
      /\ \A q \in Posters : q # p => posting'[q] = posting[q]
  BY <1>6 DEF HistInv, PostingInv
<1>10. PostingOK(posting[p])'
  BY <1>9 DEF PostingOK, NoPosting
<1> QED BY <1>6, <1>8, <1>9, <1>10, BatchStep

\* The entry of a cell that was waiting: it is the first of the cell, and of its batch.
LEMMA EnterStep ==
    ASSUME HistInv, NEW p \in Posters, EnterCell(p)
    PROVE  HistInv'
<1>1. PICK y : y = posting[p]
  OBVIOUS
<1>2. PICK b : b = y.batch
  OBVIOUS
<1>3. PICK c : c = y.cell
  OBVIOUS
<1>4. PICK row : row = sourceRow[RowOf[c]]
  OBVIOUS
<1>5. PICK map : map = mapped
  OBVIOUS
<1>6. PICK e : e = [cell |-> c, who |-> b.facts[c].who, class |-> b.map.class, batch |-> b, row |-> row, map |-> map]
  OBVIOUS
<1>7. PICK f : f = [frozen[b] EXCEPT !.entered = frozen[b].entered \cup {c}]
  OBVIOUS
<1>8. PICK x : x = [y EXCEPT !.pc = "loop", !.cell = None, !.todo = y.todo \ {c}]
  OBVIOUS
<1>9. /\ y.pc = "checked" /\ StillValid(b, c) /\ credited' = credited \cup {e}
      /\ frozen' = [frozen EXCEPT ![b] = f] /\ sourceCell' = [sourceCell EXCEPT ![c].staged = "POSTED"]
      /\ posting' = [posting EXCEPT ![p] = x] /\ UNCHANGED <<serving, mapped, sourceRow>>
  <2>1. y.pc = "checked" /\ StillValid(b, c) /\ UNCHANGED <<serving, mapped, sourceRow>>
    BY <1>1, <1>2, <1>3 DEF EnterCell
  <2>2. credited' = credited \cup {e}
    BY <1>1, <1>2, <1>3, <1>4, <1>5, <1>6 DEF EnterCell
  <2>3. frozen' = [frozen EXCEPT ![b] = f]
    BY <1>1, <1>2, <1>3, <1>7 DEF EnterCell, SetFrozen
  <2>4. sourceCell' = [sourceCell EXCEPT ![c].staged = "POSTED"]
    BY <1>1, <1>3 DEF EnterCell, StagedWith
  <2>5. posting' = [posting EXCEPT ![p] = x]
    BY <1>1, <1>3, <1>8 DEF EnterCell, HistInv, PostingInv
  <2> QED BY <2>1, <2>2, <2>3, <2>4, <2>5
<1>10. PostingOK(y) /\ AtWork(b) /\ c \in ReadyIn(b) /\ BatchOK(b) /\ FrozenOK(b, frozen[b])
  <2>1. PostingOK(y)
    BY <1>1 DEF HistInv, PostingInv
  <2>2. AtWork(b) /\ c \in ReadyIn(b)
    BY <1>2, <1>3, <1>9, <2>1 DEF PostingOK
  <2> QED BY <2>1, <2>2 DEF HistInv, FrozenInv, AtWork
<1>11. c \in Cells /\ sourceCell[c].of # "SEPTEMBER" /\ b.facts[c].who \in Persons
  BY <1>10 DEF BatchOK
<1>12. /\ sourceCell' \in [Cells -> CellStates]
       /\ \A d \in Cells : sourceCell'[d].of = sourceCell[d].of
       /\ \A d \in Cells : d # c => sourceCell'[d] = sourceCell[d]
       /\ sourceCell'[c].staged = "POSTED" /\ sourceCell[c].staged # "POSTED"
  BY <1>9, <1>11 DEF HistInv, ReviewOK, CellStates, StillValid
<1>13. ReviewOK'
  BY <1>9, <1>12 DEF HistInv, ReviewOK
<1>14. /\ DOMAIN frozen' = DOMAIN frozen /\ frozen' = [d \in DOMAIN frozen' |-> frozen'[d]]
       /\ frozen'[b] = f /\ \A d \in DOMAIN frozen : d # b => frozen'[d] = frozen[d]
  BY <1>9, <1>10 DEF HistInv, FrozenInv, AtWork
<1>15. FrozenOK(b, f) /\ f.entered = frozen[b].entered \cup {c} /\ f.status = frozen[b].status
  BY <1>7, <1>10 DEF FrozenOK
<1>16. \A d : AtWork(d) => AtWork(d)'
  BY <1>14, <1>15 DEF AtWork
<1>17. \A d : BatchOK(d) => BatchOK(d)'
  <2>1. ASSUME NEW d, BatchOK(d) PROVE BatchOK(d)'
    BY <1>12, <2>1 DEF BatchOK
  <2> QED BY <2>1
<1>18. FrozenInv'
  BY <1>14, <1>15, <1>17 DEF HistInv, FrozenInv
<1>19. PostingInv'
  <2>1. /\ posting' = [q \in Posters |-> posting'[q]] /\ posting'[p] = x
        /\ \A q \in Posters : q # p => posting'[q] = posting[q]
    BY <1>9 DEF HistInv, PostingInv
  <2>2. PostingOK(x)'
    BY <1>2, <1>8, <1>9, <1>10, <1>16 DEF PostingOK
  <2>3. ASSUME NEW q \in Posters, q # p PROVE PostingOK(posting[q])'
    <3>1. PostingOK(posting[q])
      BY DEF HistInv, PostingInv
    <3> QED BY <1>16, <2>1, <2>3, <3>1 DEF PostingOK
  <2> QED BY <2>1, <2>2, <2>3 DEF PostingInv
<1>20. CreditedInv'
  <2>1. ASSUME NEW d \in credited PROVE EntryOK(d)'
    <3>1. EntryOK(d)
      BY DEF HistInv, CreditedInv
    <3> QED BY <1>12, <1>16, <3>1 DEF EntryOK
  <2>2. row \in RowStates /\ row.who = b.facts[c].who /\ row.match \in {"AUTO_MATCHED", "CONFIRMED"}
    BY <1>4, <1>9, <1>11, HistoryAssumption DEF StillValid, Identified, HistInv, ReviewOK
  <2>3. row.credit \in {"NOT_REQUIRED", "APPROVED"} 
    BY <1>4, <1>9, <1>11, HistoryAssumption DEF StillValid, TotalAgreed, HistInv, ReviewOK
  <2>4. MapConfirmed(map) /\ map.class = b.map.class /\ map.class \in Classes
    BY <1>5, <1>9 DEF StillValid, MapConfirmed, HistInv, ReviewOK
  <2>5. EntryOK(e)'
    BY <1>6, <1>10, <1>11, <1>12, <1>16, <2>2, <2>3, <2>4 DEF EntryOK, MapConfirmed
  <2> QED BY <1>9, <2>1, <2>5 DEF CreditedInv
<1>21. OnceInv'
  <2>1. EntriesOf(c) = {} /\ BatchesOf(c) = {}
    BY <1>11, <1>12 DEF HistInv, OnceInv
  <2>2. EntriesOf(c)' = {e}
    BY <1>6, <1>9, <2>1 DEF EntriesOf
  <2>3. BatchesOf(c)' = {b}
    BY <1>10, <1>14, <1>15, <2>1 DEF BatchesOf, AtWork
  <2>4. ASSUME NEW d \in Cells, d # c PROVE EntriesOf(d)' = EntriesOf(d) /\ BatchesOf(d)' = BatchesOf(d)
    BY <1>6, <1>9, <1>14, <1>15, <2>4 DEF EntriesOf, BatchesOf
  <2>5. One(EntriesOf(c))' /\ One(BatchesOf(c))'
    BY <2>2, <2>3 DEF One
  <2>6. ASSUME NEW d \in Cells, d # c
        PROVE  (IF sourceCell[d].staged = "POSTED" THEN One(EntriesOf(d)) /\ One(BatchesOf(d))
                ELSE EntriesOf(d) = {} /\ BatchesOf(d) = {})'
    BY <1>12, <2>4, <2>6 DEF HistInv, OnceInv, One
  <2> QED BY <1>12, <2>5, <2>6 DEF OnceInv
<1> QED BY <1>13, <1>18, <1>19, <1>20, <1>21 DEF HistInv

LEMMA HistoryStep == HistInv /\ [HistoryNext]_historyVars => HistInv'
<1> SUFFICES ASSUME HistInv, [HistoryNext]_historyVars PROVE HistInv'
  OBVIOUS
<1>1. CASE Propose("PENDING_REVIEW", None) \/ \E k \in Classes : Propose("EXACT", k)
  BY <1>1, ReviewSteps
<1>2. CASE \/ \E k \in Classes, snap \in Snapshots : ConfirmClass(k, snap)
           \/ \E k \in Classes \cup {None}, snap \in Snapshots : MatchStaged(k, snap)
           \/ \E snap \in Snapshots : CountBulk(snap)
           \/ ConfirmBulk
           \/ \E r \in SourceRows, m \in Persons, snap \in Snapshots : ConfirmMatch(r, m, snap)
  BY <1>2, ReviewSteps
<1>3. CASE \/ \E r \in SourceRows, verdict \in Verdicts : Judge(r, verdict)
           \/ \E C \in SUBSET Cells : AcceptYear(C)
           \/ \E c \in Cells : ConfirmMonth(c)
           \/ \E m \in Persons : ChangeService(m)
  BY <1>3, ReviewSteps
<1>4. ASSUME NEW u \in Staff, Freeze(u) PROVE HistInv'
  BY <1>4, FreezeStep
<1>5. ASSUME NEW b \in DOMAIN frozen, NEW u \in Staff, SubmitFrozen(b) \/ ApproveFrozen(b, u) \/ ReconcileFrozen(b)
      PROVE  HistInv'
  BY <1>5, BatchSteps
<1>6. ASSUME NEW p \in Posters, NEW b \in DOMAIN frozen, BeginHistoryPost(p, b) PROVE HistInv'
  BY <1>6, BeginPostStep
<1>7. ASSUME NEW p \in Posters, (\E c \in Cells : CheckCell(p, c)) \/ FailCell(p) \/ CrashHistoryPost(p) PROVE HistInv'
  BY <1>7, PosterSteps
<1>8. ASSUME NEW p \in Posters, EnterCell(p) PROVE HistInv'
  BY <1>8, EnterStep
<1>9. ASSUME NEW p \in Posters, FinishHistoryPost(p) PROVE HistInv'
  BY <1>9, FinishPostStep
<1>10. CASE UNCHANGED historyVars
  <2>1. ReviewOK' /\ SameCells /\ UNCHANGED <<frozen, credited, posting>>
    BY <1>10 DEF historyVars, HistInv, ReviewOK, SameCells
  <2> QED BY <2>1, ReviewStep
<1> QED BY <1>1, <1>2, <1>3, <1>4, <1>5, <1>6, <1>7, <1>8, <1>9, <1>10 DEF HistoryNext

LEMMA HistInvIsEnough == HistInv => HistorySafe
<1> SUFFICES ASSUME HistInv PROVE HistorySafe
  OBVIOUS
<1>1. \A r \in SourceRows : sourceRow[r].who \in Persons \cup {None}
  BY DEF HistInv, ReviewOK, RowStates
<1>2. HistoryTypeOK
  BY <1>1 DEF HistInv, ReviewOK, FrozenInv, FrozenOK, CreditedInv, EntryOK, PostingInv, PostingOK, HistoryTypeOK
<1>3. CellsEnteredOnce
  <2> SUFFICES ASSUME NEW c \in Cells
               PROVE  /\ Cardinality(EntriesOf(c)) = Cardinality(BatchesOf(c))
                      /\ Cardinality(BatchesOf(c)) = IF sourceCell[c].staged = "POSTED" THEN 1 ELSE 0
    BY DEF CellsEnteredOnce, EntriesOf, BatchesOf
  <2>1. CASE sourceCell[c].staged = "POSTED"
    <3>1. One(EntriesOf(c)) /\ One(BatchesOf(c))
      BY <2>1 DEF HistInv, OnceInv
    <3>2. \A S : One(S) => Cardinality(S) = 1
      BY FS_Singleton DEF One
    <3> QED BY <2>1, <3>1, <3>2
  <2>2. CASE sourceCell[c].staged # "POSTED"
    <3>1. EntriesOf(c) = {} /\ BatchesOf(c) = {}
      BY <2>2 DEF HistInv, OnceInv
    <3> QED BY <2>2, <3>1, FS_EmptySet
  <2> QED BY <2>1, <2>2
<1>4. EnteredAsReviewed
  <2> SUFFICES ASSUME NEW e \in credited
               PROVE  /\ e.row.who = e.who /\ e.row.match \in {"AUTO_MATCHED", "CONFIRMED"}
                      /\ e.row.credit \in {"NOT_REQUIRED", "APPROVED"}
                      /\ MapConfirmed(e.map) /\ e.map.class = e.class
                      /\ e.batch \in DOMAIN frozen /\ frozen[e.batch].approver \in Staff \ {frozen[e.batch].maker}
    BY DEF EnteredAsReviewed
  <2>1. EntryOK(e)
    BY DEF HistInv, CreditedInv
  <2>2. frozen[e.batch].approver \in Staff \ {frozen[e.batch].maker}
    BY <2>1 DEF EntryOK, AtWork, HistInv, FrozenInv, FrozenOK
  <2> QED BY <2>1, <2>2 DEF EntryOK, AtWork
<1>5. SeptemberHeld
  BY DEF HistInv, CreditedInv, EntryOK, SeptemberHeld
<1> QED BY <1>2, <1>3, <1>4, <1>5 DEF HistorySafe

\* Cells of the workbook are entered once, as two people have reviewed them, and never those of September.
THEOREM HistoryIsSafe == HistorySpec => []HistorySafe
<1>1. HistoryInit => HistInv
  BY HistoryStart
<1>2. HistInv /\ [HistoryNext]_historyVars => HistInv'
  BY HistoryStep
<1>3. HistInv => HistorySafe
  BY HistInvIsEnough
<1> QED BY <1>1, <1>2, <1>3, PTL DEF HistorySpec

(***************************************************************************)
(* OpeningBalances: no period of a learner is counted twice.               *)
(***************************************************************************)
Request(r) ==
    /\ r = [pc |-> r.pc, what |-> r.what, src |-> r.src, read |-> r.read]
    /\ r.pc \in {"idle", "open", "checked", "written"}
    /\ r.what \in {"register", "approve", "post", "cancel"}
    /\ r.pc # "idle" => r.src \in Sources
Posting(r) ==
    /\ r = [pc |-> r.pc, member |-> r.member, date |-> r.date, seen |-> r.seen]
    /\ r.pc \in {"idle", "read", "guarded"}
    /\ r.pc # "idle" => r.member \in Members /\ r.date \in Dates

\* What of the variables' types the arguments need.
Shape ==
    /\ status = [s \in Sources |-> status[s]] /\ deficit = [s \in Sources |-> deficit[s]]
    /\ balance = [m \in Members |-> balance[m]]
    /\ \A m \in Members : balance[m] # None => balance[m].cutoff \in Dates
    /\ \A e \in entries : e.member \in Members /\ e.date \in Dates
    /\ op = [o \in Ops |-> op[o]] /\ \A o \in Ops : Request(op[o])
    /\ writer = [w \in Writers |-> writer[w]] /\ \A w \in Writers : Posting(writer[w])

\* A learner's row is locked by one transaction at a time.
Apart ==
    /\ \A o, p \in Ops : o # p => HeldBy(o) \cap HeldBy(p) = {}
    /\ \A o \in Ops, w \in Writers : writer[w].pc = "guarded" => writer[w].member \notin HeldBy(o)

\* What a posting and a batch have decided under the lock is still so.
SetsBalances(o) == op[o].what = "post" /\ Kind[op[o].src] # "CLASSIFY_ONLY"
Decided ==
    /\ \A o \in Ops : op[o].pc \in {"checked", "written"} /\ SetsBalances(o) =>
         \A m \in Listed(op[o].src) : ~Overlap(m, Cutoff[op[o].src])
    /\ \A w \in Batchers : writer[w].pc = "guarded" => After(writer[w].date, balance[writer[w].member])

LedgerInv == Shape /\ Apart /\ Decided /\ BatchEntriesAreLater

USE DEF Writers

LEMMA ListedMembers == ASSUME NEW s \in Sources PROVE Listed(s) \subseteq Members
BY SourceAssumption DEF Listed

LEMMA LedgerInit == Init => LedgerInv
<1> SUFFICES ASSUME Init PROVE LedgerInv
  OBVIOUS
<1>1. Shape
  BY DEF Init, Shape, Request, Posting, Free, Quiet
<1>2. \A o \in Ops : HeldBy(o) = {}
  BY DEF Init, HeldBy, Free
<1>3. Apart /\ Decided /\ BatchEntriesAreLater
  BY <1>2 DEF Init, Apart, Decided, BatchEntriesAreLater, Free, Quiet
<1> QED BY <1>1, <1>3 DEF LedgerInv

\* What the request's own record turns into decides every part but the last: a step that moves
\* one request and leaves ledger, balances and posting transactions alone.
LEMMA RequestMoves ==
    ASSUME LedgerInv, NEW o \in Ops, op' = [op EXCEPT ![o] = op'[o]], Request(op'[o]),
           status' = [s \in Sources |-> status'[s]], deficit' = [s \in Sources |-> deficit'[s]],
           UNCHANGED <<balance, entries, writer>>,
           \/ HeldBy(o)' = {} /\ op'[o].pc \notin {"checked", "written"}
           \/ /\ HeldBy(o)' = HeldBy(o) /\ op[o].pc \in {"checked", "written"}
              /\ op'[o].what = op[o].what /\ op'[o].src = op[o].src
           \/ /\ HeldBy(o)' \cap (LockedByOps(o) \cup LockedByWriters(None)) = {}
              /\ SetsBalances(o)' => \A m \in Listed(op'[o].src) : ~Overlap(m, Cutoff[op'[o].src])
    PROVE  LedgerInv'
<1>1. Shape'
  BY DEF LedgerInv, Shape
<1>2. \A p \in Ops \ {o} : op'[p] = op[p]
  BY DEF LedgerInv, Shape
<1>3. \A p \in Ops \ {o} : HeldBy(p)' = HeldBy(p) /\ (SetsBalances(p)' <=> SetsBalances(p))
  BY <1>2 DEF HeldBy, LocksMembers, SetsBalances
<1>4. \A p \in Ops \ {o} : HeldBy(o)' \cap HeldBy(p) = {}
  BY DEF LedgerInv, Apart, LockedByOps
<1>5. \A w \in Writers : writer[w].pc = "guarded" => writer[w].member \notin HeldBy(o)'
  BY DistinctAssumption DEF LedgerInv, Apart, LockedByWriters
<1>6. Apart'
  BY <1>3, <1>4, <1>5 DEF LedgerInv, Apart
<1>7. Decided'
  BY <1>2, <1>3 DEF LedgerInv, Decided, SetsBalances, Overlap, After
<1> QED BY <1>1, <1>6, <1>7 DEF LedgerInv, BatchEntriesAreLater

LEMMA RequestSteps ==
    ASSUME LedgerInv, NEW o \in Ops,
           \/ \E what \in {"register", "approve", "post", "cancel"}, s \in Sources : Begin(o, what, s)
           \/ Check(o) \/ Write(o) \/ Abort(o)
    PROVE  LedgerInv'
<1>0. Request(op[o]) /\ Shape
  BY DEF LedgerInv, Shape
<1>1. ASSUME NEW what \in {"register", "approve", "post", "cancel"}, NEW s \in Sources, Begin(o, what, s)
      PROVE  LedgerInv'
  <2>1. op'[o] = [pc |-> "open", what |-> what, src |-> s, read |-> <<>>]
    BY <1>0, <1>1 DEF Begin, Shape
  <2>2. Request(op'[o]) /\ HeldBy(o)' = {}
    BY <2>1 DEF Request, HeldBy
  <2> QED BY <1>0, <1>1, <2>1, <2>2, RequestMoves DEF Begin, stored, Shape
<1>2. CASE Check(o)
  <2> DEFINE s == op[o].src
             p == IF op[o].what = "register" THEN Reference(s) ELSE prior[s]
  <2>1. CASE ~Holds(s, p)
    <3>1. op'[o] = Free
      BY <1>0, <1>2, <2>1 DEF Check, Shape
    <3>2. Request(op'[o]) /\ HeldBy(o)' = {}
      BY <3>1 DEF Request, HeldBy, Free
    <3> QED BY <1>0, <1>2, <3>1, <3>2, RequestMoves DEF Check, stored, Shape, Free
  <2>2. CASE Holds(s, p)
    <3>1. op'[o] = [pc |-> "checked", what |-> op[o].what, src |-> s, read |-> p]
      BY <1>0, <1>2, <2>2 DEF Check, Shape, Request
    <3>2. Request(op'[o])
      BY <1>0, <1>2, <3>1 DEF Request, Check
    <3>3. HeldBy(o)' \cap (LockedByOps(o) \cup LockedByWriters(None)) = {}
      BY <1>2, <3>1 DEF Check, HeldBy, LocksMembers
    <3>4. SetsBalances(o)' => \A m \in Listed(s) : ~Overlap(m, Cutoff[s])
      <4>1. Kind[s] \in {"OPENING", "CLASSIFY_ONLY", "DEFICIT"}
        BY <1>0, <1>2, SourceAssumption DEF Request, Check
      <4>2. CASE Kind[s] = "OPENING"
        BY <2>2, <4>2 DEF Holds, OpeningHolds
      <4>3. CASE Kind[s] = "DEFICIT"
        <5>1. DeficitHolds(s, p)
          BY <2>2, <4>3 DEF Holds
        <5> QED BY <5>1 DEF DeficitHolds
      <4>4. CASE Kind[s] = "CLASSIFY_ONLY"
        BY <3>1, <4>4 DEF SetsBalances
      <4> QED BY <4>1, <4>2, <4>3, <4>4
    <3> QED BY <1>0, <1>2, <3>1, <3>2, <3>3, <3>4, RequestMoves DEF Check, stored, Shape
  <2> QED BY <2>1, <2>2
<1>3. CASE Write(o)
  <2>1. op'[o] = [pc |-> "written", what |-> op[o].what, src |-> op[o].src, read |-> op[o].read]
    BY <1>0, <1>3 DEF Write, Shape, Request
  <2>2. Request(op'[o])
    BY <1>0, <1>3, <2>1 DEF Request, Write
  <2>3. CASE op[o].pc = "checked"
    <3>1. HeldBy(o)' = HeldBy(o)
      BY <2>1, <2>3 DEF HeldBy, LocksMembers
    <3> QED BY <1>0, <1>3, <2>1, <2>2, <2>3, <3>1, RequestMoves DEF Write, stored, Shape
  <2>4. CASE op[o].what = "cancel"
    <3>1. HeldBy(o)' = {} /\ ~SetsBalances(o)'
      BY <2>1, <2>4 DEF HeldBy, LocksMembers, SetsBalances
    <3> QED BY <1>0, <1>3, <2>1, <2>2, <3>1, RequestMoves DEF Write, stored, Shape
  <2> QED BY <1>3, <2>3, <2>4 DEF Write
<1>4. CASE Abort(o)
  <2>1. op'[o] = Free
    BY <1>0, <1>4 DEF Abort, Shape
  <2>2. Request(op'[o]) /\ HeldBy(o)' = {}
    BY <2>1 DEF Request, HeldBy, Free
  <2> QED BY <1>0, <1>4, <2>1, <2>2, RequestMoves DEF Abort, stored, Shape, Free
<1> QED BY <1>1, <1>2, <1>3, <1>4

\* A posting gives balances only to learners without an entry up to the cutoff, whose rows it holds.
LEMMA CommitStep ==
    ASSUME LedgerInv, NEW o \in Ops, Commit(o)
    PROVE  LedgerInv'
<1> DEFINE s == op[o].src
<1>0. Request(op[o]) /\ Shape /\ op[o].pc = "written" /\ s \in Sources
  BY DEF LedgerInv, Shape, Commit, Request
<1>1. op'[o] = Free /\ UNCHANGED <<entries, writer>> /\ \A p \in Ops \ {o} : op'[p] = op[p]
  BY <1>0 DEF Commit, Shape
<1>2. HeldBy(o)' = {} /\ \A p \in Ops \ {o} : HeldBy(p)' = HeldBy(p) /\ (SetsBalances(p)' <=> SetsBalances(p))
  BY <1>1 DEF HeldBy, LocksMembers, SetsBalances, Free
<1>3. \A m \in Members :
        balance'[m] # balance[m] =>
          /\ SetsBalances(o) /\ m \in Listed(s) /\ m \in HeldBy(o)
          /\ balance'[m].cutoff = Cutoff[s]
  <2>1. CASE op[o].what = "post"
    <3>1. balance' = NewBalances(s)
      BY <2>1 DEF Commit, Insert
    <3> QED BY <1>0, <2>1, <3>1, SourceAssumption DEF NewBalances, HeldBy, LocksMembers, SetsBalances, Shape
  <2>2. CASE op[o].what # "post"
    BY <2>2 DEF Commit
  <2> QED BY <2>1, <2>2
<1>4. balance' = [m \in Members |-> balance'[m]]
  BY <1>0 DEF Commit, Insert, NewBalances, Shape
<1>5. Shape'
  <2>1. status' = [q \in Sources |-> status'[q]] /\ deficit' = [q \in Sources |-> deficit'[q]]
    BY <1>0 DEF Commit, Shape
  <2>2. op' = [p \in Ops |-> op'[p]] /\ \A p \in Ops : Request(op'[p])
    BY <1>0, <1>1 DEF Commit, Shape, Request, Free
  <2>3. \A m \in Members : balance'[m] # None => balance'[m].cutoff \in Dates
    BY <1>0, <1>3, SourceAssumption DEF Shape
  <2> QED BY <1>0, <1>1, <1>4, <2>1, <2>2, <2>3 DEF Shape
<1>6. Apart'
  BY <1>1, <1>2 DEF LedgerInv, Apart
<1>7. Decided'
  <2>1. \A p \in Ops : (op[p].pc \in {"checked", "written"} /\ SetsBalances(p) =>
          \A m \in Listed(op[p].src) : ~Overlap(m, Cutoff[op[p].src]))'
    <3>1. op'[o].pc = "idle"
      BY <1>1 DEF Free
    <3> QED BY <1>1, <1>2, <3>1 DEF LedgerInv, Decided, Overlap
  <2>2. ASSUME NEW w \in Batchers, writer[w].pc = "guarded"
        PROVE  After(writer[w].date, balance'[writer[w].member])
    <3>1. writer[w].member \in Members /\ writer[w].member \notin HeldBy(o)
      BY <1>0, <2>2 DEF Shape, Posting, LedgerInv, Apart
    <3> QED BY <1>3, <2>2, <3>1 DEF LedgerInv, Decided, After
  <2> QED BY <1>1, <2>1, <2>2 DEF Decided, After
<1>8. BatchEntriesAreLater'
  <2> SUFFICES ASSUME NEW e \in entries, e.via = "BATCH", balance'[e.member] # None
               PROVE  e.date > balance'[e.member].cutoff
    BY <1>1 DEF BatchEntriesAreLater
  <2>1. e.member \in Members /\ e.date \in Dates
    BY <1>0 DEF Shape
  <2>2. CASE balance'[e.member] = balance[e.member]
    BY <2>2 DEF LedgerInv, BatchEntriesAreLater
  <2>3. CASE balance'[e.member] # balance[e.member]
    <3>1. /\ SetsBalances(o) /\ e.member \in Listed(s) /\ balance'[e.member].cutoff = Cutoff[s]
      BY <1>3, <2>1, <2>3
    <3>2. ~(e.date <= Cutoff[s])
      BY <1>0, <3>1 DEF LedgerInv, Decided, Overlap
    <3>3. Cutoff[s] \in Nat /\ e.date \in Nat
      BY <1>0, <2>1, SourceAssumption
    <3> QED BY <3>1, <3>2, <3>3
  <2> QED BY <2>2, <2>3
<1> QED BY <1>5, <1>6, <1>7, <1>8 DEF LedgerInv

\* A step of a transaction that posts a regular entry, up to its last.
LEMMA WriterSteps ==
    ASSUME LedgerInv, NEW w \in Writers,
           \/ w \in Batchers /\ \E m \in Members, d \in Dates : BatchGuard(w, m, d)
           \/ w \in Confirmers /\ \E m \in Members, d \in Dates : ConfirmRead(w, m, d)
           \/ w \in Confirmers /\ ConfirmGuard(w)
           \/ GiveUp(w)
    PROVE  LedgerInv'
<1>0. Shape /\ Posting(writer[w]) /\ w \in Writers
  BY DEF LedgerInv, Shape
<1>1. UNCHANGED <<stored, entries, op>> /\ \A v \in Writers \ {w} : writer'[v] = writer[v]
  BY <1>0 DEF BatchGuard, ConfirmRead, ConfirmGuard, GiveUp, Shape
<1>2. /\ writer' = [v \in Writers |-> writer'[v]] /\ Posting(writer'[w])
  <2>1. writer' = [v \in Writers |-> writer'[v]]
    BY <1>0 DEF BatchGuard, ConfirmRead, ConfirmGuard, GiveUp, Shape
  <2>2. ASSUME NEW m \in Members, NEW d \in Dates, BatchGuard(w, m, d) \/ ConfirmRead(w, m, d)
        PROVE  Posting(writer'[w])
    BY <1>0, <2>2 DEF BatchGuard, ConfirmRead, Shape, Posting
  <2>3. CASE ConfirmGuard(w)
    <3>1. writer'[w] = [pc |-> "guarded", member |-> writer[w].member, date |-> writer[w].date,
                        seen |-> writer[w].seen]
      BY <1>0, <2>3 DEF ConfirmGuard, Shape, Posting
    <3> QED BY <1>0, <2>1, <2>3, <3>1 DEF ConfirmGuard, Posting
  <2>4. CASE GiveUp(w)
    <3>1. writer'[w] = Quiet
      BY <1>0, <2>4 DEF GiveUp, Shape
    <3> QED BY <2>1, <3>1 DEF Posting, Quiet
  <2> QED BY <2>1, <2>2, <2>3, <2>4
<1>3. writer'[w].pc = "guarded" => writer'[w].member \notin LockedByOps(None)
  <2>1. ASSUME NEW m \in Members, NEW d \in Dates, BatchGuard(w, m, d)
        PROVE  writer'[w].member \notin LockedByOps(None)
    BY <1>0, <2>1 DEF BatchGuard, Shape
  <2>2. ASSUME NEW m \in Members, NEW d \in Dates, ConfirmRead(w, m, d)
        PROVE  writer'[w].pc # "guarded"
    BY <1>0, <2>2 DEF ConfirmRead, Shape
  <2>3. CASE ConfirmGuard(w)
    <3>1. writer'[w].member = writer[w].member
      BY <1>0, <2>3 DEF ConfirmGuard, Shape, Posting
    <3> QED BY <2>3, <3>1 DEF ConfirmGuard
  <2>4. CASE GiveUp(w)
    BY <1>0, <2>4 DEF GiveUp, Shape, Quiet
  <2> QED BY <2>1, <2>2, <2>3, <2>4
<1>4. w \in Batchers /\ writer'[w].pc = "guarded" => After(writer'[w].date, balance[writer'[w].member])
  BY <1>0, DistinctAssumption DEF BatchGuard, ConfirmRead, ConfirmGuard, GiveUp, Shape, Posting, Quiet
<1>5. \A o \in Ops : HeldBy(o)' = HeldBy(o) /\ (SetsBalances(o)' <=> SetsBalances(o))
  BY <1>1 DEF HeldBy, LocksMembers, SetsBalances
<1>6. Shape'
  BY <1>0, <1>1, <1>2 DEF Shape, stored
<1>7. Apart'
  BY <1>1, <1>3, <1>5, DistinctAssumption DEF LedgerInv, Apart, LockedByOps
<1>8. Decided'
  BY <1>1, <1>4, <1>5 DEF LedgerInv, Decided, Overlap, stored, After
<1> QED BY <1>1, <1>6, <1>7, <1>8 DEF LedgerInv, BatchEntriesAreLater, stored

\* No posting holds the row of the learner whose entry is inserted.
LEMMA EntryStep ==
    ASSUME LedgerInv, NEW w \in Writers, PostRegular(w)
    PROVE  LedgerInv'
<1> DEFINE m == writer[w].member
           e == [member |-> m, date |-> writer[w].date,
                 via |-> IF w \in Batchers THEN "BATCH" ELSE "CONFIRMATION"]
<1>0. Shape /\ writer[w].pc = "guarded" /\ m \in Members /\ writer[w].date \in Dates
  BY DEF LedgerInv, Shape, Posting, PostRegular
<1>1. /\ UNCHANGED <<stored, op>> /\ entries' = entries \cup {e}
      /\ writer'[w] = Quiet /\ \A v \in Writers \ {w} : writer'[v] = writer[v]
      /\ writer' = [v \in Writers |-> writer'[v]]
  BY <1>0 DEF PostRegular, Shape
<1>2. \A o \in Ops : HeldBy(o)' = HeldBy(o) /\ (SetsBalances(o)' <=> SetsBalances(o)) /\ m \notin HeldBy(o)
  BY <1>0, <1>1 DEF HeldBy, LocksMembers, SetsBalances, LedgerInv, Apart
<1>3. Shape'
  <2>1. \A v \in Writers : Posting(writer'[v])
    <3>1. Posting(writer'[w])
      BY <1>1 DEF Posting, Quiet
    <3>2. \A v \in Writers \ {w} : Posting(writer'[v])
      BY <1>0, <1>1 DEF Shape
    <3> QED BY <3>1, <3>2
  <2>2. \A x \in entries' : x.member \in Members /\ x.date \in Dates
    BY <1>0, <1>1 DEF Shape
  <2> QED BY <1>0, <1>1, <2>1, <2>2 DEF Shape, stored
<1>4. Apart'
  BY <1>1, <1>2 DEF LedgerInv, Apart, Quiet
<1>5. Decided'
  <2>1. ASSUME NEW o \in Ops, op[o].pc \in {"checked", "written"}, SetsBalances(o), NEW n \in Listed(op[o].src)
        PROVE  ~Overlap(n, Cutoff[op[o].src])'
    <3>1. n # m
      BY <1>2, <2>1 DEF HeldBy, LocksMembers, SetsBalances
    <3> QED BY <1>1, <2>1, <3>1 DEF LedgerInv, Decided, Overlap
  <2>2. \A v \in Batchers : writer'[v].pc = "guarded" => After(writer'[v].date, balance'[writer'[v].member])
    <3>1. balance' = balance /\ writer'[w].pc # "guarded"
      BY <1>1 DEF stored, Quiet
    <3> QED BY <1>1, <3>1 DEF LedgerInv, Decided, After
  <2>3. (\A o \in Ops : op[o].pc \in {"checked", "written"} /\ SetsBalances(o) =>
          \A n \in Listed(op[o].src) : ~Overlap(n, Cutoff[op[o].src]))'
    BY <1>1, <1>2, <2>1
  <2> QED BY <2>2, <2>3 DEF Decided, After
<1>6. BatchEntriesAreLater'
  BY <1>0, <1>1 DEF LedgerInv, BatchEntriesAreLater, Decided, stored, After
<1> QED BY <1>3, <1>4, <1>5, <1>6 DEF LedgerInv

LEMMA LedgerNext == LedgerInv /\ [Next]_vars => LedgerInv'
<1>1. ASSUME LedgerInv, Next PROVE LedgerInv'
  BY <1>1, RequestSteps, CommitStep, WriterSteps, EntryStep DEF Next
<1>2. ASSUME LedgerInv, UNCHANGED vars PROVE LedgerInv'
  <2>1. UNCHANGED <<status, deficit, balance, entries, op, writer>>
    BY <1>2 DEF vars
  <2>2. Shape' /\ Decided' /\ BatchEntriesAreLater'
    BY <1>2, <2>1 DEF LedgerInv, Shape, Decided, SetsBalances, Overlap, BatchEntriesAreLater
  <2>3. Apart'
    BY <1>2, <2>1 DEF LedgerInv, Apart, HeldBy, LocksMembers
  <2> QED BY <2>2, <2>3 DEF LedgerInv
<1> QED BY <1>1, <1>2

\* Batches and opening or deficit postings never count a period of a learner twice: the row lock
\* that both take before they look at what the other has written is enough for that.
THEOREM NoCreditTwice == Spec => []BatchEntriesAreLater
<1>1. LedgerInv => BatchEntriesAreLater
  BY DEF LedgerInv
<1> QED BY <1>1, LedgerInit, LedgerNext, PTL DEF Spec

(***************************************************************************)
(* OpeningBalances: headers.                                               *)
(***************************************************************************)
\* An uncommitted update has its header for itself, and a new header has no predecessor.
Exclusive ==
    /\ \A o, p \in Ops :
         o # p /\ op[o].pc = "written" /\ op[p].pc = "written" => op[o].src # op[p].src
    /\ \A o \in Ops : op[o].pc = "written" /\ op[o].what = "register" => status[op[o].src] = "NONE"

HeaderShape ==
    /\ status = [s \in Sources |-> status[s]] /\ deficit = [s \in Sources |-> deficit[s]]
    /\ op = [o \in Ops |-> op[o]] /\ \A o \in Ops : Request(op[o])
HeadersInStep == \A s \in Sources : Kind[s] = "DEFICIT" => deficit[s] = status[s]
HeaderInv == HeaderShape /\ Exclusive /\ HeadersInStep

LEMMA HeaderInit == Init => HeaderInv
BY DEF Init, HeaderInv, HeaderShape, Exclusive, HeadersInStep, Request, Free

\* A request's step before its commit leaves the headers alone and writes to one it has alone.
LEMMA HeaderRequestSteps ==
    ASSUME HeaderInv, NEW o \in Ops,
           \/ \E what \in {"register", "approve", "post", "cancel"}, s \in Sources : Begin(o, what, s)
           \/ Check(o) \/ Write(o) \/ Abort(o)
    PROVE  HeaderInv' /\ status' = status
<1>0. HeaderShape /\ Request(op[o])
  BY DEF HeaderInv, HeaderShape
<1>1. /\ UNCHANGED <<status, deficit>> /\ op' = [q \in Ops |-> op'[q]]
      /\ \A q \in Ops \ {o} : op'[q] = op[q]
  BY <1>0 DEF Begin, Check, Write, Abort, stored, HeaderShape
<1>2. /\ Request(op'[o])
      /\ op'[o].pc = "written" =>
           /\ ~HeaderBusy(o) /\ op'[o].src = op[o].src
           /\ op'[o].what = "register" => status[op'[o].src] = "NONE"
  <2>1. ASSUME NEW what \in {"register", "approve", "post", "cancel"}, NEW s \in Sources, Begin(o, what, s)
        PROVE  Request(op'[o]) /\ op'[o].pc # "written"
    BY <1>0, <2>1 DEF Begin, HeaderShape, Request
  <2>2. CASE Check(o)
    <3> DEFINE p == IF op[o].what = "register" THEN Reference(op[o].src) ELSE prior[op[o].src]
    <3>1. op'[o] = Free \/ op'[o] = [pc |-> "checked", what |-> op[o].what, src |-> op[o].src, read |-> p]
      BY <1>0, <2>2 DEF Check, HeaderShape, Request
    <3>2. CASE op'[o] = Free
      BY <3>2 DEF Request, Free
    <3>3. ASSUME op'[o] = [pc |-> "checked", what |-> op[o].what, src |-> op[o].src, read |-> p]
          PROVE  Request(op'[o]) /\ op'[o].pc # "written"
      <4>1. op[o].src \in Sources /\ op[o].what \in {"register", "approve", "post", "cancel"}
        BY <1>0, <2>2 DEF Check, Request
      <4> QED BY <3>3, <4>1 DEF Request
    <3> QED BY <3>1, <3>2, <3>3
  <2>3. CASE Write(o)
    <3>1. op'[o] = [pc |-> "written", what |-> op[o].what, src |-> op[o].src, read |-> op[o].read]
      BY <1>0, <2>3 DEF Write, HeaderShape, Request
    <3> QED BY <1>0, <2>3, <3>1 DEF Write, Request
  <2>4. CASE Abort(o)
    <3>1. op'[o] = Free
      BY <1>0, <2>4 DEF Abort, HeaderShape
    <3> QED BY <3>1 DEF Request, Free
  <2> QED BY <2>1, <2>2, <2>3, <2>4
<1>3. HeaderShape'
  BY <1>0, <1>1, <1>2 DEF HeaderShape
<1>4. Exclusive'
  BY <1>1, <1>2 DEF HeaderInv, Exclusive, HeaderBusy, Written
<1> QED BY <1>1, <1>3, <1>4 DEF HeaderInv, HeadersInStep

LEMMA HeaderCommit ==
    ASSUME HeaderInv, NEW o \in Ops, Commit(o)
    PROVE  /\ HeaderInv'
           /\ \A s \in Sources :
                Kind[s] = "OPENING" /\ status[s] = "CANCELLED" => status'[s] = "CANCELLED"
<1> DEFINE s == op[o].src
<1>0. HeaderShape /\ Request(op[o]) /\ op[o].pc = "written" /\ s \in Sources
  BY DEF HeaderInv, HeaderShape, Commit, Request
<1>1. /\ status'[s] = NewStatus(op[o].what, s) /\ deficit'[s] = NewDeficit(op[o].what, s)
      /\ \A q \in Sources \ {s} : status'[q] = status[q] /\ deficit'[q] = deficit[q]
      /\ op'[o] = Free /\ \A p \in Ops \ {o} : op'[p] = op[p]
  BY <1>0 DEF Commit, HeaderShape
<1>2. HeaderShape'
  <2>1. /\ status' = [q \in Sources |-> status'[q]] /\ deficit' = [q \in Sources |-> deficit'[q]]
        /\ op' = [p \in Ops |-> op'[p]]
    BY <1>0 DEF Commit, HeaderShape
  <2>2. \A p \in Ops : Request(op'[p])
    BY <1>0, <1>1 DEF HeaderShape, Request, Free
  <2> QED BY <2>1, <2>2 DEF HeaderShape
<1>3. Exclusive'
  <2>1. \A p \in Ops : op'[p].pc = "written" => p # o /\ op[p] = op'[p] /\ op[p].src # s
    BY <1>0, <1>1 DEF Free, HeaderInv, Exclusive
  <2>2. \A p \in Ops : op'[p].pc = "written" => op'[p].src \in Sources
    BY <1>2 DEF HeaderShape, Request
  <2> QED BY <1>1, <2>1, <2>2 DEF HeaderInv, Exclusive
<1>4. HeadersInStep'
  BY <1>1 DEF HeaderInv, HeadersInStep, NewDeficit
<1>5. Kind[s] = "OPENING" /\ status[s] = "CANCELLED" => status'[s] = "CANCELLED"
  BY <1>0, <1>1 DEF NewStatus, Replace, Request, HeaderInv, Exclusive
<1> QED BY <1>1, <1>2, <1>3, <1>4, <1>5 DEF HeaderInv

LEMMA HeaderNext ==
    HeaderInv /\ [Next]_vars =>
      /\ HeaderInv'
      /\ \A s \in Sources :
           Kind[s] = "OPENING" /\ status[s] = "CANCELLED" => status'[s] = "CANCELLED"
<1>1. ASSUME HeaderInv, UNCHANGED <<status, deficit, op>>
      PROVE  HeaderInv' /\ status' = status
  BY <1>1 DEF HeaderInv, HeaderShape, Exclusive, HeadersInStep
<1>2. ASSUME NEW w \in Writers,
             \/ \E m \in Members, d \in Dates : BatchGuard(w, m, d) \/ ConfirmRead(w, m, d)
             \/ ConfirmGuard(w) \/ PostRegular(w) \/ GiveUp(w)
      PROVE  UNCHANGED <<status, deficit, op>>
  BY <1>2 DEF BatchGuard, ConfirmRead, ConfirmGuard, PostRegular, GiveUp, stored
<1>3. UNCHANGED vars => UNCHANGED <<status, deficit, op>>
  BY DEF vars
<1> QED BY <1>1, <1>2, <1>3, HeaderRequestSteps, HeaderCommit DEF Next

\* A cancelled opening import stays cancelled: the updates of approval and posting name the status
\* they replace, and a registration can only create a header.
THEOREM CancellationHolds == Spec => CancelledOpeningStays
<1>1. HeaderInv /\ [Next]_vars =>
        [\A s \in Sources : Kind[s] = "OPENING" /\ status[s] = "CANCELLED" => status'[s] = "CANCELLED"]_vars
  BY HeaderNext
<1> QED BY <1>1, HeaderInit, HeaderNext, PTL DEF Spec, CancelledOpeningStays

(***************************************************************************)
(* Sums of points.                                                         *)
(***************************************************************************)
LEMMA PointsOfNobody == PointsOf({}) = 0
<1>1. UNION {{a} \X (1 .. a.points) : a \in {}} = {}
  OBVIOUS
<1> QED BY <1>1, FS_EmptySet DEF PointsOf

\* The rows whose number PointsOf is.
Tally(S) == UNION {{a} \X (1 .. a.points) : a \in S}

LEMMA TallyOfOne ==
    ASSUME NEW x, x.points \in Nat
    PROVE  IsFiniteSet({x} \X (1 .. x.points)) /\ Cardinality({x} \X (1 .. x.points)) = x.points
<1>1. PICK n \in Nat : n = x.points
  OBVIOUS
<1>2. IsFiniteSet(1 .. n) /\ Cardinality(1 .. n) = n
  BY FS_Interval
<1>3. IsFiniteSet({x}) /\ Cardinality({x}) = 1
  BY FS_Singleton
<1>4. IsFiniteSet({x} \X (1 .. n)) /\ Cardinality({x} \X (1 .. n)) = Cardinality({x}) * Cardinality(1 .. n)
  BY <1>2, <1>3, FS_Product
<1> QED BY <1>1, <1>2, <1>3, <1>4

LEMMA PointsOfNat ==
    ASSUME NEW S, IsFiniteSet(S), \A x \in S : x.points \in Nat
    PROVE  IsFiniteSet(Tally(S)) /\ PointsOf(S) \in Nat
<1>1. PICK f : f = [x \in S |-> {x} \X (1 .. x.points)]
  OBVIOUS
<1>2. PICK T : T = {{x} \X (1 .. x.points) : x \in S}
  OBVIOUS
<1>3. f \in Surjection(S, T)
  BY <1>1, <1>2 DEF Surjection
<1>4. IsFiniteSet(T) /\ \A X \in T : IsFiniteSet(X)
  BY <1>2, <1>3, FS_Surjection, TallyOfOne
<1>5. IsFiniteSet(Tally(S))
  BY <1>2, <1>4, FS_UNION DEF Tally
<1> QED BY <1>5, FS_CardinalityType DEF PointsOf, Tally

\* One more row counts its points.
LEMMA PointsOfGrows ==
    ASSUME NEW S, IsFiniteSet(S), NEW e, e \notin S, \A x \in S \cup {e} : x.points \in Nat
    PROVE  PointsOf(S \cup {e}) = PointsOf(S) + e.points
<1>1. PICK A, B : A = Tally(S) /\ B = {e} \X (1 .. e.points)
  OBVIOUS
<1>2. IsFiniteSet(A) /\ IsFiniteSet(B) /\ Cardinality(B) = e.points
  BY <1>1, PointsOfNat, TallyOfOne
<1>3. A \cap B = {} /\ Tally(S \cup {e}) = A \cup B
  BY <1>1 DEF Tally
<1>4. PointsOf(S) = Cardinality(A) /\ PointsOf(S \cup {e}) = Cardinality(A \cup B)
  BY <1>1, <1>3 DEF PointsOf, Tally
<1>5. Cardinality(A \cup B) = Cardinality(A) + Cardinality(B) - Cardinality(A \cap B)
  BY <1>2, FS_Union
<1>6. Cardinality(A) \in Nat /\ Cardinality(A \cap B) = 0
  BY <1>2, <1>3, FS_CardinalityType, FS_EmptySet
<1>7. PICK n \in Nat, k \in Nat : n = Cardinality(A) /\ k = e.points
  BY <1>6
<1>8. Cardinality(A \cup B) = n + k - 0
  BY <1>2, <1>5, <1>6, <1>7
<1> QED BY <1>4, <1>7, <1>8

\* One row alone counts its points.
LEMMA PointsOfOne == ASSUME NEW e, e.points \in Nat PROVE PointsOf({e}) = e.points
<1>1. PointsOf({} \cup {e}) = PointsOf({}) + e.points
  BY PointsOfGrows, FS_EmptySet
<1>2. PICK n \in Nat : n = e.points
  OBVIOUS
<1> QED BY <1>1, <1>2, PointsOfNobody

(***************************************************************************)
(* OpeningBalances: the records of posted imports.                         *)
(***************************************************************************)
AddedTo(m) == {a \in added : a.member = m}
AllocatedTo(m) == {a \in allocated : a.member = m}
Before(m) == IF balance[m] = None THEN 0 ELSE balance[m].points

\* What a registration has read is what a year import's rows may refer to.
Refers(s, r) == r = <<>> \/ r \in [Listed(s) -> [import : Sources \cup {None}, points : Nat]]
Typed ==
    /\ TypeOK /\ IsFiniteSet(added) /\ IsFiniteSet(allocated)
    /\ \A o \in Ops : op[o].what = "register" /\ op[o].pc \in {"checked", "written"} => Refers(op[o].src, op[o].read)

\* Who posts a source found it approved, and no registration or approval takes it back from there.
Begun ==
    \A o \in Ops : op[o].pc # "idle" /\ op[o].what = "post" => status[op[o].src] \notin {"NONE", "PENDING_APPROVAL"}

\* What a posting has checked of a learner under the row lock is still so.
Ready(s, m) ==
    /\ Kind[s] = "OPENING" => balance[m] = None
    /\ Kind[s] = "CLASSIFY_ONLY" => Fits(s, m, prior[s][m].import)
    /\ Kind[s] = "DEFICIT" =>
         /\ prior[s][m].import = IF balance[m] = None THEN None ELSE balance[m].import
         /\ prior[s][m].points = Before(m) /\ Before(m) <= Rows[s][m]
         /\ \A a \in allocated : a.member # m
PostsReady ==
    \A o \in Ops : op[o].pc \in {"checked", "written"} /\ op[o].what = "post" =>
        \A m \in Listed(op[o].src) : Ready(op[o].src, m)

\* An allocation has a balance, an adjustment has an allocation, and so has a deficit's balance.
Rooted ==
    \A m \in Members :
        /\ AllocatedTo(m) # {} => balance[m] # None
        /\ AddedTo(m) # {} => AllocatedTo(m) # {}
        /\ balance[m] # None /\ Kind[balance[m].import] = "DEFICIT" => AllocatedTo(m) # {}

\* Only the deficit import itself has added to its learners' balances, as much as they lacked.
Settled ==
    \A s \in Sources : Kind[s] = "DEFICIT" /\ status[s] = "POSTED" =>
        \A m \in Listed(s) :
            /\ balance[m] # None
            /\ \A a \in AddedTo(m) : a.by = s
            /\ balance[m].points + PointsOf(AddedTo(m)) = Rows[s][m]

RecordInv == Typed /\ Begun /\ PostsReady /\ Rooted /\ Settled /\ WholeImports /\ ClassifiedWithinBalance

LEMMA RecordInit == Init => RecordInv
<1> SUFFICES ASSUME Init PROVE RecordInv
  OBVIOUS
<1>1. Typed
  BY FS_EmptySet DEF Init, Typed, TypeOK, Statuses, Free, Quiet
<1>2. Begun /\ PostsReady
  BY DEF Init, Begun, PostsReady, Free
<1>3. Rooted /\ Settled /\ WholeImports /\ ClassifiedWithinBalance
  BY DEF Init, Rooted, Settled, WholeImports, ClassifiedWithinBalance, AddedTo, AllocatedTo
<1> QED BY <1>1, <1>2, <1>3 DEF RecordInv

\* The adjustments that count are some of the learner's; where none is allocated there are none.
LEMMA TotalOf ==
    ASSUME RecordInv, NEW m \in Members
    PROVE  /\ OpeningTotal(m) \in Nat
           /\ (\A a \in allocated : a.member # m) => OpeningTotal(m) = Before(m)
<1>1. Before(m) \in Nat
  BY DEF RecordInv, Typed, TypeOK, Before, BalanceRow
<1>2. IsFiniteSet(Confirmed(m)) /\ \A a \in Confirmed(m) : a.points \in Nat
  BY FS_Subset DEF RecordInv, Typed, TypeOK, Confirmed
<1>3. PointsOf(Confirmed(m)) \in Nat
  BY <1>2, PointsOfNat
<1>4. (\A a \in allocated : a.member # m) => Confirmed(m) = {}
  BY DEF RecordInv, Rooted, Confirmed, AddedTo, AllocatedTo
<1> QED BY <1>1, <1>3, <1>4, PointsOfNobody DEF OpeningTotal, Before

\* The record of a learner in a posting that was found to hold is ready.
LEMMA HoldsReady ==
    ASSUME RecordInv, NEW s \in Sources, Holds(s, prior[s]), NEW m \in Listed(s)
    PROVE  Ready(s, m)
<1>1. m \in Members /\ Kind[s] \in {"OPENING", "CLASSIFY_ONLY", "DEFICIT"}
  BY ListedMembers, SourceAssumption
<1>2. CASE Kind[s] = "OPENING"
  BY <1>2 DEF Holds, OpeningHolds, Ready
<1>3. CASE Kind[s] = "CLASSIFY_ONLY"
  BY <1>3 DEF Holds, ClassifyHolds, Ready
<1>4. CASE Kind[s] = "DEFICIT"
  <2>1. DeficitHolds(s, prior[s])
    BY <1>4 DEF Holds
  <2>2. OpeningTotal(m) = Before(m)
    BY <1>1, <2>1, TotalOf DEF DeficitHolds
  <2> QED BY <1>4, <2>1, <2>2 DEF DeficitHolds, Ready
<1> QED BY <1>1, <1>2, <1>3, <1>4

LEMMA ReferenceRefers == ASSUME RecordInv, NEW s \in Sources PROVE Refers(s, Reference(s))
<1>1. ASSUME NEW m \in Listed(s)
      PROVE  /\ (IF balance[m] = None THEN None ELSE balance[m].import) \in Sources \cup {None}
             /\ OpeningTotal(m) \in Nat
  <2>1. m \in Members
    BY ListedMembers
  <2> QED BY <2>1, TotalOf DEF RecordInv, Typed, TypeOK, BalanceRow
<1> QED BY <1>1 DEF Reference, Refers

LEMMA RecordsStand ==
    ASSUME RecordInv, UNCHANGED <<status, balance, added, allocated>>
    PROVE  Rooted' /\ Settled' /\ WholeImports' /\ ClassifiedWithinBalance'
<1>1. Rooted' /\ WholeImports'
  BY DEF RecordInv, Rooted, WholeImports, AddedTo, AllocatedTo
<1>2. Settled'
  <2>1. \A m : AddedTo(m)' = AddedTo(m)
    BY DEF AddedTo
  <2> QED BY <2>1 DEF RecordInv, Settled
<1>3. ClassifiedWithinBalance'
  <2> SUFFICES ASSUME NEW m \in Members, balance[m] # None
               PROVE  PointsOf(AllocationsOf(m, balance[m].import))' <= balance[m].points
    BY DEF ClassifiedWithinBalance
  <2>1. AllocationsOf(m, balance[m].import)' = AllocationsOf(m, balance[m].import)
    BY DEF AllocationsOf
  <2> QED BY <2>1 DEF RecordInv, ClassifiedWithinBalance
<1> QED BY <1>1, <1>2, <1>3

\* A request's own step: what its record turns into decides every part.
LEMMA RecordMoves ==
    ASSUME RecordInv, Shape, NEW o \in Ops, op' = [op EXCEPT ![o] = op'[o]], UNCHANGED <<stored, entries, writer>>,
           op'[o] = Free \/
             (op'[o].pc \in {"open", "checked", "written"} /\ op'[o].src \in Sources
                /\ op'[o].what \in {"register", "approve", "post", "cancel"}),
           op'[o].what = "register" /\ op'[o].pc \in {"checked", "written"} => Refers(op'[o].src, op'[o].read),
           op'[o].pc # "idle" /\ op'[o].what = "post" => status[op'[o].src] \notin {"NONE", "PENDING_APPROVAL"},
           op'[o].pc \in {"checked", "written"} /\ op'[o].what = "post" =>
             \A m \in Listed(op'[o].src) : Ready(op'[o].src, m)
    PROVE  RecordInv'
<1>1. (\A p \in Ops \ {o} : op'[p] = op[p]) /\ UNCHANGED <<status, deficit, prior, balance, added, allocated, progress>>
  BY DEF Shape, stored
<1>2. Typed'
  BY <1>1 DEF RecordInv, Typed, TypeOK
<1>3. Begun'
  BY <1>1 DEF RecordInv, Begun
<1>4. \A s, m : Ready(s, m)' <=> Ready(s, m)
  BY <1>1 DEF Ready, Fits, AllocationsOf, Before
<1>5. PostsReady'
  BY <1>1, <1>4 DEF RecordInv, PostsReady
<1> QED BY <1>1, <1>2, <1>3, <1>5, RecordsStand DEF RecordInv

LEMMA RecordRequestSteps ==
    ASSUME RecordInv, Shape, NEW o \in Ops,
           \/ \E what \in {"register", "approve", "post", "cancel"}, s \in Sources : Begin(o, what, s)
           \/ Check(o) \/ Write(o) \/ Abort(o)
    PROVE  RecordInv'
<1>0. Request(op[o])
  BY DEF Shape
<1>1. ASSUME NEW what \in {"register", "approve", "post", "cancel"}, NEW s \in Sources, Begin(o, what, s)
      PROVE  RecordInv'
  <2>1. op'[o] = [pc |-> "open", what |-> what, src |-> s, read |-> <<>>]
    BY <1>0, <1>1 DEF Begin, Shape
  <2>2. what = "post" => status[s] \notin {"NONE", "PENDING_APPROVAL"}
    BY <1>1 DEF Begin, Proceeds
  <2> QED BY <1>1, <2>1, <2>2, RecordMoves DEF Begin, Shape
<1>2. CASE Check(o)
  <2> DEFINE s == op[o].src
             p == IF op[o].what = "register" THEN Reference(s) ELSE prior[s]
  <2>0. s \in Sources /\ op[o].what \in {"register", "approve", "post", "cancel"}
    BY <1>0, <1>2 DEF Request, Check
  <2>3. op' = [op EXCEPT ![o] = op'[o]] /\ UNCHANGED <<stored, entries, writer>>
    BY <1>2 DEF Check, Shape
  <2>1. CASE ~Holds(s, p)
    <3>1. op'[o] = Free
      BY <1>0, <1>2, <2>1 DEF Check, Shape
    <3> QED BY <2>3, <3>1, RecordMoves DEF Free
  <2>2. CASE Holds(s, p)
    <3>1. op'[o] = [pc |-> "checked", what |-> op[o].what, src |-> s, read |-> p]
      BY <1>0, <1>2, <2>2 DEF Check, Shape, Request
    <3>2. op[o].what = "register" => Refers(s, p)
      BY <2>0, ReferenceRefers
    <3>3. op[o].what = "post" => \A m \in Listed(s) : Ready(s, m)
      BY <2>0, <2>2, HoldsReady
    <3>4. op[o].what = "post" => status[s] \notin {"NONE", "PENDING_APPROVAL"}
      BY <1>2 DEF RecordInv, Begun, Check
    <3> QED BY <2>0, <2>3, <3>1, <3>2, <3>3, <3>4, RecordMoves
  <2> QED BY <2>1, <2>2
<1>3. CASE Write(o)
  <2>1. op'[o] = [pc |-> "written", what |-> op[o].what, src |-> op[o].src, read |-> op[o].read]
    BY <1>0, <1>3 DEF Write, Shape, Request
  <2>2. op[o].pc # "idle" /\ op[o].src \in Sources /\ op[o].what \in {"register", "approve", "post", "cancel"}
    BY <1>0, <1>3 DEF Write, Request
  <2>3. op[o].what # "cancel" => op[o].pc = "checked"
    BY <1>3 DEF Write
  <2>4. op[o].what = "register" => Refers(op[o].src, op[o].read)
    BY <2>3 DEF RecordInv, Typed
  <2>5. op[o].what = "post" =>
          status[op[o].src] \notin {"NONE", "PENDING_APPROVAL"} /\ \A m \in Listed(op[o].src) : Ready(op[o].src, m)
    BY <2>2, <2>3 DEF RecordInv, Begun, PostsReady
  <2> QED BY <1>3, <2>1, <2>2, <2>4, <2>5, RecordMoves DEF Write, Shape
<1>4. CASE Abort(o)
  <2>1. op'[o] = Free
    BY <1>0, <1>4 DEF Abort, Shape
  <2> QED BY <1>4, <2>1, RecordMoves DEF Abort, Shape, Free
<1> QED BY <1>1, <1>2, <1>3, <1>4

\* The transactions that post regular entries leave every record of the imports alone.
LEMMA RecordWriterSteps ==
    ASSUME RecordInv, Shape, NEW w \in Writers,
           \/ \E m \in Members, d \in Dates : BatchGuard(w, m, d) \/ ConfirmRead(w, m, d)
           \/ ConfirmGuard(w) \/ PostRegular(w) \/ GiveUp(w)
    PROVE  RecordInv'
<1>0. Posting(writer[w])
  BY DEF Shape
<1>1. UNCHANGED <<status, deficit, prior, balance, added, allocated, progress, op>>
  BY DEF BatchGuard, ConfirmRead, ConfirmGuard, PostRegular, GiveUp, stored
<1>2. \A v \in Writers \ {w} : writer'[v] = writer[v]
  BY DEF BatchGuard, ConfirmRead, ConfirmGuard, PostRegular, GiveUp, Shape
<1>3. writer'[w] = Quiet \/
        (writer'[w].pc \in {"read", "guarded"} /\ writer'[w].member \in Members /\ writer'[w].date \in Dates)
  <2>1. ASSUME NEW m \in Members, NEW d \in Dates, BatchGuard(w, m, d) \/ ConfirmRead(w, m, d)
        PROVE  writer'[w].pc \in {"read", "guarded"} /\ writer'[w].member \in Members /\ writer'[w].date \in Dates
    BY <2>1 DEF BatchGuard, ConfirmRead, Shape
  <2>2. CASE ConfirmGuard(w)
    <3>1. writer'[w] = [pc |-> "guarded", member |-> writer[w].member, date |-> writer[w].date,
                        seen |-> writer[w].seen]
      BY <1>0, <2>2 DEF ConfirmGuard, Shape, Posting
    <3> QED BY <1>0, <2>2, <3>1 DEF ConfirmGuard, Posting
  <2>3. CASE PostRegular(w) \/ GiveUp(w)
    BY <2>3 DEF PostRegular, GiveUp, Shape
  <2> QED BY <2>1, <2>2, <2>3
<1>4. entries' \subseteq [member : Members, date : Dates, via : {"BATCH", "CONFIRMATION"}]
  <2>1. CASE PostRegular(w)
    <3>1. writer[w].member \in Members /\ writer[w].date \in Dates
      BY <1>0, <2>1 DEF PostRegular, Posting
    <3> QED BY <2>1, <3>1 DEF PostRegular, RecordInv, Typed, TypeOK
  <2>2. CASE ~PostRegular(w)
    BY <2>2 DEF BatchGuard, ConfirmRead, ConfirmGuard, GiveUp, RecordInv, Typed, TypeOK
  <2> QED BY <2>1, <2>2
<1>5. Typed'
  BY <1>1, <1>2, <1>3, <1>4 DEF RecordInv, Typed, TypeOK
<1>6. Begun' /\ PostsReady'
  BY <1>1 DEF RecordInv, Begun, PostsReady, Ready, Fits, AllocationsOf, Before
<1> QED BY <1>1, <1>5, <1>6, RecordsStand DEF RecordInv

(***************************************************************************)
(* What a commit does to the headers.                                      *)
(***************************************************************************)
LEMMA HeadersAfter ==
    ASSUME RecordInv, HeaderInv, NEW o \in Ops, Commit(o)
    PROVE  /\ op[o].src \in Sources /\ op[o].what \in {"register", "approve", "post", "cancel"}
           /\ op[o].pc = "written" /\ op'[o] = Free /\ \A p \in Ops \ {o} : op'[p] = op[p]
           /\ status' \in [Sources -> Statuses] /\ deficit' \in [Sources -> Statuses]
           /\ \A q \in Sources :
                /\ q # op[o].src => status'[q] = status[q]
                /\ status'[q] \in {"NONE", "PENDING_APPROVAL"} => status[q] \in {"NONE", "PENDING_APPROVAL"}
                /\ status'[q] = "POSTED" => status[q] = "POSTED" \/ (q = op[o].src /\ op[o].what = "post")
<1> DEFINE s == op[o].src
           what == op[o].what
<1>0. Request(op[o]) /\ HeaderShape /\ op[o].pc = "written" /\ s \in Sources
  BY DEF HeaderInv, HeaderShape, Commit, Request
<1>1. what \in {"register", "approve", "post", "cancel"}
  BY <1>0 DEF Request
<1>2. /\ status'[s] = NewStatus(what, s) /\ deficit'[s] = NewDeficit(what, s)
      /\ \A q \in Sources \ {s} : status'[q] = status[q] /\ deficit'[q] = deficit[q]
      /\ status' = [q \in Sources |-> status'[q]] /\ deficit' = [q \in Sources |-> deficit'[q]]
      /\ op'[o] = Free /\ \A p \in Ops \ {o} : op'[p] = op[p]
  BY <1>0 DEF Commit, HeaderShape
<1>3. status \in [Sources -> Statuses] /\ deficit \in [Sources -> Statuses]
  BY DEF RecordInv, Typed, TypeOK
<1>4. NewStatus(what, s) \in Statuses /\ NewDeficit(what, s) \in Statuses
  BY <1>0, <1>1, <1>3 DEF NewStatus, NewDeficit, Replace, Statuses
<1>5. status' \in [Sources -> Statuses] /\ deficit' \in [Sources -> Statuses]
  BY <1>0, <1>2, <1>3, <1>4
<1>6. what = "register" => status[s] = "NONE"
  BY <1>0 DEF HeaderInv, Exclusive
<1>7. what = "post" => status[s] \notin {"NONE", "PENDING_APPROVAL"}
  BY <1>0 DEF RecordInv, Begun
<1>8. status'[s] \in {"NONE", "PENDING_APPROVAL"} => status[s] \in {"NONE", "PENDING_APPROVAL"}
  BY <1>1, <1>2, <1>6, <1>7 DEF NewStatus, Replace
<1>9. status'[s] = "POSTED" => status[s] = "POSTED" \/ what = "post"
  BY <1>1, <1>2, <1>6 DEF NewStatus, Replace
<1> QED BY <1>0, <1>1, <1>2, <1>5, <1>8, <1>9

LEMMA BegunCommit == ASSUME RecordInv, HeaderInv, NEW o \in Ops, Commit(o) PROVE Begun'
<1> SUFFICES ASSUME NEW p \in Ops, op'[p].pc # "idle", op'[p].what = "post"
             PROVE  status'[op'[p].src] \notin {"NONE", "PENDING_APPROVAL"}
  BY DEF Begun
<1>1. p # o /\ op'[p] = op[p]
  BY HeadersAfter DEF Free
<1>2. op[p].src \in Sources /\ status[op[p].src] \notin {"NONE", "PENDING_APPROVAL"}
  BY <1>1 DEF RecordInv, Begun, HeaderInv, HeaderShape, Request
<1> QED BY <1>1, <1>2, HeadersAfter

(***************************************************************************)
(* What a posting records.                                                 *)
(***************************************************************************)
Opened(s, m) == [import |-> s, points |-> Rows[s][m], cutoff |-> Cutoff[s]]
Surplus(s, m) == [member |-> m, by |-> s, points |-> Rows[s][m] - prior[s][m].points]
Share(s, m) ==
    [member |-> m, opening |-> IF Kind[s] = "DEFICIT" THEN s ELSE prior[s][m].import,
     year |-> Year[s], points |-> Rows[s][m], by |-> s]

\* Nothing of a learner changes who is not listed in the source, or in a commit that does not post.
LEMMA OthersStand ==
    ASSUME RecordInv, HeaderInv, NEW o \in Ops, Commit(o), NEW m \in Members,
           op[o].what # "post" \/ m \notin Listed(op[o].src)
    PROVE  balance'[m] = balance[m] /\ AddedTo(m)' = AddedTo(m) /\ AllocatedTo(m)' = AllocatedTo(m)
<1>1. CASE op[o].what # "post"
  BY <1>1 DEF Commit, AddedTo, AllocatedTo
<1>2. CASE op[o].what = "post" /\ m \notin Listed(op[o].src)
  <2>1. Insert(op[o].src)
    BY <1>2 DEF Commit
  <2>2. balance'[m] = balance[m]
    BY <1>2, <2>1 DEF Insert, NewBalances
  <2>3. \A a \in NewAdjustments(op[o].src) : a.member # m
    BY <1>2 DEF NewAdjustments
  <2>4. \A a \in NewAllocations(op[o].src) : a.member # m
    BY <1>2 DEF NewAllocations
  <2>5. AddedTo(m)' = AddedTo(m) /\ AllocatedTo(m)' = AllocatedTo(m)
    BY <2>1, <2>3, <2>4 DEF Insert, AddedTo, AllocatedTo
  <2> QED BY <2>2, <2>5
<1> QED BY <1>1, <1>2

LEMMA OpeningPosts ==
    ASSUME NEW s \in Sources, NEW m \in Listed(s), Insert(s), Kind[s] = "OPENING"
    PROVE  balance'[m] = Opened(s, m) /\ AddedTo(m)' = AddedTo(m) /\ AllocatedTo(m)' = AllocatedTo(m)
<1>1. m \in Members
  BY ListedMembers
<1>2. balance'[m] = Opened(s, m)
  BY <1>1 DEF Insert, NewBalances, Opened
<1>3. added' = added /\ allocated' = allocated
  BY DEF Insert
<1> QED BY <1>2, <1>3 DEF AddedTo, AllocatedTo

LEMMA SharesOf == ASSUME NEW s \in Sources, NEW m \in Listed(s)
                  PROVE  {a \in NewAllocations(s) : a.member = m} = {Share(s, m)}
<1>1. NewAllocations(s) = {Share(s, n) : n \in Listed(s)}
  BY DEF NewAllocations, Share
<1>2. \A n : Share(s, n).member = n
  BY DEF Share
<1> QED BY <1>1, <1>2

LEMMA ClassifyPosts ==
    ASSUME NEW s \in Sources, NEW m \in Listed(s), Insert(s), Kind[s] = "CLASSIFY_ONLY"
    PROVE  /\ balance'[m] = balance[m] /\ AddedTo(m)' = AddedTo(m)
           /\ AllocatedTo(m)' = AllocatedTo(m) \cup {Share(s, m)}
<1>1. m \in Members
  BY ListedMembers
<1>2. balance'[m] = balance[m] /\ added' = added
  BY <1>1 DEF Insert, NewBalances
<1>3. allocated' = allocated \cup NewAllocations(s)
  BY DEF Insert
<1>4. AllocatedTo(m)' = AllocatedTo(m) \cup {a \in NewAllocations(s) : a.member = m}
  BY <1>3 DEF AllocatedTo
<1> QED BY <1>2, <1>4, SharesOf DEF AddedTo

\* A deficit import opens a balance or adds what an earlier one lacks.
LEMMA DeficitPosts ==
    ASSUME RecordInv, NEW s \in Sources, NEW m \in Listed(s), Insert(s), Kind[s] = "DEFICIT", Ready(s, m)
    PROVE  /\ AllocatedTo(m) = {} /\ AddedTo(m) = {} /\ AllocatedTo(m)' = {Share(s, m)}
           /\ IF balance[m] = None THEN balance'[m] = Opened(s, m) /\ AddedTo(m)' = {}
              ELSE /\ balance'[m] = balance[m]
                   /\ AddedTo(m)' = IF Before(m) < Rows[s][m] THEN {Surplus(s, m)} ELSE {}
<1>1. m \in Members /\ balance \in [Members -> BalanceRow \cup {None}]
  BY ListedMembers DEF RecordInv, Typed, TypeOK
<1>2. /\ prior[s][m].import = IF balance[m] = None THEN None ELSE balance[m].import
      /\ prior[s][m].points = Before(m) /\ \A a \in allocated : a.member # m
  BY DEF Ready
<1>3. AllocatedTo(m) = {} /\ AddedTo(m) = {}
  BY <1>1, <1>2 DEF AllocatedTo, AddedTo, RecordInv, Rooted
<1>4. balance[m] = None <=> prior[s][m].import = None
  <2>1. balance[m] # None => balance[m].import \in Sources
    BY <1>1 DEF BalanceRow
  <2> QED BY <1>2, <2>1, DistinctAssumption
<1>5. balance'[m] = IF balance[m] = None THEN Opened(s, m) ELSE balance[m]
  BY <1>1, <1>4 DEF Insert, NewBalances, Opened
<1>6. allocated' = allocated \cup NewAllocations(s) /\ added' = added \cup NewAdjustments(s)
  BY DEF Insert
<1>7. AllocatedTo(m)' = AllocatedTo(m) \cup {a \in NewAllocations(s) : a.member = m}
  BY <1>6 DEF AllocatedTo
<1>8. AllocatedTo(m)' = {Share(s, m)}
  BY <1>3, <1>7, SharesOf
<1>9. AddedTo(m)' = {a \in NewAdjustments(s) : a.member = m}
  <2>1. AddedTo(m)' = AddedTo(m) \cup {a \in NewAdjustments(s) : a.member = m}
    BY <1>6 DEF AddedTo
  <2> QED BY <1>3, <2>1
<1>10. PICK L : L = {n \in Listed(s) : prior[s][n].import # None /\ Rows[s][n] > prior[s][n].points}
  OBVIOUS
<1>11. NewAdjustments(s) = {Surplus(s, n) : n \in L}
  BY <1>10 DEF NewAdjustments, Surplus
<1>12. \A n : Surplus(s, n).member = n
  BY DEF Surplus
<1>13. {a \in NewAdjustments(s) : a.member = m} = IF m \in L THEN {Surplus(s, m)} ELSE {}
  BY <1>11, <1>12
<1>14. Before(m) \in Nat /\ Rows[s][m] \in Nat
  BY <1>1, SourceAssumption DEF Before, BalanceRow, Listed
<1>15. m \in L <=> balance[m] # None /\ Before(m) < Rows[s][m]
  BY <1>2, <1>4, <1>10, <1>14
<1> QED BY <1>3, <1>5, <1>8, <1>9, <1>13, <1>15

\* A posting's check of a learner stands as long as what is recorded of the learner does.
LEMMA ReadyStands ==
    ASSUME NEW s, NEW m, Ready(s, m), balance'[m] = balance[m], AllocatedTo(m)' = AllocatedTo(m), prior'[s] = prior[s]
    PROVE  Ready(s, m)'
<1>1. {a \in allocated' : a.member = m} = {a \in allocated : a.member = m}
  BY DEF AllocatedTo
<1>2. \A a : a \in allocated' /\ a.member = m <=> a \in allocated /\ a.member = m
  BY <1>1
<1>3. ASSUME Kind[s] = "CLASSIFY_ONLY"
      PROVE  Fits(s, m, prior[s][m].import)'
  <2>1. PICK i : i = prior[s][m].import
    OBVIOUS
  <2>2. Fits(s, m, i)
    BY <1>3, <2>1 DEF Ready
  <2>3. PICK A : A = {a \in allocated : a.member = m /\ a.opening = i}
    OBVIOUS
  <2>4. {a \in allocated' : a.member = m /\ a.opening = i} = A
    BY <1>2, <2>3
  <2>5. AllocationsOf(m, i) = A /\ AllocationsOf(m, i)' = A
    BY <2>3, <2>4 DEF AllocationsOf
  <2>6. Fits(s, m, i)'
    BY <2>2, <2>5 DEF Fits
  <2> QED BY <2>1, <2>6
<1>4. (\A a \in allocated : a.member # m) => (\A a \in allocated' : a.member # m)
  BY <1>2
<1> QED BY <1>3, <1>4 DEF Ready, Before

LEMMA ReadyCommit ==
    ASSUME RecordInv, HeaderInv, Apart, NEW o \in Ops, Commit(o)
    PROVE  PostsReady'
<1>1. ASSUME NEW p \in Ops, op'[p].pc \in {"checked", "written"}, op'[p].what = "post",
             NEW q, q = op'[p].src, NEW m \in Listed(q)
      PROVE  Ready(q, m)'
  <2>1. p # o /\ op'[p] = op[p] /\ q = op[p].src /\ q \in Sources
    BY <1>1, HeadersAfter DEF Free, HeaderInv, HeaderShape, Request
  <2>2. Ready(q, m) /\ m \in Members
    BY <1>1, <2>1, ListedMembers DEF RecordInv, PostsReady
  <2>3. m \in HeldBy(p)
    BY <1>1, <2>1 DEF HeldBy, LocksMembers
  <2>4. op[o].what # "post" \/ m \notin Listed(op[o].src)
    BY <2>1, <2>3, HeadersAfter DEF Apart, HeldBy, LocksMembers
  <2>5. balance'[m] = balance[m] /\ AllocatedTo(m)' = AllocatedTo(m)
    BY <2>2, <2>4, OthersStand
  <2>6. prior'[q] = prior[q]
    <3>1. op[o].what = "register" => op[o].src # q
      BY <1>1, <2>1, HeadersAfter DEF RecordInv, Begun, HeaderInv, Exclusive
    <3> QED BY <3>1 DEF Commit
  <2> QED BY <2>2, <2>5, <2>6, ReadyStands
<1> QED BY <1>1 DEF PostsReady

LEMMA PostIsReady ==
    ASSUME RecordInv, HeaderInv, NEW o \in Ops, Commit(o), op[o].what = "post"
    PROVE  Insert(op[o].src) /\ op[o].src \in Sources /\ \A m \in Listed(op[o].src) : Ready(op[o].src, m)
BY HeadersAfter DEF Commit, RecordInv, PostsReady

\* What is inserted is finite and refers to sources.
LEMMA RowsTyped ==
    ASSUME RecordInv, NEW s \in Sources, \A m \in Listed(s) : Ready(s, m)
    PROVE  /\ IsFiniteSet(NewAdjustments(s)) /\ IsFiniteSet(NewAllocations(s))
           /\ Kind[s] = "DEFICIT" => NewAdjustments(s) \subseteq [member : Members, by : Sources, points : Nat]
           /\ Kind[s] # "OPENING" =>
                NewAllocations(s) \subseteq [member : Members, opening : Sources, year : 1..3, points : Nat, by : Sources]
           /\ NewBalances(s) \in [Members -> BalanceRow \cup {None}]
<1>0. /\ Listed(s) \subseteq Members /\ IsFiniteSet(Listed(s)) /\ \A m \in Listed(s) : Rows[s][m] \in Nat
      /\ Year[s] \in 1..3 /\ Cutoff[s] \in Dates /\ Kind[s] \in {"OPENING", "CLASSIFY_ONLY", "DEFICIT"}
      /\ balance \in [Members -> BalanceRow \cup {None}]
  BY ListedMembers, SourceAssumption, FS_Subset DEF Listed, RecordInv, Typed, TypeOK
<1>1. PICK L : L = {n \in Listed(s) : prior[s][n].import # None /\ Rows[s][n] > prior[s][n].points}
  OBVIOUS
<1>2. NewAdjustments(s) = {Surplus(s, n) : n \in L} /\ NewAllocations(s) = {Share(s, n) : n \in Listed(s)}
  BY <1>1 DEF NewAdjustments, Surplus, NewAllocations, Share
<1>3. IsFiniteSet(NewAdjustments(s))
  <2>1. IsFiniteSet(L)
    BY <1>0, <1>1, FS_Subset
  <2>2. [n \in L |-> Surplus(s, n)] \in Surjection(L, NewAdjustments(s))
    BY <1>2 DEF Surjection
  <2> QED BY <2>1, <2>2, FS_Surjection
<1>4. IsFiniteSet(NewAllocations(s))
  <2>1. [n \in Listed(s) |-> Share(s, n)] \in Surjection(Listed(s), NewAllocations(s))
    BY <1>2 DEF Surjection
  <2> QED BY <1>0, <2>1, FS_Surjection
<1>5. ASSUME Kind[s] = "DEFICIT", NEW m \in L
      PROVE  Surplus(s, m) \in [member : Members, by : Sources, points : Nat]
  <2>1. Before(m) \in Nat /\ prior[s][m].points = Before(m) /\ Rows[s][m] > Before(m) /\ m \in Members
    BY <1>0, <1>1, <1>5 DEF Ready, Before, BalanceRow
  <2>2. Rows[s][m] - prior[s][m].points \in Nat
    BY <1>0, <1>1, <2>1
  <2> QED BY <2>1, <2>2 DEF Surplus
<1>6. ASSUME Kind[s] # "OPENING", NEW m \in Listed(s)
      PROVE  Share(s, m) \in [member : Members, opening : Sources, year : 1..3, points : Nat, by : Sources]
  <2>1. Kind[s] = "CLASSIFY_ONLY" => prior[s][m].import \in Sources
    BY <1>0 DEF Ready, Fits, BalanceRow
  <2> QED BY <1>0, <1>6, <2>1 DEF Share
<1>7. NewBalances(s) \in [Members -> BalanceRow \cup {None}]
  BY <1>0 DEF NewBalances, BalanceRow
<1> QED BY <1>2, <1>3, <1>4, <1>5, <1>6, <1>7

LEMMA TypedCommit ==
    ASSUME RecordInv, HeaderInv, NEW o \in Ops, Commit(o)
    PROVE  Typed'
<1> DEFINE s == op[o].src
<1>0. s \in Sources /\ TypeOK /\ IsFiniteSet(added) /\ IsFiniteSet(allocated)
  BY HeadersAfter DEF RecordInv, Typed
<1>1. /\ balance' \in [Members -> BalanceRow \cup {None}]
      /\ added' \subseteq [member : Members, by : Sources, points : Nat] /\ IsFiniteSet(added')
      /\ allocated' \subseteq [member : Members, opening : Sources, year : 1..3, points : Nat, by : Sources]
      /\ IsFiniteSet(allocated') /\ progress' \in [year : 1..3, cutoff : Dates] \cup {None}
  <2>1. CASE op[o].what # "post"
    BY <1>0, <2>1 DEF Commit, TypeOK
  <2>2. CASE op[o].what = "post"
    <3>1. Insert(s) /\ \A m \in Listed(s) : Ready(s, m)
      BY <2>2, PostIsReady
    <3>2. /\ IsFiniteSet(added \cup NewAdjustments(s)) /\ IsFiniteSet(allocated \cup NewAllocations(s))
          /\ Kind[s] = "DEFICIT" => NewAdjustments(s) \subseteq [member : Members, by : Sources, points : Nat]
          /\ Kind[s] # "OPENING" =>
               NewAllocations(s) \subseteq [member : Members, opening : Sources, year : 1..3, points : Nat, by : Sources]
          /\ NewBalances(s) \in [Members -> BalanceRow \cup {None}]
      BY <1>0, <3>1, RowsTyped, FS_Union
    <3>3. [year |-> Year[s], cutoff |-> Cutoff[s]] \in [year : 1..3, cutoff : Dates]
      BY <1>0, SourceAssumption
    <3>4. balance' \in [Members -> BalanceRow \cup {None}]
      BY <3>1, <3>2 DEF Insert
    <3>5. added' \subseteq [member : Members, by : Sources, points : Nat] /\ IsFiniteSet(added')
      <4>1. CASE Kind[s] = "DEFICIT"
        <5>1. added' = added \cup NewAdjustments(s)
          BY <3>1, <4>1 DEF Insert
        <5> QED BY <1>0, <3>2, <4>1, <5>1 DEF TypeOK
      <4>2. CASE Kind[s] # "DEFICIT"
        BY <1>0, <3>1, <4>2 DEF Insert, TypeOK
      <4> QED BY <4>1, <4>2
    <3>6. /\ allocated' \subseteq [member : Members, opening : Sources, year : 1..3, points : Nat, by : Sources]
          /\ IsFiniteSet(allocated')
      <4>1. CASE Kind[s] = "OPENING"
        BY <1>0, <3>1, <4>1 DEF Insert, TypeOK
      <4>2. CASE Kind[s] # "OPENING"
        <5>1. allocated' = allocated \cup NewAllocations(s)
          BY <3>1, <4>2 DEF Insert
        <5> QED BY <1>0, <3>2, <4>2, <5>1 DEF TypeOK
      <4> QED BY <4>1, <4>2
    <3>7. progress' \in [year : 1..3, cutoff : Dates] \cup {None}
      <4>1. progress' = progress \/ progress' = [year |-> Year[s], cutoff |-> Cutoff[s]]
        BY <3>1 DEF Insert
      <4> QED BY <1>0, <3>3, <4>1 DEF TypeOK
    <3> QED BY <3>4, <3>5, <3>6, <3>7
  <2> QED BY <2>1, <2>2
<1>2. \A q \in Sources : Refers(q, prior'[q])
  <2>1. \A q \in Sources : Refers(q, prior[q])
    BY <1>0 DEF TypeOK, Refers
  <2>2. op[o].what = "register" => Refers(s, op[o].read)
    BY HeadersAfter DEF RecordInv, Typed
  <2>3. \A q \in Sources : prior'[q] = prior[q] \/ (op[o].what = "register" /\ q = s /\ prior'[q] = op[o].read)
    <3>1. CASE op[o].what # "register"
      BY <3>1 DEF Commit
    <3>2. CASE op[o].what = "register"
      BY <1>0, <3>2 DEF Commit
    <3> QED BY <3>1, <3>2
  <2> QED BY <2>1, <2>2, <2>3
<1>3. \A p \in Ops : op'[p] = Free \/
         (op'[p].pc \in {"open", "checked", "written"} /\ op'[p].src \in Sources
            /\ op'[p].what \in {"register", "approve", "post", "cancel"})
  BY <1>0, HeadersAfter DEF TypeOK
<1>4. \A p \in Ops : op'[p].what = "register" /\ op'[p].pc \in {"checked", "written"} => Refers(op'[p].src, op'[p].read)
  BY HeadersAfter DEF Free, RecordInv, Typed
<1>5. UNCHANGED <<entries, writer>>
  BY DEF Commit
<1>6. \A q \in Sources :
        prior'[q] = <<>> \/ prior'[q] \in [Listed(q) -> [import : Sources \cup {None}, points : Nat]]
  BY <1>2 DEF Refers
<1>7. TypeOK'
  BY <1>0, <1>1, <1>3, <1>5, <1>6, HeadersAfter DEF TypeOK
<1> QED BY <1>1, <1>4, <1>7 DEF Typed

\* What holds of a learner's records stays so if they do, and after each kind of posting.
LEMMA RootedCommit ==
    ASSUME RecordInv, HeaderInv, NEW o \in Ops, Commit(o)
    PROVE  Rooted'
<1> DEFINE s == op[o].src
<1> SUFFICES ASSUME NEW m \in Members
             PROVE  /\ AllocatedTo(m)' # {} => balance'[m] # None
                    /\ AddedTo(m)' # {} => AllocatedTo(m)' # {}
                    /\ balance'[m] # None /\ Kind[balance'[m].import] = "DEFICIT" => AllocatedTo(m)' # {}
  BY DEF Rooted
<1>0. /\ AllocatedTo(m) # {} => balance[m] # None
      /\ AddedTo(m) # {} => AllocatedTo(m) # {}
      /\ balance[m] # None /\ Kind[balance[m].import] = "DEFICIT" => AllocatedTo(m) # {}
  BY DEF RecordInv, Rooted
<1>1. CASE op[o].what # "post" \/ m \notin Listed(s)
  BY <1>0, <1>1, OthersStand
<1>2. CASE op[o].what = "post" /\ m \in Listed(s)
  <2>1. Insert(s) /\ s \in Sources /\ Ready(s, m)
    BY <1>2, PostIsReady
  <2>2. Kind[s] \in {"OPENING", "CLASSIFY_ONLY", "DEFICIT"}
    BY <2>1, SourceAssumption
  <2>3. Opened(s, m) # None /\ Opened(s, m).import = s
    <3>1. Opened(s, m) \in BalanceRow
      BY <1>2, <2>1, SourceAssumption DEF Opened, BalanceRow, Listed
    <3> QED BY <3>1, DistinctAssumption DEF Opened
  <2>4. CASE Kind[s] = "OPENING"
    <3>1. balance[m] = None /\ AllocatedTo(m) = {} /\ AddedTo(m) = {}
      BY <1>0, <2>1, <2>4 DEF Ready
    <3> QED BY <1>2, <2>1, <2>3, <2>4, <3>1, OpeningPosts
  <2>5. CASE Kind[s] = "CLASSIFY_ONLY"
    <3>1. balance[m] # None
      BY <2>1, <2>5 DEF Ready, Fits
    <3> QED BY <1>2, <2>1, <2>5, <3>1, ClassifyPosts
  <2>6. CASE Kind[s] = "DEFICIT"
    BY <1>2, <2>1, <2>3, <2>6, DeficitPosts
  <2> QED BY <2>2, <2>4, <2>5, <2>6
<1> QED BY <1>1, <1>2

\* A deficit import that is posted leaves each of its learners with the year's total.
LEMMA SettlesNow ==
    ASSUME RecordInv, NEW s \in Sources, NEW m \in Listed(s), Insert(s), Kind[s] = "DEFICIT", Ready(s, m)
    PROVE  /\ balance'[m] # None
           /\ \A a \in AddedTo(m)' : a.by = s
           /\ balance'[m].points + PointsOf(AddedTo(m)') = Rows[s][m]
<1>1. PICK n \in Nat : n = Rows[s][m]
  BY SourceAssumption DEF Listed
<1>2. m \in Members /\ balance \in [Members -> BalanceRow \cup {None}]
  BY ListedMembers DEF RecordInv, Typed, TypeOK
<1>3. CASE balance[m] = None
  <2>1. balance'[m] = Opened(s, m) /\ AddedTo(m)' = {}
    BY <1>3, DeficitPosts
  <2>2. Opened(s, m) \in BalanceRow /\ Opened(s, m).points = n
    BY <1>1, SourceAssumption DEF Opened, BalanceRow
  <2> QED BY <1>1, <2>1, <2>2, PointsOfNobody, DistinctAssumption
<1>4. CASE balance[m] # None
  <2>1. PICK b \in Nat : b = balance[m].points
    BY <1>2, <1>4 DEF BalanceRow
  <2>2. b = Before(m) /\ b <= n /\ prior[s][m].points = b
    BY <1>1, <1>4, <2>1 DEF Ready, Before
  <2>3. balance'[m] = balance[m] /\ AddedTo(m)' = IF b < n THEN {Surplus(s, m)} ELSE {}
    BY <1>1, <1>4, <2>2, DeficitPosts
  <2>4. Surplus(s, m).points = n - b /\ Surplus(s, m).by = s
    BY <1>1, <2>2 DEF Surplus
  <2>5. CASE b < n
    <3>1. PointsOf({Surplus(s, m)}) = n - b
      BY <2>4, <2>5, PointsOfOne
    <3> QED BY <1>1, <1>4, <2>1, <2>3, <2>4, <2>5, <3>1
  <2>6. CASE ~(b < n)
    <3>1. b = n /\ AddedTo(m)' = {}
      BY <2>2, <2>3, <2>6
    <3> QED BY <1>1, <1>4, <2>1, <2>3, <3>1, PointsOfNobody
  <2> QED BY <2>5, <2>6
<1> QED BY <1>3, <1>4

LEMMA SettledCommit ==
    ASSUME RecordInv, HeaderInv, NEW o \in Ops, Commit(o)
    PROVE  Settled'
<1> DEFINE s == op[o].src
<1> SUFFICES ASSUME NEW q \in Sources, Kind[q] = "DEFICIT", status'[q] = "POSTED", NEW m \in Listed(q)
             PROVE  /\ balance'[m] # None
                    /\ \A a \in AddedTo(m)' : a.by = q
                    /\ balance'[m].points + PointsOf(AddedTo(m)') = Rows[q][m]
  BY DEF Settled
<1>0. m \in Members /\ s \in Sources
  BY ListedMembers, HeadersAfter
<1>1. CASE q = s /\ op[o].what = "post"
  BY <1>1, PostIsReady, SettlesNow
<1>2. CASE ~(q = s /\ op[o].what = "post")
  <2>1. status[q] = "POSTED"
    BY <1>2, HeadersAfter
  <2>2. /\ balance[m] # None /\ \A a \in AddedTo(m) : a.by = q
        /\ balance[m].points + PointsOf(AddedTo(m)) = Rows[q][m]
    BY <2>1 DEF RecordInv, Settled
  <2>3. AllocatedTo(m) # {}
    <3>1. Kind[q] # "OPENING"
      OBVIOUS
    <3>2. \E a \in allocated : a.member = m /\ a.by = q /\ a.points = Rows[q][m]
      BY <2>1, <3>1 DEF RecordInv, WholeImports
    <3> QED BY <3>2 DEF AllocatedTo
  <2>4. balance'[m] = balance[m] /\ AddedTo(m)' = AddedTo(m)
    <3>1. CASE op[o].what # "post" \/ m \notin Listed(s)
      BY <1>0, <3>1, OthersStand
    <3>2. CASE op[o].what = "post" /\ m \in Listed(s)
      <4>1. Insert(s) /\ Ready(s, m)
        BY <3>2, PostIsReady
      <4>2. Kind[s] # "OPENING"
        BY <2>2, <4>1 DEF Ready
      <4>3. Kind[s] # "DEFICIT"
        BY <1>0, <2>3, <3>2, <4>1, DeficitPosts
      <4>4. Kind[s] = "CLASSIFY_ONLY"
        BY <1>0, <4>2, <4>3, SourceAssumption
      <4> QED BY <1>0, <3>2, <4>1, <4>4, ClassifyPosts
    <3> QED BY <3>1, <3>2
  <2> QED BY <2>2, <2>4
<1> QED BY <1>1, <1>2

LEMMA ClassifiedCommit ==
    ASSUME RecordInv, HeaderInv, NEW o \in Ops, Commit(o)
    PROVE  ClassifiedWithinBalance'
<1> DEFINE s == op[o].src
           Of(S, i) == {a \in S : a.opening = i}
<1>0. \A m, i : AllocationsOf(m, i) = Of(AllocatedTo(m), i)
  BY DEF AllocationsOf, AllocatedTo
<1>1. ASSUME NEW m, NEW i, NEW A, A = AllocatedTo(m)'
      PROVE  AllocationsOf(m, i)' = Of(A, i)
  BY <1>1 DEF AllocationsOf, AllocatedTo
<1>2. ASSUME NEW m \in Members, balance'[m] # None, NEW i, i = balance'[m].import, NEW A, A = AllocatedTo(m)'
      PROVE  PointsOf(Of(A, i)) <= balance'[m].points
  <2>1. CASE op[o].what # "post" \/ m \notin Listed(s)
    <3>1. balance'[m] = balance[m] /\ A = AllocatedTo(m)
      BY <1>2, <2>1, OthersStand
    <3> QED BY <1>0, <1>2, <3>1 DEF RecordInv, ClassifiedWithinBalance
  <2>2. CASE op[o].what = "post" /\ m \in Listed(s)
    <3>0. Insert(s) /\ s \in Sources /\ Ready(s, m)
      BY <2>2, PostIsReady
    <3>1. PICK n \in Nat : n = Rows[s][m]
      BY <2>2, <3>0, SourceAssumption DEF Listed
    <3>2. Opened(s, m).points = n /\ Opened(s, m).import = s /\ Share(s, m).points = n
      BY <3>1 DEF Opened, Share
    <3>3. CASE Kind[s] = "OPENING"
      <4>1. A = {} /\ balance'[m] = Opened(s, m)
        BY <1>2, <2>2, <3>0, <3>3, OpeningPosts DEF Ready, RecordInv, Rooted
      <4>2. Of(A, i) = {}
        BY <4>1
      <4> QED BY <3>1, <3>2, <4>1, <4>2, PointsOfNobody
    <3>4. CASE Kind[s] = "CLASSIFY_ONLY"
      <4>1. balance'[m] = balance[m] /\ A = AllocatedTo(m) \cup {Share(s, m)}
        BY <1>2, <2>2, <3>0, <3>4, ClassifyPosts
      <4>2. PICK B : B = AllocationsOf(m, i)
        OBVIOUS
      <4>3. /\ i = prior[s][m].import /\ n + PointsOf(B) <= balance[m].points
            /\ \A a \in B : a.year # Year[s]
        BY <1>2, <3>0, <3>1, <3>4, <4>1, <4>2 DEF Ready, Fits
      <4>4. Share(s, m).opening = i /\ Share(s, m).year = Year[s]
        BY <3>4, <4>3 DEF Share
      <4>5. Of(A, i) = B \cup {Share(s, m)} /\ Share(s, m) \notin B
        BY <1>0, <4>1, <4>2, <4>3, <4>4
      <4>6. IsFiniteSet(B) /\ \A a \in B \cup {Share(s, m)} : a.points \in Nat
        BY <3>2, <4>2, FS_Subset DEF AllocationsOf, RecordInv, Typed, TypeOK
      <4>7. PointsOf(B \cup {Share(s, m)}) = PointsOf(B) + n /\ PointsOf(B) \in Nat
        BY <3>2, <4>5, <4>6, PointsOfGrows, PointsOfNat
      <4>8. PICK k \in Nat : k = PointsOf(B)
        BY <4>7
      <4>9. n + k <= balance'[m].points
        BY <4>1, <4>3, <4>8
      <4>10. PointsOf(Of(A, i)) = PointsOf(B \cup {Share(s, m)})
        BY <4>5
      <4>11. PointsOf(Of(A, i)) = n + k
        BY <4>7, <4>8, <4>10
      <4> QED BY <4>9, <4>11
    <3>5. CASE Kind[s] = "DEFICIT"
      <4>1. A = {Share(s, m)} /\ AllocatedTo(m) = {} /\ Share(s, m).opening = s
        BY <1>2, <2>2, <3>0, <3>5, DeficitPosts DEF Share
      <4>2. CASE balance[m] = None
        <5>1. balance'[m] = Opened(s, m)
          BY <2>2, <3>0, <3>5, <4>2, DeficitPosts
        <5>2. Of(A, i) = {Share(s, m)}
          BY <1>2, <3>2, <4>1, <5>1
        <5> QED BY <3>2, <5>1, <5>2, PointsOfOne
      <4>3. CASE balance[m] # None
        <5>1. balance'[m] = balance[m] /\ balance[m].points \in Nat
          BY <1>2, <2>2, <3>0, <3>5, <4>3, DeficitPosts DEF RecordInv, Typed, TypeOK, BalanceRow
        <5>2. i # s
          BY <1>2, <3>5, <4>1, <5>1 DEF RecordInv, Rooted
        <5>3. Of(A, i) = {}
          BY <4>1, <5>2
        <5> QED BY <5>1, <5>3, PointsOfNobody
      <4> QED BY <4>2, <4>3
    <3> QED BY <3>0, <3>3, <3>4, <3>5, SourceAssumption
  <2> QED BY <2>1, <2>2
<1> SUFFICES ASSUME NEW m \in Members, balance'[m] # None
             PROVE  PointsOf(AllocationsOf(m, balance[m].import))' <= balance'[m].points
  BY DEF ClassifiedWithinBalance
<1>3. PICK i, A : i = balance'[m].import /\ A = AllocatedTo(m)'
  OBVIOUS
<1>4. AllocationsOf(m, i)' = Of(A, i)
  BY <1>1, <1>3
<1>5. PointsOf(Of(A, i)) <= balance'[m].points
  BY <1>2, <1>3
<1> QED BY <1>3, <1>4, <1>5

LEMMA WholeCommit ==
    ASSUME RecordInv, HeaderInv, NEW o \in Ops, Commit(o)
    PROVE  WholeImports'
<1> DEFINE s == op[o].src
<1>0. s \in Sources
  BY HeadersAfter
<1>1. ASSUME NEW q \in Sources, status'[q] = "POSTED", NEW m \in Listed(q)
      PROVE  IF Kind[q] = "OPENING" THEN balance'[m] = Opened(q, m)
             ELSE \E a \in allocated' : a.member = m /\ a.by = q /\ a.points = Rows[q][m]
  <2>0. m \in Members
    BY ListedMembers
  <2>1. CASE q = s /\ op[o].what = "post"
    <3>1. Insert(q) /\ Ready(q, m)
      BY <1>1, <2>1, PostIsReady
    <3>2. CASE Kind[q] = "OPENING"
      BY <1>1, <3>1, <3>2, OpeningPosts
    <3>3. CASE Kind[q] # "OPENING"
      <4>1. Share(q, m) \in allocated'
        BY <1>1, <3>1, <3>3 DEF Insert, NewAllocations, Share
      <4> QED BY <3>3, <4>1 DEF Share
    <3> QED BY <3>2, <3>3
  <2>2. CASE ~(q = s /\ op[o].what = "post")
    <3>1. status[q] = "POSTED"
      BY <1>1, <2>2, HeadersAfter
    <3>2. CASE Kind[q] = "OPENING"
      <4>1. balance[m] = Opened(q, m)
        BY <1>1, <3>1, <3>2 DEF RecordInv, WholeImports, Opened
      <4>2. balance[m] # None
        <5>1. Opened(q, m) \in BalanceRow
          BY <1>1, SourceAssumption DEF Opened, BalanceRow, Listed
        <5> QED BY <4>1, <5>1, DistinctAssumption
      <4>3. balance'[m] = balance[m]
        <5>1. CASE op[o].what # "post" \/ m \notin Listed(s)
          BY <2>0, <5>1, OthersStand
        <5>2. CASE op[o].what = "post" /\ m \in Listed(s)
          <6>1. Insert(s) /\ Ready(s, m)
            BY <5>2, PostIsReady
          <6>2. Kind[s] # "OPENING"
            BY <4>2, <6>1 DEF Ready
          <6>3. Kind[s] = "DEFICIT" \/ Kind[s] = "CLASSIFY_ONLY"
            BY <1>0, <6>2, SourceAssumption
          <6> QED BY <1>0, <4>2, <5>2, <6>1, <6>3, ClassifyPosts, DeficitPosts
        <5> QED BY <5>1, <5>2
      <4> QED BY <3>2, <4>1, <4>3
    <3>3. CASE Kind[q] # "OPENING"
      <4>1. \E a \in allocated : a.member = m /\ a.by = q /\ a.points = Rows[q][m]
        BY <1>1, <3>1, <3>3 DEF RecordInv, WholeImports
      <4>2. allocated \subseteq allocated'
        BY DEF Commit, Insert
      <4> QED BY <3>3, <4>1, <4>2
    <3> QED BY <3>2, <3>3
  <2> QED BY <2>1, <2>2
<1>2. ASSUME NEW q \in Sources, status'[q] \in {"NONE", "PENDING_APPROVAL"}
      PROVE  /\ \A m \in Members : balance'[m] # None => balance'[m].import # q
             /\ \A a \in allocated' : a.by # q
  <2>1. status[q] \in {"NONE", "PENDING_APPROVAL"}
    BY <1>2, HeadersAfter
  <2>2. (\A m \in Members : balance[m] # None => balance[m].import # q) /\ \A a \in allocated : a.by # q
    BY <1>2, <2>1 DEF RecordInv, WholeImports
  <2>3. op[o].what = "post" => s # q
    BY <2>1, HeadersAfter DEF RecordInv, Begun
  <2>4. CASE op[o].what = "post"
    <3>1. Insert(s)
      BY <2>4, PostIsReady
    <3>2. \A m \in Members : balance'[m] = balance[m] \/ balance'[m] = Opened(s, m)
      BY <3>1 DEF Insert, NewBalances, Opened
    <3>3. \A a \in NewAllocations(s) : a.by = s
      BY DEF NewAllocations
    <3>4. allocated' \subseteq allocated \cup NewAllocations(s)
      BY <3>1 DEF Insert
    <3>5. \A m \in Members : Opened(s, m).import = s
      BY DEF Opened
    <3> QED BY <2>2, <2>3, <2>4, <3>2, <3>3, <3>4, <3>5
  <2>5. CASE op[o].what # "post"
    BY <2>2, <2>5 DEF Commit
  <2> QED BY <2>4, <2>5
<1> QED BY <1>1, <1>2 DEF WholeImports, Opened

LEMMA RecordCommit ==
    ASSUME RecordInv, HeaderInv, Apart, NEW o \in Ops, Commit(o)
    PROVE  RecordInv'
BY TypedCommit, BegunCommit, ReadyCommit, RootedCommit, SettledCommit, WholeCommit, ClassifiedCommit DEF RecordInv

LEMMA RecordNext == RecordInv /\ LedgerInv /\ HeaderInv /\ [Next]_vars => RecordInv'
<1>1. ASSUME RecordInv, LedgerInv, HeaderInv, Next PROVE RecordInv'
  <2>1. Shape /\ Apart
    BY <1>1 DEF LedgerInv
  <2>2. ASSUME NEW o \in Ops,
               \/ \E what \in {"register", "approve", "post", "cancel"}, s \in Sources : Begin(o, what, s)
               \/ Check(o) \/ Write(o) \/ Abort(o)
        PROVE  RecordInv'
    BY <1>1, <2>1, <2>2, RecordRequestSteps
  <2>3. ASSUME NEW o \in Ops, Commit(o) PROVE RecordInv'
    BY <1>1, <2>1, <2>3, RecordCommit
  <2>4. ASSUME NEW w \in Writers,
               \/ \E m \in Members, d \in Dates : BatchGuard(w, m, d) \/ ConfirmRead(w, m, d)
               \/ ConfirmGuard(w) \/ PostRegular(w) \/ GiveUp(w)
        PROVE  RecordInv'
    BY <1>1, <2>1, <2>4, RecordWriterSteps
  <2> QED BY <1>1, <2>2, <2>3, <2>4 DEF Next, Writers
<1>2. ASSUME RecordInv, UNCHANGED vars PROVE RecordInv'
  <2>1. UNCHANGED <<status, deficit, prior, balance, added, allocated, progress, entries, op, writer>>
    BY <1>2 DEF vars
  <2>2. Typed' /\ Begun'
    BY <1>2, <2>1 DEF RecordInv, Typed, TypeOK, Begun
  <2>3. PostsReady'
    BY <1>2, <2>1 DEF RecordInv, PostsReady, Ready, Fits, AllocationsOf, Before
  <2> QED BY <1>2, <2>1, <2>2, <2>3, RecordsStand DEF RecordInv
<1> QED BY <1>1, <1>2

\* The adjustments that count of a posted deficit import's learner are all that were ever added.
LEMMA TotalsFollow == RecordInv /\ HeaderInv => TotalsReconciled
<1> SUFFICES ASSUME RecordInv, HeaderInv, NEW s \in Sources, Kind[s] = "DEFICIT", status[s] = "POSTED",
                    NEW m \in Listed(s)
             PROVE  OpeningTotal(m) = Rows[s][m]
  BY DEF TotalsReconciled
<1>1. /\ balance[m] # None /\ \A a \in AddedTo(m) : a.by = s
      /\ balance[m].points + PointsOf(AddedTo(m)) = Rows[s][m]
  BY DEF RecordInv, Settled
<1>2. deficit[s] = "POSTED"
  BY DEF HeaderInv, HeadersInStep
<1>3. Confirmed(m) = AddedTo(m)
  BY <1>1, <1>2 DEF Confirmed, AddedTo
<1> QED BY <1>1, <1>3 DEF OpeningTotal

\* Posted imports have taken effect for all of their learners, a posted deficit import has brought
\* each of them to exactly the year's total, and no balance is classified beyond its points:
\* whichever imports of the same learners are registered, approved, posted or cancelled at once,
\* with the named lock released before the commit.
THEOREM ImportsAreSafe == Spec => []ImportsSafe
<1>1. RecordInv /\ HeaderInv => ImportsSafe
  BY TotalsFollow DEF RecordInv, Typed, ImportsSafe
<1>2. Init => RecordInv /\ LedgerInv /\ HeaderInv
  BY RecordInit, LedgerInit, HeaderInit
<1>3. RecordInv /\ LedgerInv /\ HeaderInv /\ [Next]_vars => (RecordInv /\ LedgerInv /\ HeaderInv)'
  BY RecordNext, LedgerNext, HeaderNext
<1> QED BY <1>1, <1>2, <1>3, PTL DEF Spec

\* A balance is a row of its import, and who was added to was so once, up to the total of the import that did.
Opens(s, m) == s \in Sources /\ m \in Listed(s) /\ Kind[s] # "CLASSIFY_ONLY"
Completes(a, m) == Opens(a.by, m) /\ balance[m] # None /\ Before(m) + a.points = Rows[a.by][m]
Stated(m) ==
    /\ balance[m] # None => Opens(balance[m].import, m) /\ balance[m] = Opened(balance[m].import, m)
    /\ AddedTo(m) = {} \/ \E a : AddedTo(m) = {a} /\ Completes(a, m)
StatedInv == \A m \in Members : Stated(m)

LEMMA StatedStands ==
    ASSUME NEW m, Stated(m), balance'[m] = balance[m], AddedTo(m)' = AddedTo(m)
    PROVE  Stated(m)'
<1>1. Before(m)' = Before(m)
  BY DEF Before
<1>2. \A a : Completes(a, m) => Completes(a, m)'
  BY <1>1 DEF Completes, Opens
<1> QED BY <1>2 DEF Stated, Opens, Opened

LEMMA StatedCommit ==
    ASSUME RecordInv, HeaderInv, StatedInv, NEW o \in Ops, Commit(o)
    PROVE  StatedInv'
<1> DEFINE s == op[o].src
<1> SUFFICES ASSUME NEW m \in Members PROVE Stated(m)'
  BY DEF StatedInv
<1>0. Stated(m) /\ s \in Sources
  BY HeadersAfter DEF StatedInv
<1>1. CASE op[o].what # "post" \/ m \notin Listed(s)
  <2>1. balance'[m] = balance[m] /\ AddedTo(m)' = AddedTo(m)
    BY <1>1, OthersStand
  <2> QED BY <1>0, <2>1, StatedStands
<1>2. CASE op[o].what = "post" /\ m \in Listed(s)
  <2>0. Insert(s) /\ Ready(s, m)
    BY <1>2, PostIsReady
  <2>1. CASE Kind[s] = "CLASSIFY_ONLY"
    <3>1. balance'[m] = balance[m] /\ AddedTo(m)' = AddedTo(m)
      BY <1>0, <1>2, <2>0, <2>1, ClassifyPosts
    <3> QED BY <1>0, <3>1, StatedStands
  <2>2. ASSUME balance'[m] = Opened(s, m), AddedTo(m)' = {}, Kind[s] # "CLASSIFY_ONLY"
        PROVE  Stated(m)'
    <3>1. balance'[m].import = s
      BY <2>2 DEF Opened
    <3>2. Opens(s, m)
      BY <1>0, <1>2, <2>2 DEF Opens
    <3>3. balance'[m] # None => Opens(balance'[m].import, m) /\ balance'[m] = Opened(balance'[m].import, m)
      BY <2>2, <3>1, <3>2
    <3> QED BY <2>2, <3>3 DEF Stated, Opens, Opened
  <2>3. CASE Kind[s] = "OPENING"
    <3>1. AddedTo(m) = {}
      BY <2>0, <2>3 DEF Ready, RecordInv, Rooted
    <3>2. balance'[m] = Opened(s, m) /\ AddedTo(m)' = AddedTo(m)
      BY <1>0, <1>2, <2>0, <2>3, OpeningPosts
    <3> QED BY <2>2, <2>3, <3>1, <3>2
  <2>4. CASE Kind[s] = "DEFICIT"
    <3>1. IF balance[m] = None THEN balance'[m] = Opened(s, m) /\ AddedTo(m)' = {}
          ELSE /\ balance'[m] = balance[m]
               /\ AddedTo(m)' = IF Before(m) < Rows[s][m] THEN {Surplus(s, m)} ELSE {}
      BY <1>0, <1>2, <2>0, <2>4, DeficitPosts
    <3>2. CASE balance[m] = None
      BY <2>2, <2>4, <3>1, <3>2
    <3>3. CASE balance[m] # None
      <4>1. balance'[m] = balance[m] /\ Before(m)' = Before(m)
        BY <3>1, <3>3 DEF Before
      <4>2. Before(m) \in Nat /\ Rows[s][m] \in Nat /\ prior[s][m].points = Before(m)
        BY <1>0, <1>2, <2>0, <2>4, SourceAssumption DEF RecordInv, Typed, TypeOK, Before, BalanceRow, Listed, Ready
      <4>3. Surplus(s, m).by = s /\ Before(m) + Surplus(s, m).points = Rows[s][m]
        BY <4>2 DEF Surplus
      <4>4. PICK x : x = Surplus(s, m)
        OBVIOUS
      <4>5. Completes(x, m)'
        BY <1>0, <1>2, <2>4, <3>3, <4>1, <4>3, <4>4 DEF Completes, Opens
      <4>6. AddedTo(m)' = {} \/ AddedTo(m)' = {x}
        BY <3>1, <3>3, <4>4
      <4> QED BY <1>0, <4>1, <4>5, <4>6 DEF Stated, Opens, Opened
    <3> QED BY <3>2, <3>3
  <2> QED BY <1>0, <2>1, <2>3, <2>4, SourceAssumption
<1> QED BY <1>1, <1>2

LEMMA StatedNext == RecordInv /\ LedgerInv /\ HeaderInv /\ StatedInv /\ [Next]_vars => StatedInv'
<1>1. ASSUME StatedInv, UNCHANGED <<balance, added>> PROVE StatedInv'
  <2> SUFFICES ASSUME NEW m \in Members PROVE Stated(m)'
    BY DEF StatedInv
  <2>1. Stated(m) /\ balance'[m] = balance[m] /\ AddedTo(m)' = AddedTo(m)
    BY <1>1 DEF StatedInv, AddedTo
  <2> QED BY <2>1, StatedStands
<1>2. ASSUME NEW o \in Ops, \A p \in Ops : ~Commit(p),
             \/ \E what \in {"register", "approve", "post", "cancel"}, s \in Sources : Begin(o, what, s)
             \/ Check(o) \/ Write(o) \/ Abort(o)
      PROVE  UNCHANGED <<balance, added>>
  BY <1>2 DEF Begin, Check, Write, Abort, stored
<1>3. ASSUME NEW w \in Writers,
             \/ \E m \in Members, d \in Dates : BatchGuard(w, m, d) \/ ConfirmRead(w, m, d)
             \/ ConfirmGuard(w) \/ PostRegular(w) \/ GiveUp(w)
      PROVE  UNCHANGED <<balance, added>>
  BY <1>3 DEF BatchGuard, ConfirmRead, ConfirmGuard, PostRegular, GiveUp, stored
<1>4. UNCHANGED vars => UNCHANGED <<balance, added>>
  BY DEF vars
<1> QED BY <1>1, <1>2, <1>3, <1>4, StatedCommit DEF Next, Writers

\* Adjustments count all or not at all: there is one, and its import is posted or not.
LEMMA TotalsAre == RecordInv /\ StatedInv => TotalsStated
<1> SUFFICES ASSUME RecordInv, StatedInv, NEW m \in Members, OpeningTotal(m) # 0
             PROVE  \E s \in Sources :
                      /\ m \in Listed(s) /\ Kind[s] # "CLASSIFY_ONLY" /\ OpeningTotal(m) = Rows[s][m]
                      /\ status[s] \notin {"NONE", "PENDING_APPROVAL"}
  BY DEF TotalsStated
<1>1. Stated(m)
  BY DEF StatedInv
<1>2. OpeningTotal(m) = Before(m) + PointsOf(Confirmed(m)) /\ Confirmed(m) \subseteq AddedTo(m)
  BY DEF OpeningTotal, Before, Confirmed, AddedTo
<1>3. Before(m) \in Nat /\ \A a \in AddedTo(m) : a.points \in Nat
  BY DEF RecordInv, Typed, TypeOK, Before, BalanceRow, AddedTo
<1>4. CASE Confirmed(m) = {}
  <2>1. OpeningTotal(m) = Before(m) /\ balance[m] # None
    BY <1>2, <1>3, <1>4, PointsOfNobody DEF Before
  <2>2. PICK s : s = balance[m].import
    OBVIOUS
  <2>3. Opens(s, m) /\ balance[m] = Opened(s, m)
    BY <1>1, <2>1, <2>2 DEF Stated
  <2>4. OpeningTotal(m) = Rows[s][m]
    BY <2>1, <2>3 DEF Before, Opened
  <2>5. status[s] \notin {"NONE", "PENDING_APPROVAL"}
    BY <2>1, <2>2, <2>3 DEF RecordInv, WholeImports, Opens
  <2> QED BY <2>3, <2>4, <2>5 DEF Opens
<1>5. ASSUME NEW a \in Confirmed(m)
      PROVE  /\ Opens(a.by, m) /\ OpeningTotal(m) = Rows[a.by][m]
             /\ status[a.by] \notin {"NONE", "PENDING_APPROVAL"}
  <2>1. AddedTo(m) = {a} /\ Completes(a, m)
    BY <1>1, <1>2, <1>5 DEF Stated
  <2>2. Confirmed(m) = {a} /\ a.points \in Nat
    BY <1>2, <1>3, <1>5, <2>1
  <2>3. PointsOf(Confirmed(m)) = a.points
    BY <2>2, PointsOfOne
  <2>4. status[a.by] = "POSTED"
    BY <1>5 DEF Confirmed
  <2> QED BY <1>2, <2>1, <2>3, <2>4 DEF Completes
<1> QED BY <1>4, <1>5 DEF Opens

\* What a learner is shown as confirmed is always the figure of one approved file, whichever requests overlap: an import
\* adds to a balance at most once and exactly what it lacked, and what it added counts as a whole or not at all.
THEOREM TotalsAreStated == Spec => []TotalsStated
<1>1. Init => RecordInv /\ LedgerInv /\ HeaderInv /\ StatedInv
  BY RecordInit, LedgerInit, HeaderInit DEF Init, StatedInv, Stated, AddedTo
<1>2. RecordInv /\ LedgerInv /\ HeaderInv /\ StatedInv /\ [Next]_vars => (RecordInv /\ LedgerInv /\ HeaderInv /\ StatedInv)'
  BY RecordNext, LedgerNext, HeaderNext, StatedNext
<1> QED BY <1>1, <1>2, TotalsAre, PTL DEF Spec

(***************************************************************************)
(* MemberRelations: record, relations, tree and posts agree.               *)
(***************************************************************************)
AtMostOne(S) == \A x, y \in S : x = y

LEMMA OneAtMost == ASSUME NEW S, AtMostOne(S) PROVE Cardinality(S) <= 1 /\ \A x \in S : Only(S) = x
<1>1. CASE S = {}
  BY <1>1, FS_EmptySet
<1>2. ASSUME NEW x \in S
      PROVE  Cardinality(S) <= 1 /\ Only(S) = x
  <2>1. S = {x}
    BY <1>2 DEF AtMostOne
  <2>2. Cardinality(S) = 1
    BY <2>1, FS_Singleton
  <2> QED BY <2>1, <2>2 DEF Only
<1> QED BY <1>1, <1>2

LEMMA FewAreOne == ASSUME NEW S, IsFiniteSet(S), Cardinality(S) <= 1 PROVE AtMostOne(S)
<1> SUFFICES ASSUME NEW x \in S, NEW y \in S, x # y PROVE FALSE
  BY DEF AtMostOne
<1>1. IsFiniteSet({x}) /\ Cardinality({x}) = 1
  BY FS_Singleton
<1>2. Cardinality({x} \cup {y}) = 2 /\ IsFiniteSet({x} \cup {y})
  <2>1. Cardinality({x} \cup {y}) = Cardinality({x}) + 1 /\ IsFiniteSet({x} \cup {y})
    BY <1>1, FS_AddElement
  <2> QED BY <1>1, <2>1
<1>3. Cardinality({x} \cup {y}) <= Cardinality(S)
  <2>1. {x} \cup {y} \subseteq S
    OBVIOUS
  <2> QED BY <2>1, FS_Subset
<1>4. Cardinality(S) \in Nat
  BY FS_CardinalityType
<1> QED BY <1>2, <1>3, <1>4

\* Who is in service has the centre of the record among its relations; who is not, has left; and no relation is to
\* a class or group that was never created.
LearnerOK(s) ==
    /\ s.active => s.center \in s.region
    /\ ~s.active => s.left
    /\ \A u \in s.home : unit[u] # "NONE"

\* What Aligned says of a learner.
InPlace(s) ==
    /\ s.region = {s.center}
    /\ AtMostOne(s.home \cap Classes) /\ AtMostOne(s.home \cap Groups)
    /\ \A g \in s.home \cap Groups : ClassOf[g] \in s.home
    /\ \A k \in s.home \cap Classes \cap Open : parent[k] = s.center
    /\ ~s.left => s.home \subseteq Open

\* A post that stayed in force is of a learner in service, and for an organisation of the learner if it was set with
\* the record.
PostOK(p, s) ==
    /\ p.status # "ACTIVE" => p.loose
    /\ ~p.loose => s # None /\ s.active
    /\ p.kind = "current" /\ ~p.loose => p.org \in Scopes(p.level, s)

LearnersInv == \A w \in Students : student[w] # None => LearnerOK(student[w]) /\ (w \notin merged => InPlace(student[w]))
PostsInv == \A i \in PostIds : post[i] # None => PostOK(post[i], student[post[i].who])
RelationInv == RelTypeOK /\ LearnersInv /\ PostsInv

LEMMA RelationBegins == RelationInit => RelationInv
<1> SUFFICES ASSUME RelationInit PROVE RelationInv
  OBVIOUS
<1>1. RelTypeOK
  BY DEF RelationInit, RelTypeOK
<1> QED BY <1>1 DEF RelationInit, RelationInv, LearnersInv, PostsInv

LEMMA RelationIsSafe == RelationInv => RelationsSafe
<1> SUFFICES ASSUME RelationInv PROVE RelationsSafe
  OBVIOUS
<1>1. RelTypeOK
  BY DEF RelationInv
<1>2. Aligned
  <2> SUFFICES ASSUME NEW w \in Students \ merged, student[w] # None, NEW s, s = student[w]
               PROVE  /\ s.region = {s.center}
                      /\ Cardinality(s.home \cap Classes) <= 1 /\ Cardinality(s.home \cap Groups) <= 1
                      /\ \A g \in s.home \cap Groups : ClassOf[g] \in s.home
                      /\ \A k \in s.home \cap Classes \cap Open : parent[k] = s.center
                      /\ ~s.left => s.home \subseteq Open
    BY DEF Aligned
  <2>1. InPlace(s)
    BY DEF RelationInv, LearnersInv
  <2> QED BY <2>1, OneAtMost DEF InPlace
<1>3. PostFollows
  BY DEF RelationInv, PostsInv, PostOK, PostFollows
<1> QED BY <1>1, <1>2, <1>3 DEF RelationsSafe

LEMMA ScopesAreUnits == ASSUME NEW s \in Learners, NEW level \in Levels PROVE Scopes(level, s) \subseteq Centers \cup Units
<1>1. ClassIn(s.home) = None \/ ClassIn(s.home) \in s.home
  BY OnlyIsOne DEF ClassIn
<1>2. GroupIn(s.home) = None \/ GroupIn(s.home) \in s.home
  BY OnlyIsOne DEF GroupIn
<1> QED BY <1>1, <1>2 DEF Scopes, Learners, Levels

\* While units stand, what an organisation's scopes are depends on the learner's record alone.
LEMMA ScopesStand ==
    ASSUME UNCHANGED unit, NEW s, NEW level, NEW home
    PROVE  Scopes(level, s)' = Scopes(level, s) /\ ClassIn(home)' = ClassIn(home) /\ GroupIn(home)' = GroupIn(home)
<1>1. \A h : ClassIn(h)' = ClassIn(h)
  BY DEF ClassIn, Open
<1>2. \A h : GroupIn(h)' = GroupIn(h)
  BY <1>1 DEF GroupIn, Open
<1> QED BY <1>1, <1>2 DEF Scopes

LEMMA PostsStand == ASSUME UNCHANGED unit, NEW p, NEW s PROVE PostOK(p, s)' <=> PostOK(p, s)
BY ScopesStand DEF PostOK

(***************************************************************************)
(* The learner's record.                                                   *)
(***************************************************************************)
\* What the relations of a learner become who is edited: the class and the group that were admitted.
Rehomed(s, home, c) ==
    AtMostOne(s.home \cap Classes) /\ AtMostOne(s.home \cap Groups) /\ (\A g \in s.home \cap Groups : ClassOf[g] \in s.home)
        => /\ AtMostOne(home \cap Classes) /\ AtMostOne(home \cap Groups)
           /\ \A g \in home \cap Groups : ClassOf[g] \in home
           /\ \A k \in home \cap Classes \cap Open : parent[k] = c
           /\ s.home \subseteq Open => home \subseteq Open
PlacedWell(s, c, cls, grp) ==
    \E home \in SUBSET Units :
        /\ Placed(s, cls, grp) = [s EXCEPT !.home = home]
        /\ \A u \in home : unit[u] # "NONE"
        /\ cls = "KEEP" /\ grp = "KEEP" => home = s.home
        /\ Rehomed(s, home, c)
LEMMA HomeAfter ==
    ASSUME RelationInv, NEW s \in Learners, LearnerOK(s), NEW c \in Centers,
           NEW cls \in Classes \cup {None, "KEEP"}, NEW grp \in Groups \cup {None, "KEEP"},
           Admissible(c, TargetClass(s, cls), TargetGroup(s, cls, grp))
    PROVE  PlacedWell(s, c, cls, grp)
<1> PICK home : home = Placed(s, cls, grp).home
  OBVIOUS
<1>0. /\ Classes \cap Groups = {} /\ None \notin Classes \cup Groups /\ "KEEP" \notin Classes \cup Groups /\ "KEEP" # None
      /\ s.home \subseteq Units /\ \A u \in s.home : unit[u] # "NONE"
  BY UnitAssumption, RelationAssumption DEF Units, Learners, LearnerOK
<1>1. \A u \in Open : u \in Units /\ unit[u] # "NONE"
  BY DEF Open
<1>2. PICK k, g : k = TargetClass(s, cls) /\ g = TargetGroup(s, cls, grp)
  OBVIOUS
<1>3. /\ k # None => k \in Open /\ parent[k] = c
      /\ g # None => g \in Open /\ k # None /\ ClassOf[g] = k
  BY <1>2 DEF Admissible
<1>4. ClassIn(s.home) = None \/ ClassIn(s.home) \in s.home \cap Classes \cap Open
  BY OnlyIsOne DEF ClassIn
<1>5. AtMostOne(s.home \cap Classes) => \A x \in s.home \cap Classes \cap Open : ClassIn(s.home) = x
  BY OneAtMost DEF ClassIn, AtMostOne
<1>6. CASE cls # "KEEP"
  <2>1. k = cls /\ k \in Classes \cup {None} /\ g \in Groups \cup {None}
    BY <1>2, <1>6 DEF TargetClass, TargetGroup
  <2>2. home = {k, g} \ {None} /\ Placed(s, cls, grp) = [s EXCEPT !.home = home]
    BY <1>2, <1>6 DEF Placed, Joins, Learners
  <2>3. home \subseteq Open /\ home \cap Classes \subseteq {k} /\ home \cap Groups \subseteq {g}
    BY <1>0, <1>3, <2>1, <2>2
  <2>4. AtMostOne(home \cap Classes) /\ AtMostOne(home \cap Groups)
    BY <2>3 DEF AtMostOne
  <2>5. \A x \in home \cap Groups : ClassOf[x] \in home
    BY <1>0, <1>3, <2>2, <2>3
  <2>6. \A x \in home \cap Classes \cap Open : parent[x] = c
    BY <1>3, <1>0, <2>3
  <2> QED BY <1>0, <1>1, <1>6, <2>2, <2>3, <2>4, <2>5, <2>6 DEF PlacedWell, Rehomed, Open
<1>7. CASE cls = "KEEP" /\ grp # "KEEP"
  <2>1. k = ClassIn(s.home) /\ g = grp /\ g \in Groups \cup {None}
    BY <1>2, <1>7 DEF TargetClass, TargetGroup
  <2>2. home = ((s.home \ Groups) \cup {g}) \ {None} /\ Placed(s, cls, grp) = [s EXCEPT !.home = home]
    BY <1>2, <1>7, <2>1 DEF Placed, Joins, Learners
  <2>3. home \cap Classes = s.home \cap Classes /\ home \cap Groups \subseteq {g}
    BY <1>0, <2>1, <2>2
  <2>4. home \subseteq Units /\ \A u \in home : unit[u] # "NONE"
    BY <1>0, <1>1, <1>3, <2>2
  <2>5. ASSUME AtMostOne(s.home \cap Classes)
        PROVE  /\ AtMostOne(home \cap Classes) /\ AtMostOne(home \cap Groups)
               /\ \A x \in home \cap Groups : ClassOf[x] \in home
               /\ \A x \in home \cap Classes \cap Open : parent[x] = c
    <3>1. AtMostOne(home \cap Groups)
      BY <2>3 DEF AtMostOne
    <3>2. \A x \in home \cap Groups : ClassOf[x] \in home
      BY <1>0, <1>3, <1>4, <2>1, <2>2, <2>3
    <3>3. \A x \in home \cap Classes \cap Open : parent[x] = c
      BY <1>0, <1>3, <1>5, <2>1, <2>3, <2>5
    <3> QED BY <2>3, <2>5, <3>1, <3>2, <3>3
  <2>6. s.home \subseteq Open => home \subseteq Open
    BY <1>0, <1>3, <2>1, <2>2
  <2> QED BY <1>7, <2>2, <2>4, <2>5, <2>6 DEF PlacedWell, Rehomed
<1>8. CASE cls = "KEEP" /\ grp = "KEEP"
  <2>1. home = s.home /\ Placed(s, cls, grp) = [s EXCEPT !.home = home] /\ k = ClassIn(s.home)
    BY <1>2, <1>8 DEF Placed, TargetClass, Learners
  <2>2. AtMostOne(s.home \cap Classes) => \A x \in home \cap Classes \cap Open : parent[x] = c
    BY <1>0, <1>3, <1>5, <2>1
  <2> QED BY <1>0, <2>1, <2>2 DEF PlacedWell, Rehomed
<1> QED BY <1>6, <1>7, <1>8

LEMMA RegionAfter ==
    ASSUME NEW s \in Learners, NEW c \in Centers, NEW region \in Regions(s, c) \cup MovedRegions(s, c)
    PROVE  /\ region \subseteq Centers /\ c \in region
           /\ s.region = {s.center} => region = {c}
           /\ region \in Regions(s, c) /\ c \in s.region => region = s.region
<1>1. s.region \subseteq Centers
  BY DEF Learners
<1> QED BY <1>1 DEF Regions, MovedRegions

\* Whoever is edited is in place if they were; and an edit that keeps centre, class and group keeps every scope of
\* a learner in service.
LEMMA EditedWell ==
    ASSUME RelationInv, NEW s \in Learners, LearnerOK(s), NEW c \in Centers,
           NEW cls \in Classes \cup {None, "KEEP"}, NEW grp \in Groups \cup {None, "KEEP"},
           Admissible(c, TargetClass(s, cls), TargetGroup(s, cls, grp)),
           NEW region \in Regions(s, c), NEW on \in BOOLEAN, NEW new, new = EditedRecord(s, c, cls, grp, region, on)
    PROVE  /\ new \in Learners /\ new.active = on /\ LearnerOK(new) /\ (InPlace(s) => InPlace(new))
           /\ s.active /\ c = s.center /\ cls = "KEEP" /\ grp = "KEEP" => \A level : Scopes(level, new) = Scopes(level, s)
<1>2. PlacedWell(s, c, cls, grp)
  BY HomeAfter
<1>3. PICK home \in SUBSET Units :
          /\ Placed(s, cls, grp) = [s EXCEPT !.home = home]
          /\ \A u \in home : unit[u] # "NONE"
          /\ cls = "KEEP" /\ grp = "KEEP" => home = s.home
          /\ Rehomed(s, home, c)
  BY <1>2 DEF PlacedWell
<1>4. /\ region \subseteq Centers /\ c \in region /\ (s.region = {s.center} => region = {c})
      /\ c \in s.region => region = s.region
  BY RegionAfter
<1>5. PICK left \in BOOLEAN : left <=> s.left \/ ~on
  OBVIOUS
<1>6. new = [active |-> on, center |-> c, region |-> region, home |-> home, left |-> left]
  BY <1>3, <1>5 DEF EditedRecord, Learners
<1>7. new \in Learners /\ new.active = on /\ new.center = c /\ new.region = region /\ new.home = home /\ new.left = left
  BY <1>3, <1>4, <1>6 DEF Learners
<1>8. LearnerOK(new)
  BY <1>3, <1>4, <1>5, <1>7 DEF LearnerOK
<1>9. ASSUME InPlace(s) PROVE InPlace(new)
  <2>1. /\ AtMostOne(s.home \cap Classes) /\ AtMostOne(s.home \cap Groups)
        /\ \A g \in s.home \cap Groups : ClassOf[g] \in s.home
    BY <1>9 DEF InPlace
  <2>2. /\ AtMostOne(home \cap Classes) /\ AtMostOne(home \cap Groups)
        /\ \A g \in home \cap Groups : ClassOf[g] \in home
        /\ \A k \in home \cap Classes \cap Open : parent[k] = c
        /\ s.home \subseteq Open => home \subseteq Open
    BY <1>3, <2>1 DEF Rehomed
  <2>3. s.region = {s.center} /\ (~s.left => s.home \subseteq Open)
    BY <1>9 DEF InPlace
  <2> QED BY <1>4, <1>5, <1>7, <2>2, <2>3 DEF InPlace
<1>10. ASSUME s.active, c = s.center, cls = "KEEP", grp = "KEEP"
       PROVE  \A level : Scopes(level, new) = Scopes(level, s)
  <2>1. home = s.home /\ region = s.region
    BY <1>3, <1>4, <1>10 DEF LearnerOK
  <2> QED BY <1>7, <1>10, <2>1 DEF Scopes
<1> QED BY <1>7, <1>8, <1>9, <1>10

(***************************************************************************)
(* The posts.                                                              *)
(***************************************************************************)
\* Only posts of w are touched.
PostsKept(w, np) ==
    /\ np \in [PostIds -> Appointments \cup {None}]
    /\ \A i \in PostIds : np[i] # None /\ np[i].who # w => np[i] = post[i]
PostsOf(w, s, np) == \A i \in PostIds : np[i] # None /\ np[i].who = w => PostOK(np[i], s)
\* A post out of force is loose.
OutIsLoose(w) == \A i \in Posts(w) : post[i].status # "ACTIVE" => post[i].loose

LEMMA SentWell ==
    ASSUME RelTypeOK, NEW w \in Students, NEW s \in Learners, OutIsLoose(w), NEW to, Syncs(w, s, to)
    PROVE  PostsKept(w, Sent(w, s, to)) /\ (s.active => PostsOf(w, s, Sent(w, s, to)))
<1>1. \A i \in Followers(w, s) : /\ i \in Posts(w) /\ s.active /\ post[i].status = "ACTIVE"
                                 /\ to \in Scopes(post[i].level, s) /\ to \in Centers \cup Units
  <2> SUFFICES ASSUME NEW i \in Followers(w, s)
               PROVE  /\ i \in Posts(w) /\ s.active /\ post[i].status = "ACTIVE"
                      /\ to \in Scopes(post[i].level, s) /\ to \in Centers \cup Units
    OBVIOUS
  <2>1. i \in Posts(w) /\ s.active /\ post[i].status = "ACTIVE"
    BY DEF Followers, Plain, InForce
  <2>2. to \in Scopes(post[i].level, s)
    BY DEF Syncs
  <2>3. post[i].level \in Levels
    BY <2>1 DEF RelTypeOK, Posts, Appointments
  <2> QED BY <2>1, <2>2, <2>3, ScopesAreUnits
<1>2. PICK np : np = Sent(w, s, to)
  OBVIOUS
<1>3. \A i \in PostIds : np[i] = IF i \in Followers(w, s) THEN [post[i] EXCEPT !.org = to] ELSE post[i]
  BY <1>2 DEF Sent
<1>4. \A i \in Followers(w, s) :
          /\ [post[i] EXCEPT !.org = to] \in Appointments /\ [post[i] EXCEPT !.org = to].who = w
          /\ s.active => PostOK([post[i] EXCEPT !.org = to], s)
  <2> SUFFICES ASSUME NEW i \in Followers(w, s), NEW p, p = [post[i] EXCEPT !.org = to]
               PROVE  p \in Appointments /\ p.who = w /\ (s.active => PostOK(p, s))
    OBVIOUS
  <2>1. i \in PostIds /\ post[i] \in Appointments /\ post[i].who = w
    BY <1>1 DEF Posts, RelTypeOK
  <2>2. p \in Appointments /\ p.who = w /\ p.org = to /\ p.level = post[i].level /\ p.status = "ACTIVE"
    BY <1>1, <2>1 DEF Appointments
  <2> QED BY <1>1, <2>2, RelationAssumption DEF PostOK, Learners
<1>5. np \in [PostIds -> Appointments \cup {None}]
  BY <1>2, <1>3, <1>4 DEF Sent, RelTypeOK
<1>6. \A i \in PostIds : np[i] # None /\ np[i].who # w => np[i] = post[i]
  BY <1>3, <1>4
<1>7. ASSUME s.active PROVE PostsOf(w, s, np)
  <2> SUFFICES ASSUME NEW i \in PostIds, np[i] # None, np[i].who = w
               PROVE  PostOK(np[i], s)
    BY DEF PostsOf
  <2>1. CASE i \in Followers(w, s)
    BY <1>3, <1>4, <1>7, <2>1
  <2>2. CASE i \notin Followers(w, s)
    <3>1. np[i] = post[i] /\ i \in Posts(w) /\ post[i] \in Appointments
      BY <1>3, <2>2 DEF Posts, RelTypeOK
    <3>2. post[i].kind = "current" => post[i].status # "ACTIVE"
      BY <1>7, <2>2, <3>1 DEF Followers, Plain, InForce, Managed
    <3> QED BY <1>7, <3>1, <3>2, RelationAssumption DEF PostOK, OutIsLoose, Learners, Appointments
  <2> QED BY <2>1, <2>2
<1> QED BY <1>2, <1>5, <1>6, <1>7 DEF PostsKept

LEMMA PositionWell ==
    ASSUME RelTypeOK, NEW w \in Students, NEW s \in Learners, OutIsLoose(w),
           NEW level \in Levels \cup {None}, NEW np \in SetPosition(w, s, level)
    PROVE  s.active /\ PostsKept(w, np) /\ PostsOf(w, s, np)
<1>1. PICK now : now = InForce(w, s)
  OBVIOUS
<1>2. s.active /\ ~(Cardinality(now) > 1)
  BY <1>1 DEF SetPosition
<1>3. now \subseteq PostIds /\ \A i \in now : i \in Posts(w) /\ post[i].status = "ACTIVE"
  BY <1>1 DEF InForce, Posts
<1>4. \A i \in Posts(w) : i \in PostIds /\ post[i] # None /\ post[i].who = w /\ post[i] \in Appointments
  BY DEF Posts, RelTypeOK
<1>5. \A i \in Posts(w) \ now : PostOK(post[i], s)
  <2> SUFFICES ASSUME NEW i \in Posts(w) \ now PROVE PostOK(post[i], s)
    OBVIOUS
  <2>1. post[i].loose
    BY <1>1, <1>2 DEF InForce, OutIsLoose
  <2> QED BY <2>1 DEF PostOK
<1>6. PICK ended : ended = Ended(now)
  OBVIOUS
<1>7. ended \in [PostIds -> Appointments \cup {None}] /\ PostsKept(w, ended) /\ PostsOf(w, s, ended)
  <2>1. \A i \in PostIds : ended[i] = IF i \in now THEN [post[i] EXCEPT !.status = "ENDED", !.loose = TRUE] ELSE post[i]
    BY <1>6 DEF Ended
  <2>2. \A i \in now : /\ ended[i] \in Appointments /\ ended[i].who = w /\ PostOK(ended[i], s)
    <3> SUFFICES ASSUME NEW i \in now, NEW p, p = [post[i] EXCEPT !.status = "ENDED", !.loose = TRUE]
                 PROVE  p \in Appointments /\ p.who = w /\ PostOK(p, s)
      BY <1>3, <2>1
    <3>1. post[i] \in Appointments /\ post[i].who = w
      BY <1>3, <1>4
    <3>2. p \in Appointments /\ p.who = w /\ p.loose
      BY <3>1 DEF Appointments
    <3> QED BY <3>2 DEF PostOK
  <2>3. ended \in [PostIds -> Appointments \cup {None}]
    BY <1>6, <2>1, <2>2 DEF Ended, RelTypeOK
  <2>4. \A i \in PostIds : ended[i] # None /\ ended[i].who # w => ended[i] = post[i]
    BY <2>1, <2>2
  <2>5. PostsOf(w, s, ended)
    BY <1>5, <2>1, <2>2 DEF PostsOf, Posts
  <2> QED BY <2>3, <2>4, <2>5 DEF PostsKept
<1>8. CASE level = None
  <2>1. np = ended
    BY <1>1, <1>6, <1>8 DEF SetPosition
  <2> QED BY <1>2, <1>7, <2>1
<1>9. ASSUME level # None, NEW org \in Scopes(level, s), np = post, NEW i \in now,
             post[i].level = level, post[i].org = org
      PROVE  PostsKept(w, np) /\ PostsOf(w, s, np)
  <2>1. AtMostOne(now)
    <3>1. IsFiniteSet(now)
      BY <1>3, RelationAssumption, FS_Subset
    <3>2. Cardinality(now) <= 1
      BY <1>2, <3>1, FS_CardinalityType
    <3> QED BY <3>1, <3>2, FewAreOne
  <2>2. now = {i}
    BY <1>9, <2>1 DEF AtMostOne
  <2>3. PostOK(post[i], s)
    BY <1>2, <1>3, <1>9, RelationAssumption DEF PostOK, Learners
  <2> QED BY <1>5, <1>9, <2>2, <2>3 DEF PostsKept, PostsOf, Posts, RelTypeOK
<1>10. ASSUME level # None, NEW i \in NextRow, NEW org \in Scopes(level, s),
              np = [ended EXCEPT ![i] = NewPost(w, level, org, "current")]
       PROVE  PostsKept(w, np) /\ PostsOf(w, s, np)
  <2>1. i \in PostIds /\ post[i] = None
    BY DEF NextRow
  <2>2. PICK p : p = NewPost(w, level, org, "current")
    OBVIOUS
  <2>3. org \in Centers \cup Units
    BY <1>10, ScopesAreUnits
  <2>4. /\ p \in Appointments /\ p.who = w /\ p.status = "ACTIVE" /\ p.level = level /\ p.org = org
    BY <1>10, <2>2, <2>3 DEF NewPost, Appointments, Kinds
  <2>5. PostOK(p, s)
    BY <1>2, <1>10, <2>4, RelationAssumption DEF PostOK, Learners
  <2>6. \A j \in PostIds : np[j] = IF j = i THEN p ELSE ended[j]
    BY <1>7, <1>10, <2>1, <2>2
  <2>7. np \in [PostIds -> Appointments \cup {None}]
    BY <1>7, <1>10, <2>2, <2>4
  <2> QED BY <1>7, <2>4, <2>5, <2>6, <2>7 DEF PostsKept, PostsOf
<1> QED
  <2> SUFFICES ASSUME level # None PROVE PostsKept(w, np) /\ PostsOf(w, s, np)
    BY <1>2, <1>8
  <2>1. \/ \E org \in Scopes(level, s) : np = post /\ \E i \in now : post[i].level = level /\ post[i].org = org
        \/ \E i \in NextRow : \E org \in Scopes(level, s) : np = [ended EXCEPT ![i] = NewPost(w, level, org, "current")]
    BY <1>1, <1>6 DEF SetPosition
  <2> QED BY <1>9, <1>10, <2>1

\* What the appointments become with an edit: unless the posts were to stay, for the learner as it is now.
LEMMA AppointedWell ==
    ASSUME RelTypeOK, NEW w \in Students, NEW s \in Learners, OutIsLoose(w), NEW moved \in BOOLEAN,
           NEW pos \in Levels \cup {None, "KEEP"}, NEW np \in Appointed(w, s, moved, pos),
           ~moved /\ s.active => PostsOf(w, s, post)
    PROVE  PostsKept(w, np) /\ (s.active => PostsOf(w, s, np))
<1>1. PICK asIs \in BOOLEAN :
          asIs = (~moved /\ \E i \in InForce(w, s) : InForce(w, s) = {i} /\ post[i].level = pos /\ post[i].kind = "current")
  OBVIOUS
<1>2. CASE pos # "KEEP" /\ ~asIs
  <2>1. np \in SetPosition(w, s, pos)
    BY <1>1, <1>2 DEF Appointed
  <2> QED BY <1>2, <2>1, PositionWell
<1>3. CASE pos = "KEEP" /\ moved
  <2>1. PICK to : Syncs(w, s, to) /\ np = Sent(w, s, to)
    BY <1>1, <1>3 DEF Appointed
  <2> QED BY <2>1, SentWell
<1>4. CASE ~(pos # "KEEP" /\ ~asIs) /\ ~(pos = "KEEP" /\ moved)
  <2>1. np = post /\ ~moved
    BY <1>1, <1>4 DEF Appointed
  <2> QED BY <2>1 DEF PostsKept, RelTypeOK
<1> QED BY <1>2, <1>3, <1>4

(***************************************************************************)
(* The steps.                                                              *)
(***************************************************************************)
LEMMA OneLearner ==
    ASSUME RelationInv, UNCHANGED <<parent, unit, merged>>, NEW w \in Students, NEW new \in Learners \cup {None},
           student' = [student EXCEPT ![w] = new], new # None => LearnerOK(new) /\ (w \notin merged => InPlace(new)),
           NEW np, post' = np, PostsKept(w, np), PostsOf(w, new, np)
    PROVE  RelationInv'
<1>1. RelTypeOK
  BY DEF RelationInv
<1>2. RelTypeOK'
  BY <1>1 DEF RelTypeOK, PostsKept
<1>3. \A x \in Students : student'[x] = IF x = w THEN new ELSE student[x]
  BY <1>1 DEF RelTypeOK
<1>4. LearnersInv'
  <2> SUFFICES ASSUME NEW x \in Students, NEW s, s = student'[x], s # None
               PROVE  LearnerOK(s)' /\ (x \notin merged => InPlace(s)')
    BY DEF LearnersInv
  <2>1. LearnerOK(s) /\ (x \notin merged => InPlace(s))
    BY <1>3 DEF RelationInv, LearnersInv
  <2> QED BY <2>1 DEF LearnerOK, InPlace, Open
<1>5. PostsInv'
  <2> SUFFICES ASSUME NEW i \in PostIds, NEW p, p = post'[i], p # None, NEW s, s = student'[p.who]
               PROVE  PostOK(p, s)'
    BY DEF PostsInv
  <2>1. PostOK(p, s)
    <3>1. p.who \in Students
      BY <1>2 DEF RelTypeOK, Appointments
    <3>2. CASE p.who = w
      BY <1>3, <3>1, <3>2 DEF PostsOf
    <3>3. CASE p.who # w
      BY <1>3, <3>1, <3>3 DEF PostsKept, RelationInv, PostsInv
    <3> QED BY <3>2, <3>3
  <2> QED BY <2>1, PostsStand
<1> QED BY <1>2, <1>4, <1>5 DEF RelationInv

LEMMA CreateKeeps ==
    ASSUME RelationInv, NEW w \in Students, NEW c \in Centers, NEW k \in Classes \cup {None}, NEW g \in Groups \cup {None},
           Create(w, c, k, g)
    PROVE  RelationInv'
<1>1. PICK new : new = [active |-> TRUE, center |-> c, region |-> {c}, home |-> {k, g} \ {None}, left |-> FALSE]
  OBVIOUS
<1>2. student' = [student EXCEPT ![w] = new] /\ UNCHANGED <<parent, unit, merged>> /\ post' = post /\ student[w] = None
  BY <1>1 DEF Create
<1>3. /\ k # None => k \in Open /\ parent[k] = c
      /\ g # None => g \in Open /\ k # None /\ ClassOf[g] = k
  BY DEF Create, Admissible
<1>4. Classes \cap Groups = {} /\ None \notin Classes \cup Groups
  BY UnitAssumption, RelationAssumption DEF Units
<1>5. PICK home : home = {k, g} \ {None}
  OBVIOUS
<1>6. home \cap Classes \subseteq {k} /\ home \cap Groups \subseteq {g} /\ home \subseteq Open
  BY <1>3, <1>4, <1>5
<1>7. home \subseteq Units /\ \A u \in home : unit[u] # "NONE"
  BY <1>6 DEF Open
<1>8. new \in Learners /\ new.active /\ new.center = c /\ new.region = {c} /\ new.home = home /\ ~new.left
  BY <1>1, <1>5, <1>7 DEF Learners
<1>9. LearnerOK(new)
  BY <1>7, <1>8 DEF LearnerOK
<1>10. InPlace(new)
  <2>1. AtMostOne(home \cap Classes) /\ AtMostOne(home \cap Groups)
    BY <1>6 DEF AtMostOne
  <2>2. \A x \in home \cap Groups : ClassOf[x] \in home
    BY <1>3, <1>4, <1>5, <1>6
  <2>3. \A x \in home \cap Classes \cap Open : parent[x] = c
    BY <1>3, <1>4, <1>6
  <2> QED BY <1>6, <1>8, <2>1, <2>2, <2>3 DEF InPlace
<1>11. PostsKept(w, post)
  BY DEF PostsKept, RelationInv, RelTypeOK
<1>12. PostsOf(w, new, post)
  BY <1>2 DEF PostsOf, RelationInv, PostsInv, PostOK
<1> QED BY <1>2, <1>8, <1>9, <1>10, <1>11, <1>12, OneLearner

\* update_member, for the record and the centre that it works with.
Edits(w, s, c, cen, cls, grp, acts, positions) ==
    /\ Admissible(c, TargetClass(s, cls), TargetGroup(s, cls, grp))
    /\ \E region \in Regions(s, c), act \in acts, pos \in positions :
         LET on == Serving(s, act)
             new == EditedRecord(s, c, cls, grp, region, on)
         IN /\ student' = [student EXCEPT ![w] = new]
            /\ \E posts \in Appointed(w, new, {cen, cls, grp} # {"KEEP"}, pos) :
                 post' = IF on THEN posts ELSE Loosened(posts, {w})
LEMMA EditKeeps ==
    ASSUME RelationInv, NEW w \in Students, NEW cen \in Centers \cup {"KEEP"}, NEW cls \in Classes \cup {None, "KEEP"},
           NEW grp \in Groups \cup {None, "KEEP"}, NEW acts \in SUBSET {"ACTIVE", "INACTIVE", "KEEP"},
           NEW positions \in SUBSET (Levels \cup {None, "KEEP"}), Edit(w, cen, cls, grp, acts, positions)
    PROVE  RelationInv'
<1>1. RelTypeOK /\ UNCHANGED <<parent, unit, merged>>
  BY DEF RelationInv, Edit
<1>2. PICK s : s = student[w]
  OBVIOUS
<1>3. s \in Learners /\ LearnerOK(s) /\ (w \notin merged => InPlace(s))
  BY <1>1, <1>2 DEF Edit, RelationInv, LearnersInv, RelTypeOK
<1>4. PICK c : c = IF cen = "KEEP" THEN s.center ELSE cen
  OBVIOUS
<1>5. Edits(w, s, c, cen, cls, grp, acts, positions)
  <2>1. Edits(w, student[w], IF cen = "KEEP" THEN student[w].center ELSE cen, cen, cls, grp, acts, positions)
    BY DEF Edits, Edit
  <2> QED BY <1>2, <1>4, <2>1
<1>6. /\ Admissible(c, TargetClass(s, cls), TargetGroup(s, cls, grp))
      /\ \E region \in Regions(s, c), act \in acts, pos \in positions :
           LET on == Serving(s, act)
               new == EditedRecord(s, c, cls, grp, region, on)
           IN /\ student' = [student EXCEPT ![w] = new]
              /\ \E posts \in Appointed(w, new, {cen, cls, grp} # {"KEEP"}, pos) :
                   post' = IF on THEN posts ELSE Loosened(posts, {w})
  BY <1>5 DEF Edits
<1> PICK region \in Regions(s, c), act \in acts, pos \in positions :
        LET on == Serving(s, act)
            new == EditedRecord(s, c, cls, grp, region, on)
        IN /\ student' = [student EXCEPT ![w] = new]
           /\ \E posts \in Appointed(w, new, {cen, cls, grp} # {"KEEP"}, pos) :
                post' = IF on THEN posts ELSE Loosened(posts, {w})
  BY <1>6
<1>7. PICK on \in BOOLEAN : on = Serving(s, act)
  BY <1>3 DEF Learners, Serving
<1>9. PICK new : new = EditedRecord(s, c, cls, grp, region, on)
  OBVIOUS
<1>10. PICK moved \in BOOLEAN : moved = ({cen, cls, grp} # {"KEEP"})
  OBVIOUS
<1>11. student' = [student EXCEPT ![w] = new] /\ \E posts \in Appointed(w, new, moved, pos) : post' = IF on THEN posts ELSE Loosened(posts, {w})
  BY <1>7, <1>9, <1>10
<1>12. c \in Centers
  BY <1>3, <1>4, RelationAssumption DEF Learners
<1>13. /\ new \in Learners /\ new.active = on /\ LearnerOK(new) /\ (InPlace(s) => InPlace(new))
       /\ s.active /\ c = s.center /\ cls = "KEEP" /\ grp = "KEEP" => \A level : Scopes(level, new) = Scopes(level, s)
  BY <1>3, <1>6, <1>7, <1>9, <1>12, EditedWell
<1>14. new.active = on /\ (s.active /\ ~moved => \A level : Scopes(level, new) = Scopes(level, s))
  BY <1>4, <1>10, <1>13
<1>15. PICK posts \in Appointed(w, new, moved, pos) : post' = IF on THEN posts ELSE Loosened(posts, {w})
  BY <1>11
<1>16. OutIsLoose(w)
  BY DEF OutIsLoose, Posts, RelationInv, PostsInv, PostOK
<1>17. ~moved /\ on => PostsOf(w, new, post)
  <2> SUFFICES ASSUME ~moved, on, NEW i \in PostIds, post[i] # None, post[i].who = w
               PROVE  PostOK(post[i], new)
    BY DEF PostsOf
  <2>1. PostOK(post[i], s)
    BY <1>2 DEF RelationInv, PostsInv
  <2>2. ~post[i].loose => new # None /\ new.active /\ Scopes(post[i].level, new) = Scopes(post[i].level, s)
    BY <1>13, <1>14, <2>1, RelationAssumption DEF PostOK
  <2> QED BY <2>1, <2>2 DEF PostOK
<1>18. PostsKept(w, posts) /\ (on => PostsOf(w, new, posts))
  BY <1>1, <1>13, <1>14, <1>16, <1>17, AppointedWell
<1>19. CASE on
  BY <1>1, <1>3, <1>11, <1>13, <1>15, <1>18, <1>19, OneLearner
<1>20. CASE ~on
  <2>1. PICK np : np = Loosened(posts, {w})
    OBVIOUS
  <2>2. PostsKept(w, np) /\ PostsOf(w, new, np)
    <3>1. \A i \in PostIds : np[i] = IF posts[i] # None /\ posts[i].who = w THEN [posts[i] EXCEPT !.loose = TRUE] ELSE posts[i]
      BY <2>1 DEF Loosened
    <3>2. \A i \in PostIds : posts[i] # None /\ posts[i].who = w => np[i] \in Appointments /\ np[i].loose /\ np[i].who = w
      <4> SUFFICES ASSUME NEW i \in PostIds, posts[i] # None, posts[i].who = w, NEW p, p = [posts[i] EXCEPT !.loose = TRUE]
                   PROVE  p \in Appointments /\ p.loose /\ p.who = w
        BY <3>1
      <4>1. posts[i] \in Appointments
        BY <1>18 DEF PostsKept
      <4> QED BY <4>1 DEF Appointments
    <3>3. np \in [PostIds -> Appointments \cup {None}]
      BY <1>18, <2>1, <3>1, <3>2 DEF PostsKept, Loosened
    <3>4. \A i \in PostIds : np[i] # None /\ np[i].who # w => np[i] = post[i]
      BY <1>18, <3>1, <3>2 DEF PostsKept
    <3>5. PostsOf(w, new, np)
      BY <3>1, <3>2 DEF PostsOf, PostOK
    <3> QED BY <3>3, <3>4, <3>5 DEF PostsKept
  <2>3. post' = np
    BY <1>15, <1>20, <2>1
  <2> QED BY <1>1, <1>3, <1>11, <1>13, <2>2, <2>3, OneLearner
<1> QED BY <1>19, <1>20

LEMMA TransferKeeps ==
    ASSUME RelationInv, NEW w \in Students, NEW g \in Groups, NEW to \in Groups, TransferGroup(w, g, to)
    PROVE  RelationInv'
<1>1. RelTypeOK /\ UNCHANGED <<parent, unit, merged>>
  BY DEF RelationInv, TransferGroup
<1>2. PICK s : s = student[w]
  OBVIOUS
<1>3. s \in Learners /\ LearnerOK(s) /\ (w \notin merged => InPlace(s)) /\ s.active
  BY <1>1, <1>2 DEF TransferGroup, RelationInv, LearnersInv, RelTypeOK
<1>4. g \in Open /\ to \in Open /\ ClassOf[g] = ClassOf[to] /\ GroupIn(s.home) = g
  BY <1>2 DEF TransferGroup
<1>5. PICK new : new = Joins(s, (s.home \ Groups) \cup {to})
  OBVIOUS
<1>6. student' = [student EXCEPT ![w] = new] /\ \E org : Syncs(w, new, org) /\ post' = Sent(w, new, org)
  BY <1>2, <1>5 DEF TransferGroup
<1>7. Classes \cap Groups = {} /\ None \notin Classes \cup Groups /\ ClassOf[to] \in Classes
  BY UnitAssumption
<1>8. PICK home : home = (s.home \ Groups) \cup {to}
  OBVIOUS
<1>9. None \notin home /\ home \subseteq Units /\ \A u \in home : unit[u] # "NONE"
  BY <1>3, <1>4, <1>7, <1>8 DEF Learners, LearnerOK, Units, Open
<1>10. new = [s EXCEPT !.home = home]
  BY <1>5, <1>8, <1>9 DEF Joins
<1>11. /\ new \in Learners /\ new.active /\ new.center = s.center /\ new.region = s.region /\ new.home = home
       /\ new.left = s.left
  BY <1>3, <1>9, <1>10 DEF Learners
<1>12. LearnerOK(new)
  BY <1>3, <1>9, <1>11 DEF LearnerOK
<1>13. ASSUME InPlace(s) PROVE InPlace(new)
  <2>1. home \cap Classes = s.home \cap Classes /\ home \cap Groups = {to}
    BY <1>3, <1>7, <1>8 DEF Learners, Units
  <2>2. g \in s.home
    BY <1>4, <1>7, OnlyIsOne DEF GroupIn
  <2>3. ClassOf[to] \in home
    BY <1>4, <1>7, <1>13, <2>1, <2>2 DEF InPlace
  <2>4. AtMostOne(home \cap Groups)
    BY <2>1 DEF AtMostOne
  <2>5. s.home \subseteq Open => home \subseteq Open
    BY <1>4, <1>8
  <2> QED BY <1>11, <1>13, <2>1, <2>3, <2>4, <2>5 DEF InPlace
<1>14. OutIsLoose(w)
  BY DEF OutIsLoose, Posts, RelationInv, PostsInv, PostOK
<1>15. PICK org : Syncs(w, new, org) /\ post' = Sent(w, new, org)
  BY <1>6
<1>16. PostsKept(w, Sent(w, new, org)) /\ PostsOf(w, new, Sent(w, new, org))
  BY <1>1, <1>11, <1>14, <1>15, SentWell
<1>17. PICK np : np = Sent(w, new, org)
  OBVIOUS
<1> QED BY <1>1, <1>3, <1>6, <1>11, <1>12, <1>13, <1>15, <1>16, <1>17, OneLearner

LEMMA AppointKeeps ==
    ASSUME RelationInv, NEW w \in Students, NEW level \in Levels, NEW org \in Centers \cup Units,
           NEW kind \in {"manual", "other", "service"}, Appoint(w, level, org, kind)
    PROVE  RelationInv'
<1>1. RelTypeOK /\ UNCHANGED <<parent, unit, student, merged>>
  BY DEF RelationInv, Appoint
<1>2. PICK s : s = student[w]
  OBVIOUS
<1>3. s \in Learners /\ s # None /\ s.active /\ LearnerOK(s) /\ (w \notin merged => InPlace(s))
  BY <1>1, <1>2 DEF Appoint, RelationInv, LearnersInv, RelTypeOK
<1>4. PICK i \in NextRow : post' = [post EXCEPT ![i] = NewPost(w, level, org, kind)]
  BY DEF Appoint
<1>5. i \in PostIds
  BY DEF NextRow
<1>6. PICK p : p = NewPost(w, level, org, kind)
  OBVIOUS
<1>7. p \in Appointments /\ p.who = w /\ p.status = "ACTIVE" /\ p.kind # "current"
  BY <1>6 DEF NewPost, Appointments, Kinds
<1>8. PostOK(p, s)
  BY <1>3, <1>7 DEF PostOK
<1>9. PICK np : np = [post EXCEPT ![i] = p]
  OBVIOUS
<1>10. \A j \in PostIds : np[j] = IF j = i THEN p ELSE post[j]
  BY <1>1, <1>5, <1>9 DEF RelTypeOK
<1>11. PostsKept(w, np)
  BY <1>1, <1>7, <1>9, <1>10 DEF PostsKept, RelTypeOK
<1>12. PostsOf(w, s, np)
  BY <1>2, <1>8, <1>10 DEF PostsOf, RelationInv, PostsInv
<1>13. post' = np /\ student' = [student EXCEPT ![w] = s]
  BY <1>1, <1>2, <1>4, <1>6, <1>9 DEF RelTypeOK
<1> QED BY <1>1, <1>3, <1>11, <1>12, <1>13, OneLearner

LEMMA ChangePostKeeps ==
    ASSUME RelationInv, NEW i \in PostIds, NEW to \in {"ACTIVE", "SUSPENDED", "ENDED"}, ChangePost(i, to)
    PROVE  RelationInv'
<1>1. RelTypeOK /\ UNCHANGED <<parent, unit, student, merged>> /\ post[i] \in Appointments
  BY DEF RelationInv, ChangePost, RelTypeOK
<1>2. PICK w \in Students : w = post[i].who
  BY <1>1 DEF Appointments
<1>3. PICK s : s = student[w]
  OBVIOUS
<1>4. s \in Learners \cup {None} /\ (s # None => LearnerOK(s) /\ (w \notin merged => InPlace(s)))
  BY <1>1, <1>3 DEF RelationInv, LearnersInv, RelTypeOK
<1>5. PICK loose \in BOOLEAN : loose <=> post[i].loose \/ to # "ACTIVE"
  OBVIOUS
<1>6. PICK p : p = [post[i] EXCEPT !.status = to, !.loose = loose]
  OBVIOUS
<1>7. PICK np : np = [post EXCEPT ![i] = p]
  OBVIOUS
<1>8. p = [post[i] EXCEPT !.status = to, !.loose = @ \/ to # "ACTIVE"]
  BY <1>1, <1>5, <1>6 DEF Appointments
<1>9. post' = np
  BY <1>1, <1>7, <1>8 DEF ChangePost, RelTypeOK
<1>10. /\ p \in Appointments /\ p.who = w /\ p.status = to /\ p.level = post[i].level /\ p.org = post[i].org
       /\ p.kind = post[i].kind /\ p.loose = loose
  BY <1>1, <1>2, <1>6 DEF Appointments
<1>11. PostOK(p, s)
  <2>1. PostOK(post[i], s)
    BY <1>1, <1>2, <1>3, RelationAssumption DEF RelationInv, PostsInv
  <2> QED BY <1>5, <1>10, <2>1 DEF PostOK
<1>12. \A j \in PostIds : np[j] = IF j = i THEN p ELSE post[j]
  BY <1>1, <1>7 DEF RelTypeOK
<1>13. PostsKept(w, np)
  BY <1>1, <1>7, <1>10, <1>12 DEF PostsKept, RelTypeOK
<1>14. PostsOf(w, s, np)
  BY <1>3, <1>11, <1>12 DEF PostsOf, RelationInv, PostsInv
<1>15. student' = [student EXCEPT ![w] = s]
  BY <1>1, <1>3 DEF RelTypeOK
<1> QED BY <1>1, <1>4, <1>9, <1>13, <1>14, <1>15, OneLearner

\* A unit that no learner in service refers to may open or close: if it closes, others may refer to it.
LEMMA UnitKeeps ==
    ASSUME RelationInv, UNCHANGED <<parent, student, post, merged>>, NEW u \in Units, NEW to \in {"OPEN", "CLOSED"},
           unit' = [unit EXCEPT ![u] = to],
           \A w \in Students : student[w] # None /\ (student[w].active \/ to = "OPEN") => u \notin student[w].home
    PROVE  RelationInv'
<1>1. RelTypeOK
  BY DEF RelationInv
<1>2. RelTypeOK'
  BY <1>1 DEF RelTypeOK
<1>3. \A x \in Units : unit'[x] = IF x = u THEN to ELSE unit[x]
  BY <1>1 DEF RelTypeOK
<1>4. Open' \ {u} = Open \ {u} /\ (to = "CLOSED" => Open' = Open \ {u})
  BY <1>3 DEF Open
<1>5. LearnersInv'
  <2> SUFFICES ASSUME NEW w \in Students, NEW s, s = student[w], s # None
               PROVE  LearnerOK(s)' /\ (w \notin merged => InPlace(s)')
    BY DEF LearnersInv
  <2>1. s \in Learners /\ LearnerOK(s) /\ (w \notin merged => InPlace(s))
    BY <1>1 DEF RelationInv, LearnersInv, RelTypeOK
  <2>2. LearnerOK(s)'
    BY <1>3, <2>1 DEF LearnerOK, Learners
  <2>3. CASE u \notin s.home
    BY <1>4, <2>1, <2>2, <2>3 DEF InPlace
  <2>4. CASE u \in s.home
    <3>1. ~s.active /\ to = "CLOSED" /\ s.left
      BY <2>1, <2>4 DEF LearnerOK, Learners
    <3> QED BY <1>4, <2>1, <2>2, <3>1 DEF InPlace
  <2> QED BY <2>3, <2>4
<1>6. ASSUME NEW s, s.home \subseteq Units, u \notin s.home, NEW level
      PROVE  Scopes(level, s)' = Scopes(level, s)
  <2>1. PICK home : home = s.home
    OBVIOUS
  <2>2. home \cap Classes \cap Open' = home \cap Classes \cap Open
    BY <1>4, <1>6, <2>1
  <2>3. ClassIn(home)' = ClassIn(home)
    BY <2>2 DEF ClassIn
  <2>4. {g \in home \cap Groups \cap Open' : ClassOf[g] = ClassIn(home)} = {g \in home \cap Groups \cap Open : ClassOf[g] = ClassIn(home)}
    BY <1>4, <1>6, <2>1
  <2>5. GroupIn(home)' = GroupIn(home)
    BY <2>3, <2>4 DEF GroupIn
  <2> QED BY <2>1, <2>3, <2>5 DEF Scopes
<1>7. PostsInv'
  <2> SUFFICES ASSUME NEW i \in PostIds, NEW p, p = post[i], p # None, NEW s, s = student[p.who]
               PROVE  PostOK(p, s)'
    BY DEF PostsInv
  <2>1. PostOK(p, s) /\ p.who \in Students
    BY <1>1 DEF RelationInv, PostsInv, RelTypeOK, Appointments
  <2>2. CASE p.loose
    BY <2>1, <2>2 DEF PostOK
  <2>3. CASE ~p.loose
    <3>1. s # None /\ s.active /\ s \in Learners
      BY <1>1, <2>1, <2>3 DEF PostOK, RelTypeOK
    <3>2. u \notin s.home /\ s.home \subseteq Units
      BY <2>1, <3>1 DEF Learners
    <3> QED BY <1>6, <2>1, <3>2 DEF PostOK
  <2> QED BY <2>2, <2>3
<1> QED BY <1>2, <1>5, <1>7 DEF RelationInv

LEMMA CreateUnitKeeps == ASSUME RelationInv, NEW u \in Units, CreateUnit(u) PROVE RelationInv'
<1>1. \A w \in Students : student[w] # None => u \notin student[w].home
  BY DEF CreateUnit, RelationInv, LearnersInv, LearnerOK
<1> QED BY <1>1, UnitKeeps DEF CreateUnit

LEMMA DeactivateKeeps == ASSUME RelationInv, NEW u \in Units, Deactivate(u) PROVE RelationInv'
<1>1. \A w \in Students : student[w] # None /\ student[w].active => u \notin student[w].home
  BY DEF Deactivate, Referred
<1> QED BY <1>1, UnitKeeps DEF Deactivate

LEMMA MergeKeeps == ASSUME RelationInv, NEW a \in Students, NEW b \in Students, Merge(a, b) PROVE RelationInv'
<1>1. RelTypeOK /\ UNCHANGED <<parent, unit>> /\ merged' = merged \cup {a, b} /\ a # b /\ post' = Loosened(post, {a, b})
  BY DEF RelationInv, Merge
<1>2. student[a] \in Learners /\ LearnerOK(student[a]) /\ student[b] \in Learners /\ LearnerOK(student[b])
  BY <1>1 DEF Merge, RelationInv, LearnersInv, RelTypeOK
<1>3. PICK lost \in SUBSET student[b].home :
          student' = [student EXCEPT
            ![a].region = @ \cup student[b].region, ![a].home = @ \cup (student[b].home \ lost),
            ![b].active = FALSE, ![b].region = {}, ![b].home = {}, ![b].left = TRUE]
  BY DEF Merge
<1>4. PICK to : to = [student[a] EXCEPT !.region = student[a].region \cup student[b].region,
                                        !.home = student[a].home \cup (student[b].home \ lost)]
  OBVIOUS
<1>5. PICK from : from = [student[b] EXCEPT !.active = FALSE, !.region = {}, !.home = {}, !.left = TRUE]
  OBVIOUS
<1>6. to \in Learners /\ LearnerOK(to)
  <2>1. /\ to.active = student[a].active /\ to.center = student[a].center /\ to.left = student[a].left
        /\ to.region = student[a].region \cup student[b].region /\ to.home = student[a].home \cup (student[b].home \ lost)
        /\ to \in Learners
    BY <1>2, <1>4 DEF Learners
  <2> QED BY <1>2, <2>1 DEF LearnerOK
<1>7. from \in Learners /\ LearnerOK(from)
  BY <1>2, <1>5 DEF Learners, LearnerOK
<1>8. student' = [[student EXCEPT ![a] = to] EXCEPT ![b] = from]
  BY <1>1, <1>2, <1>3, <1>4, <1>5 DEF RelTypeOK, Learners
<1>9. \A w \in Students : student'[w] = IF w = a THEN to ELSE IF w = b THEN from ELSE student[w]
  BY <1>1, <1>8 DEF RelTypeOK
<1>10. \A i \in PostIds : post'[i] = IF post[i] # None /\ post[i].who \in {a, b} THEN [post[i] EXCEPT !.loose = TRUE] ELSE post[i]
  BY <1>1 DEF Loosened
<1>11. \A i \in PostIds : post[i] # None /\ post[i].who \in {a, b} => post'[i] \in Appointments /\ post'[i].loose
  <2> SUFFICES ASSUME NEW i \in PostIds, post[i] # None, post[i].who \in {a, b}, NEW p, p = [post[i] EXCEPT !.loose = TRUE]
               PROVE  p \in Appointments /\ p.loose
    BY <1>10
  <2>1. post[i] \in Appointments
    BY <1>1 DEF RelTypeOK
  <2> QED BY <2>1 DEF Appointments
<1>12. RelTypeOK'
  <2>1. post' \in [PostIds -> Appointments \cup {None}]
    BY <1>1, <1>10, <1>11 DEF RelTypeOK, Loosened
  <2> QED BY <1>1, <1>6, <1>7, <1>8, <2>1 DEF RelTypeOK
<1>13. LearnersInv'
  <2> SUFFICES ASSUME NEW w \in Students, NEW s, s = student'[w], s # None
               PROVE  LearnerOK(s)' /\ (w \notin merged' => InPlace(s)')
    BY DEF LearnersInv
  <2>1. LearnerOK(s) /\ (w \notin merged' => InPlace(s))
    BY <1>1, <1>6, <1>7, <1>9 DEF RelationInv, LearnersInv
  <2> QED BY <1>1, <2>1 DEF LearnerOK, InPlace, Open
<1>14. PostsInv'
  <2> SUFFICES ASSUME NEW i \in PostIds, NEW p, p = post'[i], p # None, NEW s, s = student'[p.who]
               PROVE  PostOK(p, s)'
    BY DEF PostsInv
  <2>1. PostOK(p, s)
    <3>1. CASE post[i] # None /\ post[i].who \in {a, b}
      BY <1>11, <3>1 DEF PostOK
    <3>2. CASE ~(post[i] # None /\ post[i].who \in {a, b})
      <4>1. p = post[i] /\ p.who \in Students
        BY <1>10, <1>12, <3>2 DEF RelTypeOK, Appointments
      <4>2. s = student[p.who]
        BY <1>9, <3>2, <4>1
      <4> QED BY <4>1, <4>2 DEF RelationInv, PostsInv
    <3> QED BY <3>1, <3>2
  <2> QED BY <1>1, <2>1, PostsStand
<1> QED BY <1>12, <1>13, <1>14 DEF RelationInv

\* move_learning_org_unit, for the learners of the class.
Moves(here, c) ==
    \E region \in [here -> SUBSET Centers] :
      LET new == [w \in here |-> [student[w] EXCEPT !.center = c, !.region = region[w]]] IN
      /\ \A w \in here : region[w] \in MovedRegions(student[w], c)
      /\ student' = [w \in Students |-> IF w \in here THEN new[w] ELSE student[w]]
      /\ \E to \in [here -> Centers \cup Units \cup {None}] :
           /\ \A w \in here : Syncs(w, new[w], to[w])
           /\ post' = [i \in PostIds |-> IF \E w \in here : i \in Followers(w, new[w])
                                         THEN [post[i] EXCEPT !.org = to[post[i].who]] ELSE post[i]]
LEMMA MoveClassKeeps == ASSUME RelationInv, NEW k \in Classes, NEW c \in Centers, MoveClass(k, c) PROVE RelationInv'
<1>1. RelTypeOK /\ UNCHANGED <<unit, merged>> /\ parent' = [parent EXCEPT ![k] = c] /\ k \in Open
  BY DEF RelationInv, MoveClass
<1>2. PICK here : here = {w \in Students : student[w] # None /\ ClassIn(student[w].home) = k}
  OBVIOUS
<1>3. PICK region \in [here -> SUBSET Centers] :
        LET new == [w \in here |-> [student[w] EXCEPT !.center = c, !.region = region[w]]] IN
        /\ \A w \in here : region[w] \in MovedRegions(student[w], c)
        /\ student' = [w \in Students |-> IF w \in here THEN new[w] ELSE student[w]]
        /\ \E to \in [here -> Centers \cup Units \cup {None}] :
             /\ \A w \in here : Syncs(w, new[w], to[w])
             /\ post' = [i \in PostIds |-> IF \E w \in here : i \in Followers(w, new[w])
                                           THEN [post[i] EXCEPT !.org = to[post[i].who]] ELSE post[i]]
  <2>1. Moves({w \in Students : student[w] # None /\ ClassIn(student[w].home) = k}, c)
    BY DEF MoveClass, Moves
  <2>2. Moves(here, c)
    BY <1>2, <2>1
  <2> QED BY <2>2 DEF Moves
<1>4. PICK new : new = [w \in here |-> [student[w] EXCEPT !.center = c, !.region = region[w]]]
  OBVIOUS
<1>5. /\ \A w \in here : region[w] \in MovedRegions(student[w], c)
      /\ student' = [w \in Students |-> IF w \in here THEN new[w] ELSE student[w]]
  BY <1>3, <1>4
<1>6. PICK to \in [here -> Centers \cup Units \cup {None}] :
          /\ \A w \in here : Syncs(w, new[w], to[w])
          /\ post' = [i \in PostIds |-> IF \E w \in here : i \in Followers(w, new[w])
                                        THEN [post[i] EXCEPT !.org = to[post[i].who]] ELSE post[i]]
  BY <1>3, <1>4
<1>7. \A w \in here : /\ w \in Students /\ student[w] \in Learners /\ LearnerOK(student[w])
                      /\ w \notin merged => InPlace(student[w])
  BY <1>1, <1>2 DEF RelTypeOK, RelationInv, LearnersInv
<1>8. ASSUME NEW w \in here
      PROVE  /\ new[w] \in Learners /\ new[w].active = student[w].active /\ new[w].center = c /\ new[w].region = region[w]
             /\ new[w].home = student[w].home /\ new[w].left = student[w].left
             /\ c \in region[w] /\ (student[w].region = {student[w].center} => region[w] = {c})
  <2>1. PICK s : s = student[w]
    OBVIOUS
  <2>2. PICK r : r = region[w]
    OBVIOUS
  <2>3. r \subseteq Centers /\ c \in r /\ (s.region = {s.center} => r = {c})
    BY <1>5, <1>7, <2>1, <2>2, RegionAfter
  <2>4. new[w] = [s EXCEPT !.center = c, !.region = r]
    BY <1>4, <2>1, <2>2
  <2> QED BY <1>7, <2>1, <2>2, <2>3, <2>4 DEF Learners
<1>9. \A w \in Students : student'[w] = IF w \in here THEN new[w] ELSE student[w]
  BY <1>5
<1>10. LearnersInv'
  <2> SUFFICES ASSUME NEW w \in Students, NEW s, s = student'[w], s # None
               PROVE  LearnerOK(s)' /\ (w \notin merged => InPlace(s)')
    BY <1>1 DEF LearnersInv
  <2>1. \A x \in Classes : parent'[x] = IF x = k THEN c ELSE parent[x]
    BY <1>1 DEF RelTypeOK
  <2>2. Open' = Open
    BY <1>1 DEF Open
  <2>3. ASSUME NEW old, old = student[w], old # None, InPlace(old), NEW x \in old.home \cap Classes \cap Open
        PROVE  ClassIn(old.home) = x
    <3>1. AtMostOne(old.home \cap Classes \cap Open)
      BY <2>3 DEF InPlace, AtMostOne
    <3> QED BY <3>1, OneAtMost DEF ClassIn
  <2>4. CASE w \in here
    <3>1. s = new[w]
      BY <1>9, <2>4
    <3>2. LearnerOK(s)'
      BY <1>1, <1>7, <1>8, <2>4, <3>1 DEF LearnerOK
    <3>3. ASSUME InPlace(student[w]) PROVE InPlace(s)'
      <4>1. \A x \in s.home \cap Classes \cap Open : parent'[x] = s.center
        BY <1>2, <1>7, <1>8, <2>1, <2>3, <2>4, <3>1, <3>3, RelationAssumption
      <4>2. PICK old : old = student[w]
        OBVIOUS
      <4>3. s.region = {s.center} /\ s.home = old.home /\ s.left = old.left /\ InPlace(old)
        BY <1>8, <2>4, <3>1, <3>3, <4>2 DEF InPlace
      <4> QED BY <2>2, <4>1, <4>3 DEF InPlace
    <3> QED BY <1>7, <2>4, <3>2, <3>3
  <2>5. CASE w \notin here
    <3>1. s = student[w]
      BY <1>9, <2>5
    <3>2. LearnerOK(s) /\ (w \notin merged => InPlace(s))
      BY <3>1 DEF RelationInv, LearnersInv
    <3>3. ASSUME InPlace(s) PROVE InPlace(s)'
      <4>1. \A x \in s.home \cap Classes \cap Open : parent'[x] = s.center
        BY <1>2, <2>1, <2>3, <2>5, <3>1, <3>3 DEF InPlace
      <4> QED BY <2>2, <3>3, <4>1 DEF InPlace
    <3> QED BY <1>1, <3>2, <3>3 DEF LearnerOK
  <2> QED BY <2>4, <2>5
<1>11. \A i \in PostIds, w \in Students : i \in Posts(w) => post[i] \in Appointments /\ post[i].who = w
  BY <1>1 DEF Posts, RelTypeOK
<1>12. ASSUME NEW w \in here, NEW i \in Followers(w, new[w])
       PROVE  /\ i \in PostIds /\ post[i].who = w /\ post[i].status = "ACTIVE" /\ new[w].active
              /\ post'[i] = [post[i] EXCEPT !.org = to[w]] /\ post'[i] \in Appointments
              /\ to[w] \in Scopes(post[i].level, new[w])
  <2>1. i \in Posts(w) /\ i \in PostIds /\ post[i].status = "ACTIVE" /\ new[w].active
    BY DEF Followers, Plain, InForce, Posts
  <2>2. post[i] \in Appointments /\ post[i].who = w /\ post[i].level \in Levels
    BY <1>7, <1>11, <2>1 DEF Appointments
  <2>3. to[w] \in Scopes(post[i].level, new[w])
    BY <1>6 DEF Syncs
  <2>4. to[w] \in Centers \cup Units
    BY <1>8, <2>2, <2>3, ScopesAreUnits
  <2>5. post'[i] = [post[i] EXCEPT !.org = to[w]]
    BY <1>6, <2>1, <2>2
  <2>6. [post[i] EXCEPT !.org = to[w]] \in Appointments
    BY <2>2, <2>4 DEF Appointments
  <2> QED BY <2>1, <2>2, <2>3, <2>5, <2>6
<1>13. \A i \in PostIds : (\A w \in here : i \notin Followers(w, new[w])) => post'[i] = post[i]
  BY <1>6
<1>14. RelTypeOK'
  <2>1. post' \in [PostIds -> Appointments \cup {None}]
    <3>1. \A i \in PostIds : post'[i] \in Appointments \cup {None}
      BY <1>1, <1>12, <1>13 DEF RelTypeOK
    <3> QED BY <1>6, <3>1
  <2>2. student' \in [Students -> Learners \cup {None}]
    <3>1. \A w \in Students : student'[w] \in Learners \cup {None}
      BY <1>1, <1>8, <1>9 DEF RelTypeOK
    <3> QED BY <1>5, <3>1
  <2> QED BY <1>1, <2>1, <2>2 DEF RelTypeOK
<1>15. PostsInv'
  <2> SUFFICES ASSUME NEW i \in PostIds, NEW p, p = post'[i], p # None, NEW s, s = student'[p.who]
               PROVE  PostOK(p, s)'
    BY DEF PostsInv
  <2>1. PostOK(p, s)
    <3>1. ASSUME NEW w \in here, i \in Followers(w, new[w]) PROVE PostOK(p, s)
      <4>1. post[i] \in Appointments
        BY <1>7, <1>11, <3>1 DEF Followers, Plain, InForce
      <4>2. /\ p = [post[i] EXCEPT !.org = to[w]] /\ p.who = w /\ p.level = post[i].level /\ p.org = to[w]
            /\ p.status = "ACTIVE"
        BY <1>12, <3>1, <4>1 DEF Appointments
      <4>3. s = new[w]
        BY <1>7, <1>9, <4>2
      <4>4. s \in Learners /\ s.active /\ p.org \in Scopes(p.level, s)
        <5>1. new[w] \in Learners
          BY <1>8
        <5>2. new[w].active /\ to[w] \in Scopes(post[i].level, new[w])
          BY <1>12, <3>1
        <5>3. p.org = to[w] /\ p.level = post[i].level
          BY <4>2
        <5> QED BY <4>3, <5>1, <5>2, <5>3
      <4>5. s # None
        BY <4>4, RelationAssumption
      <4> QED BY <4>2, <4>4, <4>5 DEF PostOK
    <3>2. ASSUME \A w \in here : i \notin Followers(w, new[w]) PROVE PostOK(p, s)
      <4>1. p = post[i] /\ p \in Appointments /\ p.who \in Students
        BY <1>13, <1>14, <3>2 DEF RelTypeOK, Appointments
      <4>2. PostOK(p, student[p.who])
        BY <4>1 DEF RelationInv, PostsInv
      <4>3. CASE p.who \notin here
        BY <1>9, <4>1, <4>2, <4>3
      <4>4. CASE p.who \in here
        <5>1. s = new[p.who] /\ i \in Posts(p.who)
          BY <1>9, <4>1, <4>4 DEF Posts
        <5>2. ~p.loose => p.status = "ACTIVE" /\ student[p.who].active
          BY <4>1, <4>2 DEF PostOK
        <5>3. ~p.loose => p.kind # "current"
          BY <1>8, <3>2, <4>1, <4>4, <5>1, <5>2 DEF Followers, Plain, InForce, Managed
        <5>4. s # None /\ s.active = student[p.who].active
          BY <1>8, <4>4, <5>1, RelationAssumption
        <5> QED BY <4>2, <5>2, <5>3, <5>4 DEF PostOK
      <4> QED BY <4>3, <4>4
    <3> QED BY <3>1, <3>2
  <2> QED BY <1>1, <2>1, PostsStand
<1> QED BY <1>10, <1>14, <1>15 DEF RelationInv

LEMMA RelationKeeps == ASSUME RelationInv, [RelationNext]_relationVars PROVE RelationInv'
<1>1. CASE UNCHANGED relationVars
  <2>1. UNCHANGED <<parent, unit, student, post, merged>>
    BY <1>1 DEF relationVars
  <2>2. RelTypeOK' /\ LearnersInv'
    BY <2>1 DEF RelationInv, RelTypeOK, LearnersInv, LearnerOK, InPlace, Open
  <2>3. PostsInv'
    <3> SUFFICES ASSUME NEW i \in PostIds, NEW p, p = post'[i], p # None, NEW s, s = student'[p.who]
                 PROVE  PostOK(p, s)'
      BY DEF PostsInv
    <3>1. PostOK(p, s)
      BY <2>1 DEF RelationInv, PostsInv
    <3> QED BY <2>1, <3>1, PostsStand
  <2> QED BY <2>2, <2>3 DEF RelationInv
<1>2. ASSUME NEW w \in Students, NEW c \in Centers, NEW k \in Classes \cup {None}, NEW g \in Groups \cup {None}, Create(w, c, k, g)
      PROVE  RelationInv'
  BY <1>2, CreateKeeps
<1>3. ASSUME NEW w \in Students, NEW cen \in Centers \cup {"KEEP"}, NEW cls \in Classes \cup {None, "KEEP"},
             NEW grp \in Groups \cup {None, "KEEP"},
             Edit(w, cen, cls, grp, {"ACTIVE", "INACTIVE", "KEEP"}, Levels \cup {None, "KEEP"})
      PROVE  RelationInv'
  BY <1>3, EditKeeps
<1>4. ASSUME NEW a \in Students, NEW b \in Students, Merge(a, b) PROVE RelationInv'
  BY <1>4, MergeKeeps
<1>5. ASSUME NEW w \in Students, NEW g \in Groups, NEW to \in Groups, TransferGroup(w, g, to) PROVE RelationInv'
  BY <1>5, TransferKeeps
<1>6. ASSUME NEW w \in Students, NEW k \in Classes, NEW g \in Groups, Reassign(w, k, g) PROVE RelationInv'
  <2>1. Edit(w, "KEEP", "KEEP", g, {"KEEP"}, {"KEEP"})
    BY <1>6 DEF Reassign
  <2> QED BY <2>1, EditKeeps
<1>7. ASSUME NEW k \in Classes, NEW c \in Centers, MoveClass(k, c) PROVE RelationInv'
  BY <1>7, MoveClassKeeps
<1>8. ASSUME NEW u \in Units, CreateUnit(u) \/ Deactivate(u) PROVE RelationInv'
  BY <1>8, CreateUnitKeeps, DeactivateKeeps
<1>9. ASSUME NEW w \in Students, NEW level \in Levels, NEW org \in Centers \cup Units,
             NEW kind \in {"manual", "other", "service"}, Appoint(w, level, org, kind)
      PROVE  RelationInv'
  BY <1>9, AppointKeeps
<1>10. ASSUME NEW i \in PostIds, NEW to \in {"ACTIVE", "SUSPENDED", "ENDED"}, ChangePost(i, to) PROVE RelationInv'
  BY <1>10, ChangePostKeeps
<1> QED BY <1>1, <1>2, <1>3, <1>4, <1>5, <1>6, <1>7, <1>8, <1>9, <1>10 DEF RelationNext

\* A learner's record, the rows of its relations, the organisation's tree and the post that follows the learner agree,
\* whichever page edits, transfers, merges, moves or closes: RelationsSafe, for any centres, classes, groups, learners
\* and appointments.
THEOREM RelationsAreSafe == RelationSpec => []RelationsSafe
<1>1. RelationInit => RelationInv
  BY RelationBegins
<1>2. RelationInv /\ [RelationNext]_relationVars => RelationInv'
  BY RelationKeeps
<1>3. RelationInv => RelationsSafe
  BY RelationIsSafe
<1> QED BY <1>1, <1>2, <1>3, PTL DEF RelationSpec
================================================================================
