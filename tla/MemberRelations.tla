---------------------------- MODULE MemberRelations ----------------------------
(***************************************************************************)
(* Where a learner belongs - management centre, class and group - and the  *)
(* volunteer post that follows from it.  The organisation's tree, the      *)
(* learner's record, the rows of member_org_relations and the appointments *)
(* all say it; edits, transfers, class moves and merges keep them in step. *)
(*                                                                         *)
(* Source: app/services/members.py, study_membership.py,                   *)
(* organization_management.py, member_group_reassignment.py and            *)
(* volunteer_positions.py.                                                 *)
(*                                                                         *)
(* Each call is one step: calls that overlap are not modelled.  Ordinary   *)
(* classes only (no special cohorts, no class that belongs to the school   *)
(* directly).  The feature gates are open and the catalogue of positions   *)
(* does not change; a level stands for the position of that level.         *)
(***************************************************************************)
EXTENDS Integers, FiniteSets, StudyUnits

CONSTANTS
    Centers,     \* regional centres, which always stand
    Standing,    \* classes and groups that exist at the start
    Students,
    PostIds,     \* rows of volunteer_appointments, bounded
    Merging      \* are records merged?

Levels == {"GROUP", "CLASS", "CENTER"}
Units == Classes \cup Groups

Kinds == {"current", "manual", "other", "service"}
Learners == [active : BOOLEAN, center : Centers, region : SUBSET Centers, home : SUBSET Units, left : BOOLEAN]
Appointments ==
    [who : Students, level : Levels, org : Centers \cup Units, status : {"ACTIVE", "SUSPENDED", "ENDED"},
     kind : Kinds, loose : BOOLEAN]

ASSUME RelationAssumption ==
    /\ Standing \subseteq Units /\ Merging \in BOOLEAN
    /\ PostIds \subseteq Nat /\ IsFiniteSet(PostIds)
    /\ Centers \cap Units = {} /\ {None, "KEEP"} \cap (Centers \cup Units) = {}
    /\ None \notin Learners \cup Appointments \cup Levels /\ "KEEP" # None

VARIABLES
    parent,      \* org_units.parent_id of each class
    unit,        \* whether each class and group exists and is active
    student,     \* members, with their rows of member_org_relations
    post,        \* volunteer_appointments
    merged       \* for the record: learners that took part in a merge

relationVars == <<parent, unit, student, post, merged>>

Open == {u \in Units : unit[u] = "OPEN"}
Posts(w) == {i \in PostIds : post[i] # None /\ post[i].who = w}

RelationInit ==
    /\ parent \in [Classes -> Centers]
    /\ unit = [u \in Units |-> IF u \in Standing THEN "OPEN" ELSE "NONE"]
    /\ student = [w \in Students |-> None]
    /\ post = [i \in PostIds |-> None]
    /\ merged = {}

\* current_study_relation_sql: one active class, and one active group of that class, or none.
ClassIn(home) == Only(home \cap Classes \cap Open)
GroupIn(home) == Only({g \in home \cap Groups \cap Open : ClassOf[g] = ClassIn(home)})

\* _member_current_scope: the organisations that a post of a level may be for.
Scopes(level, s) ==
    CASE level = "GROUP" -> {GroupIn(s.home)} \ {None}
      [] level = "CLASS" -> {ClassIn(s.home)} \ {None}
      [] level = "CENTER" -> IF s.region = {} THEN {s.center} ELSE s.region

(***************************************************************************)
(* Relations of one learner.  `home' has the organisations of the study    *)
(* rows in force, `region' those of the PRIMARY_REGION rows; study rows    *)
(* that were retired stay behind and are left out.                         *)
(***************************************************************************)

\* set_formal_relation, for the class and the group or for the group alone
Joins(s, home) == [s EXCEPT !.home = home \ {None}]
\* update_member: some PRIMARY_REGION row is given the centre, unless another row has it.
Regions(s, c) ==
    IF s.region = {} THEN {{c}} ELSE {(s.region \ {r}) \cup {c} : r \in {x \in s.region : x = c \/ c \notin s.region}}
\* _sync_members_after_class_move: the other rows go if one has the centre.
MovedRegions(s, c) == IF c \in s.region THEN {{c}} ELSE Regions(s, c)

(***************************************************************************)
(* Posts.  A post is "current" if it was set with the learner's record,    *)
(* "manual" if it was added there, "other" if the account's page appointed *)
(* it, "service" if it is for a service unit.  `loose' is for the record:  *)
(* the post was out of force for a while, or its holder was.               *)
(***************************************************************************)

\* _effective_current_appointments
InForce(w, s) == {i \in Posts(w) : s.active /\ post[i].status = "ACTIVE"}
Plain(w, s) == {i \in InForce(w, s) : post[i].kind # "service"}
Managed == {"current", "manual"}
Followers(w, s) == {i \in Plain(w, s) : post[i].kind \in Managed}

\* Faulty variant: a post that has no organisation to go to stays where it is.
SyncsLeniently(w, s, to) ==
    /\ Cardinality(Plain(w, s)) <= 1
    /\ IF Followers(w, s) = {} THEN to = None
       ELSE \A i \in Followers(w, s) :
              LET scopes == Scopes(post[i].level, s) IN to \in (IF scopes = {} THEN {post[i].org} ELSE scopes)
\* sync_member_current_volunteer_scope: it does not refuse, and the post goes to `to'.
Syncs(w, s, to) ==
    /\ Cardinality(Plain(w, s)) <= 1
    /\ IF Followers(w, s) = {} THEN to = None ELSE \A i \in Followers(w, s) : to \in Scopes(post[i].level, s)
Sent(w, s, to) == [i \in PostIds |-> IF i \in Followers(w, s) THEN [post[i] EXCEPT !.org = to] ELSE post[i]]

\* The posts after the learner has left, or has been merged.
Loosened(new, who) == [i \in PostIds |-> IF new[i] # None /\ new[i].who \in who THEN [new[i] EXCEPT !.loose = TRUE] ELSE new[i]]

HasPost(w, level, org, kinds, but) ==
    \E i \in Posts(w) \ but :
        post[i].level = level /\ post[i].org = org /\ post[i].status \in {"ACTIVE", "SUSPENDED"} /\ post[i].kind \in kinds
NewPost(w, level, org, kind) == [who |-> w, level |-> level, org |-> org, status |-> "ACTIVE", kind |-> kind, loose |-> FALSE]
\* The next row; the bound is PostIds.
NextRow == {i \in PostIds : post[i] = None /\ \A j \in PostIds : j < i => post[j] # None}

Ended(S) == [i \in PostIds |-> IF i \in S THEN [post[i] EXCEPT !.status = "ENDED", !.loose = TRUE] ELSE post[i]]

\* set_member_current_volunteer_position: what the appointments may become; none if it refuses.
SetPosition(w, s, level) ==
    LET now == InForce(w, s)
        same(org) == \E i \in now : post[i].level = level /\ post[i].org = org /\ post[i].kind = "current"
    IN IF ~s.active \/ Cardinality(now) > 1 \/ \E i \in now : post[i].kind \notin Managed THEN {}
       ELSE IF level = None THEN {Ended(now)}
       ELSE {post : org \in {o \in Scopes(level, s) : same(o)}}
            \cup {[Ended(now) EXCEPT ![i] = NewPost(w, level, org, "current")] :
                     i \in NextRow,
                     org \in {o \in Scopes(level, s) : ~same(o) /\ ~HasPost(w, level, o, Kinds, now)}}

(***************************************************************************)
(* The calls.                                                              *)
(***************************************************************************)

\* Faulty variant: a class is not checked against the centre.
AdmissibleGroup(c, k, g) == g # None => g \in Open /\ k # None /\ ClassOf[g] = k
\* The conditions for a class and a group of a learner of a centre, in create_member and update_member.
Admissible(c, k, g) ==
    /\ k # None => k \in Open /\ parent[k] = c
    /\ g # None => g \in Open /\ k # None /\ ClassOf[g] = k

\* create_member
Create(w, c, k, g) ==
    /\ student[w] = None
    /\ Admissible(c, k, g)
    /\ student' = [student EXCEPT ![w] =
                     [active |-> TRUE, center |-> c, region |-> {c}, home |-> {k, g} \ {None}, left |-> FALSE]]
    /\ UNCHANGED <<parent, unit, post, merged>>

\* update_member's view of the class and the group that the learner shall have; "KEEP" stands for no key
TargetClass(s, cls) == IF cls = "KEEP" THEN ClassIn(s.home) ELSE cls
TargetGroup(s, cls, grp) ==
    CASE grp # "KEEP" -> grp
      [] cls # "KEEP" -> None
      [] OTHER -> GroupIn(s.home)
\* The relations that update_member writes.
Placed(s, cls, grp) ==
    LET k == TargetClass(s, cls)
        g == TargetGroup(s, cls, grp)
    IN CASE cls # "KEEP" -> Joins(s, {k, g})
         [] cls = "KEEP" /\ grp # "KEEP" -> Joins(s, (s.home \ Groups) \cup {g})
         [] OTHER -> s

Serving(s, act) == IF act = "KEEP" THEN s.active ELSE act = "ACTIVE"
\* The record that update_member writes.
EditedRecord(s, c, cls, grp, region, on) ==
    [Placed(s, cls, grp) EXCEPT !.active = on, !.center = c, !.region = region, !.left = @ \/ ~on]

\* The appointments after update_member, in which the position is given or the relations were.
Appointed(w, s, moved, pos) ==
    LET now == InForce(w, s)
        asIs == ~moved /\ \E i \in now : now = {i} /\ post[i].level = pos /\ post[i].kind = "current"
    IN CASE pos # "KEEP" /\ ~asIs -> SetPosition(w, s, pos)
         [] pos = "KEEP" /\ moved -> {Sent(w, s, to) : to \in {o \in Centers \cup Units \cup {None} : Syncs(w, s, o)}}
         [] OTHER -> {post}

\* update_member
Edit(w, cen, cls, grp, acts, positions) ==
    /\ student[w] # None
    /\ LET s == student[w]
           c == IF cen = "KEEP" THEN s.center ELSE cen
       IN /\ Admissible(c, TargetClass(s, cls), TargetGroup(s, cls, grp))
          /\ \E region \in Regions(s, c), act \in acts, pos \in positions :
               LET on == Serving(s, act)
                   new == EditedRecord(s, c, cls, grp, region, on)
               IN /\ student' = [student EXCEPT ![w] = new]
                  /\ \E posts \in Appointed(w, new, {cen, cls, grp} # {"KEEP"}, pos) :
                       post' = IF on THEN posts ELSE Loosened(posts, {w})
    /\ UNCHANGED <<parent, unit, merged>>

\* merge_members: b's rows go to a unless a has a row of the same kind for the organisation, maybe
\* a retired one: then b's row is lost.
Merge(a, b) ==
    /\ a # b /\ student[a] # None /\ student[b] # None
    /\ \E lost \in SUBSET student[b].home :
         student' = [student EXCEPT
           ![a].region = @ \cup student[b].region, ![a].home = @ \cup (student[b].home \ lost),
           ![b].active = FALSE, ![b].region = {}, ![b].home = {}, ![b].left = TRUE]
    /\ post' = Loosened(post, {a, b})
    /\ merged' = merged \cup {a, b}
    /\ UNCHANGED <<parent, unit>>

\* transfer_group_member_relation
TransferGroup(w, g, to) ==
    /\ student[w] # None /\ student[w].active
    /\ {g, to} \subseteq Open \cap Groups /\ ClassOf[g] = ClassOf[to]
    /\ GroupIn(student[w].home) = g
    /\ LET new == Joins(student[w], (student[w].home \ Groups) \cup {to})
       IN /\ student' = [student EXCEPT ![w] = new]
          /\ \E org \in Centers \cup Units \cup {None} : Syncs(w, new, org) /\ post' = Sent(w, new, org)
    /\ UNCHANGED <<parent, unit, merged>>

\* apply_group_reassignment, of one of the batch's learners.
Reassign(w, k, g) ==
    /\ student[w] # None /\ student[w].active
    /\ k \in Open /\ g \in Open /\ ClassOf[g] = k /\ ClassIn(student[w].home) = k
    /\ GroupIn(student[w].home) # g
    /\ Edit(w, "KEEP", "KEEP", g, {"KEEP"}, {"KEEP"})

\* move_learning_org_unit with _sync_members_after_class_move, for the learners of any status.
MoveClass(k, c) ==
    LET here == {w \in Students : student[w] # None /\ ClassIn(student[w].home) = k} IN
    /\ k \in Open
    /\ parent' = [parent EXCEPT ![k] = c]
    /\ \E region \in [here -> SUBSET Centers] :
         LET new == [w \in here |-> [student[w] EXCEPT !.center = c, !.region = region[w]]] IN
         /\ \A w \in here : region[w] \in MovedRegions(student[w], c)
         /\ student' = [w \in Students |-> IF w \in here THEN new[w] ELSE student[w]]
         /\ \E to \in [here -> Centers \cup Units \cup {None}] :
              /\ \A w \in here : Syncs(w, new[w], to[w])
              /\ post' = [i \in PostIds |-> IF \E w \in here : i \in Followers(w, new[w])
                                            THEN [post[i] EXCEPT !.org = to[post[i].who]] ELSE post[i]]
    /\ UNCHANGED <<unit, merged>>

\* create_learning_org_unit
CreateUnit(u) ==
    /\ unit[u] = "NONE"
    /\ u \in Groups => ClassOf[u] \in Open
    /\ unit' = [unit EXCEPT ![u] = "OPEN"]
    /\ UNCHANGED <<parent, student, post, merged>>

\* _reference_counts: learners in service that have a row in force, also one of several.
Referred(u) == {w \in Students : student[w] # None /\ student[w].active /\ u \in student[w].home}
\* deactivate_learning_org_unit
Deactivate(u) ==
    /\ u \in Open
    /\ Referred(u) = {}
    /\ \A g \in Groups : ClassOf[g] = u => g \notin Open
    /\ unit' = [unit EXCEPT ![u] = "CLOSED"]
    /\ UNCHANGED <<parent, student, post, merged>>

\* create_member_volunteer_appointment, identity_admin's create_volunteer_appointment, _insert_v2_appointment
Appoint(w, level, org, kind) ==
    /\ student[w] # None /\ student[w].active
    /\ org \in (CASE level = "GROUP" -> Groups \cap Open [] level = "CLASS" -> Classes \cap Open [] OTHER -> Centers)
    /\ ~HasPost(w, level, org, IF kind = "service" THEN {kind} ELSE Kinds, {})
    /\ \E i \in NextRow : post' = [post EXCEPT ![i] = NewPost(w, level, org, kind)]
    /\ UNCHANGED <<parent, unit, student, merged>>

\* change_appointment_status, which allows what the other pages do and more
ChangePost(i, to) ==
    /\ post[i] # None
    /\ ~(post[i].status = "ENDED" /\ to = "ACTIVE")
    /\ post' = [post EXCEPT ![i].status = to, ![i].loose = @ \/ to # "ACTIVE"]
    /\ UNCHANGED <<parent, unit, student, merged>>

RelationNext ==
    \/ \E w \in Students, c \in Centers, k \in Classes \cup {None}, g \in Groups \cup {None} : Create(w, c, k, g)
    \/ \E w \in Students, cen \in Centers \cup {"KEEP"}, cls \in Classes \cup {None, "KEEP"},
          grp \in Groups \cup {None, "KEEP"} :
          Edit(w, cen, cls, grp, {"ACTIVE", "INACTIVE", "KEEP"}, Levels \cup {None, "KEEP"})
    \/ Merging /\ \E a, b \in Students : Merge(a, b)
    \/ \E w \in Students, g, to \in Groups : TransferGroup(w, g, to)
    \/ \E w \in Students, k \in Classes, g \in Groups : Reassign(w, k, g)
    \/ \E k \in Classes, c \in Centers : MoveClass(k, c)
    \/ \E u \in Units : CreateUnit(u) \/ Deactivate(u)
    \/ \E w \in Students, level \in Levels, org \in Centers \cup Units, kind \in {"manual", "other", "service"} :
          Appoint(w, level, org, kind)
    \/ \E i \in PostIds, to \in {"ACTIVE", "SUSPENDED", "ENDED"} : ChangePost(i, to)

RelationSpec == RelationInit /\ [][RelationNext]_relationVars

(***************************************************************************)
(* Properties.                                                             *)
(***************************************************************************)
RelTypeOK ==
    /\ parent \in [Classes -> Centers] /\ unit \in [Units -> {"NONE", "OPEN", "CLOSED"}]
    /\ student \in [Students -> Learners \cup {None}] /\ post \in [PostIds -> Appointments \cup {None}]
    /\ merged \subseteq Students

\* The record, the relations and the organisation's tree agree about a learner that was never
\* merged: one centre, at most one class and one group of it, and an open class belongs to the
\* learner's centre.  Who never left has no relation to a class or group that was closed.
Aligned ==
    \A w \in {x \in Students \ merged : student[x] # None} :
        LET s == student[w] IN
        /\ s.region = {s.center}
        /\ Cardinality(s.home \cap Classes) <= 1 /\ Cardinality(s.home \cap Groups) <= 1
        /\ \A g \in s.home \cap Groups : ClassOf[g] \in s.home
        /\ \A k \in s.home \cap Classes \cap Open : parent[k] = s.center
        /\ ~s.left => s.home \subseteq Open

\* The post that was set with a learner's record is for the group, class or centre that the
\* learner belongs to now, whichever page moved the learner, the class or the group: as long
\* as the post stayed in force and the learner in service, and no record was merged.
PostFollows ==
    \A i \in PostIds :
        (post[i] # None /\ post[i].kind = "current" /\ post[i].status = "ACTIVE" /\ ~post[i].loose)
            => post[i].org \in Scopes(post[i].level, student[post[i].who])

RelationsSafe == RelTypeOK /\ Aligned /\ PostFollows
=============================================================================
