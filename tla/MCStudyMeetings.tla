---------------------------- MODULE MCStudyMeetings ----------------------------
(* Small instances of StudyMeetings.  A behaviour plays one of two scenes, *)
(* chosen at the start: "versions", in which nothing fails and a list says *)
(* whether the learner mA is among the attendees of one of three versions, *)
(* and "failures", with two versions, two learners, failing items and      *)
(* calls that die.                                                         *)
EXTENDS StudyMeetings, TLC

CONSTANTS mA, mB, gA, gB, c1, c2

VARIABLE scene

WithOrWithout == {{}, {mA}}
AnyOfTwo == {{}, {mA}, {mA, mB}}

Two == 1 .. 2
Three == 1 .. 3

\* Groups are alike, and so are calls.
Symmetry == {f @@ g : f \in Permutations(Groups), g \in Permutations(Clerks)}

ListsOf == IF scene = "versions" THEN WithOrWithout ELSE {{mA}, {mA, mB}}
Room == IF scene = "versions" THEN Changes ELSE 2
ItemRefused == \E c \in Clerks : clerk[c].pc = "entering" /\ clerk'[c].pc = "closing"

\* What belongs to a scene.
InScene ==
    /\ \A s \in Meetings : meeting'[s].status # "NONE" => meeting'[s].who \in ListsOf
    /\ \A g \in Groups : form'[g] # None => form'[g].who \in ListsOf
    /\ Spent' <= Room
    /\ scene = "versions" => ~ItemRefused /\ \A c \in Clerks : ~Crash(c)

SceneInit == Init /\ scene \in {"versions", "failures"}
SceneNext == Next /\ InScene /\ UNCHANGED scene
Scenes == SceneInit /\ [][SceneNext]_<<vars, scene>>
=============================================================================
