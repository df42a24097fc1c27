---------------------------- MODULE MCPostingScenes ----------------------------
(* CreditPostingJobs in scenes, one of which is chosen at the start:       *)
(* "race", where two runs of one batch meet late, lost and repeated        *)
(* events; "mishap", where runs follow one another while the user          *)
(* pauses, regenerates previews and posts from the page, items fail and    *)
(* runs die; and "served", where whatever has started goes on.             *)
EXTENDS MCCreditPostingJobs

VARIABLE scene

sceneVars == <<vars, scene>>

Refused(r) == run[r].pc = "step" /\ StepPosts(r) /\ ~run'[r].ok

InRace ==
    /\ linked' = linked /\ ~Pause
    /\ \A r \in Runs : ~run'[r].direct /\ ~Refused(r) /\ ~Crash(r)
InMishap == Cardinality({r \in Runs : run'[r] # Idle}) <= 1

SceneNext ==
    /\ Next /\ UNCHANGED scene
    /\ scene = "race" => InRace
    /\ scene = "mishap" => InMishap

SceneInit == Init /\ scene \in {"race", "mishap"}
ServedInit == Init /\ scene = "served"

Scenes == SceneInit /\ [][SceneNext]_sceneVars
Served == ServedInit /\ [][SceneNext]_sceneVars /\ Fairness
=============================================================================
