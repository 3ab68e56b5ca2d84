----------------------------- MODULE MCBuildWatch -----------------------------
(***************************************************************************)
(* TLC instances of BuildWatch: in the scene "drift" machines report while *)
(* deployments come and move on; in the scene "rollback" ingestions detect *)
(* while deployments are edited.                                           *)
(***************************************************************************)
EXTENDS BuildWatch

CONSTANT phase      \* the deployment that has no version, or may have none

VARIABLE scene

sceneVars == << watchVars, scene >>

SceneInit ==
    /\ WatchInit
    /\ scene \in {"drift", "rollback"}
    /\ scene = "drift" =>
          /\ \A d \in Deployments : deployment[d].build \in IF d = phase THEN {NoBuild} ELSE Builds
          /\ \A d, e \in Deployments : deployment[d].at = deployment[e].at => d = e
    /\ scene = "rollback" =>
          /\ \A d \in Deployments : deployment[d].build = NoBuild => d = phase
          /\ \A m \in Machines : machine[m] = 1

SceneNext ==
    /\ UNCHANGED scene
    /\ \/ scene = "drift" /\ driftStep
       \/ scene = "rollback" /\ rollbackStep

SceneFairness == \A m \in Machines : WF_sceneVars(scene = "drift" /\ reportStep(m) /\ UNCHANGED scene)

SceneSpec == SceneInit /\ [][SceneNext]_sceneVars

SceneFairSpec == SceneSpec /\ SceneFairness
=============================================================================
