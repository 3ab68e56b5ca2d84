------------------------------- MODULE MCJobs -------------------------------
(***************************************************************************)
(* The two jobs that a scheduler calls again and again, the promotion of   *)
(* DeployStatus and the sweep of AutoLot, on small instances and under     *)
(* their fairness.  Neither reads what the other writes: a behaviour plays *)
(* one of the two scenes, and in the other nothing is there to be done.    *)
(***************************************************************************)
EXTENDS MCAutoLot, DeployStatus

VARIABLE scene

jobVars == << vars, lotVars, scene >>

JobsInit ==
    /\ scene \in {"promotion", "lots"}
    /\ Init
    /\ scene = "lots" => \A d \in Deployments : event[d] = absentRow
    /\ LotInit

JobsNext ==
    \/ /\ scene = "promotion"
       /\ Next
       /\ UNCHANGED << lotVars, scene >>
    \/ /\ scene = "lots"
       /\ LotNext
       /\ UNCHANGED << vars, scene >>

JobsSpec == JobsInit /\ [][JobsNext]_jobVars /\ Fairness /\ LotFairness
=============================================================================
