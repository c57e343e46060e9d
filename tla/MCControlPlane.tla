--------------------------- MODULE MCControlPlane ---------------------------
(***************************************************************************)
(* What the control plane does on its own: the worker's health loop over   *)
(* the nodes that admins provision (NodeHealth), and the seeds of starting *)
(* web instances (StartupSeeds).  They share no state in these models, so  *)
(* that they are explored one after the other: `part` is chosen in the     *)
(* initial state and says whose behaviour this is.                         *)
(***************************************************************************)
EXTENDS NodeHealth, StartupSeeds

VARIABLE part

controlVars == <<part, vars, seedsVars>>

\* The setup of the environment makes a difference to a start only.
ControlInit ==
    /\ part \in {"health", "start"} /\ Init /\ SeedsInit
    /\ part = "health" => owner_set /\ ~others

\* A step of one part, which leaves the other alone.
Health(A) == part = "health" /\ A /\ UNCHANGED <<part, seedsVars>>
Starting(A) == part = "start" /\ A /\ UNCHANGED <<part, vars>>

ControlNext == Health(Next) \/ Starting(SeedsNext)

\* The fairness of each part, as its module states and justifies it.
ControlSpec ==
    /\ ControlInit /\ [][ControlNext]_controlVars
    /\ WF_controlVars(Health(HealthLoop))
    /\ \A i \in Instances : WF_controlVars(Starting(Start(i) /\ UNCHANGED setup))
=============================================================================
