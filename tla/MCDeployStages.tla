---------------------------- MODULE MCDeployStages ----------------------------
(* Instances of DeployStages for TLC: two targets, and one further leg     *)
(* that a triage may start.                                                *)
EXTENDS DeployStages

CONSTANTS w1, here, there

NoLoop == [m \in Legs |-> NoLeg]
OnceMore == [m \in Legs |-> IF m = 0 THEN 1 ELSE NoLeg]
AfterTriage == [k \in {"route demo", "route triage"} |-> IF k = "route demo" THEN NoLoop ELSE OnceMore]
=============================================================================
