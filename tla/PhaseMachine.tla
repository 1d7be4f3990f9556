----------------------------- MODULE PhaseMachine -----------------------------
(***************************************************************************)
(* What the phase of a project promises whoever watches it, stated without *)
(* jobs, gates or a ledger: the phase moves along the legal edges and      *)
(* along no other, and the cycle changes only where a review loops back.   *)
(* The handlers write the project row with a compare-and-set that checks   *)
(* neither; DeliveryCycle and DeployStages implement this specification.   *)
(***************************************************************************)
EXTENDS Naturals

VARIABLES phase, cycle

vars == <<phase, cycle>>

Edges ==
  [INTAKE         |-> {"DESIGN"},
   DESIGN         |-> {"BUILD", "VISUAL_DESIGN", "ABANDONED"},
   VISUAL_DESIGN  |-> {"BUILD", "ABANDONED"},
   BUILD          |-> {"REVIEW", "DESIGN", "ABANDONED"},
   REVIEW         |-> {"DONE", "DESIGN", "BUILD", "DEPLOY_DESIGN", "DEPLOY", "ABANDONED"},
   DEPLOY         |-> {"DONE", "REVIEW", "DEPLOY_DESIGN", "ABANDONED"},
   DEPLOY_DESIGN  |-> {"DEPLOY_EXECUTE", "DEPLOY_DESIGN", "ABANDONED"},
   DEPLOY_EXECUTE |-> {"DEPLOY_REVIEW", "DEPLOY_EXECUTE", "ABANDONED"},
   DEPLOY_REVIEW  |-> {"DONE", "DEPLOY_DESIGN", "DEPLOY_EXECUTE", "DESIGN", "BUILD", "REVIEW",
                       "ABANDONED"},
   DONE           |-> {"DEPLOY", "DEPLOY_DESIGN"},
   ABANDONED      |-> {}]

Phases == DOMAIN Edges

\* A review sends the project back to an earlier phase.
LoopsBack(to) == phase = "REVIEW" /\ to \in {"DESIGN", "BUILD"}

\* Every move is along an edge; only a loop-back writes the cycle as well.
Move(to) ==
  /\ to \in Edges[phase]
  /\ phase' = to
  /\ IF LoopsBack(to) THEN cycle' \in Nat \ {0} ELSE UNCHANGED cycle

Init == phase \in Phases /\ cycle = 1

Next == \E to \in Phases : Move(to)

Spec == Init /\ [][Next]_vars
=============================================================================
