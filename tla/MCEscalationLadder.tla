-------------------------- MODULE MCEscalationLadder --------------------------
(* Instances of EscalationLadder for TLC, with the real ladder.            *)
EXTENDS EscalationLadder, TLC

CONSTANTS w1, w2, t1, t2

Symmetry == Permutations(Workers)

\* Bound: t1 goes through its whole ladder and all its reviews, t2 is there to spend
\* at the same time.
OneLongTask ==
  /\ attempts[Implement(t2)] <= 1
  /\ attempts[Verify(t2)] <= 1
=============================================================================
