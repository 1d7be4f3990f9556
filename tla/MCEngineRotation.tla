--------------------------- MODULE MCEngineRotation ---------------------------
(* The instance of EngineRotation for TLC: two engines of equal base weight. *)
EXTENDS EngineRotation, TLC

CONSTANTS w1, w2, first, second

BaseWeights == [e \in Engines |-> 1]
Ordered == [e \in Engines |-> IF e = first THEN 0 ELSE 1]
WorkerSymmetry == Permutations(Workers)

\* Bound: the first selection that overwrites another's cursors is the last thing to happen.
NoOverlapYet == lost = 0
=============================================================================
