---------------------------- MODULE MCBuildPipeline ----------------------------
(* Instances of BuildPipeline for TLC: one item, for the repair loop, and  *)
(* two items of which the second depends on the first or on nothing.       *)
EXTENDS BuildPipeline, TLC

CONSTANTS w1, w2, base, top

OneItem == <<base>>
TwoItems == <<base, top>>
Independent == [i \in Items |-> {}]
TopNeedsBase == [i \in Items |-> IF i = top THEN {base} ELSE {}]

WorkerSymmetry == Permutations(Workers)

\* Bound: findings and wind-downs are those of the first item.
FirstItemOnly ==
  findings[top] = <<>> /\ \A n \in 1 .. MaxWinds : st[Implement(top, Wind(n))] = "absent"
=============================================================================
