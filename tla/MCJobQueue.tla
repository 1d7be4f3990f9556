------------------------------ MODULE MCJobQueue ------------------------------
(* Instances of JobQueue for TLC: one handler that raises its own gate     *)
(* (ask), one that does not (run), and a chain of both.                    *)
EXTENDS JobQueue

CONSTANTS w1, w2, run, ask

DistinctOwners == [w \in Workers |-> IF w = w1 THEN "a" ELSE "b"]
AskThenRun == [j \in Jobs |-> IF j = run THEN Jobs \cap {ask} ELSE {}]
=============================================================================
