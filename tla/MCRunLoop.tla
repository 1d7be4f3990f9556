------------------------------ MODULE MCRunLoop ------------------------------
(* The instance of RunLoop for TLC: the bounds are numbers, given in the cfg. *)
EXTENDS RunLoop
=============================================================================
