---------------------------- MODULE MCDeliveryCycle ----------------------------
(* The instance of DeliveryCycle for TLC: one worker, two cycles, one      *)
(* automated finding that is clear, and the human's, which is vague.       *)
EXTENDS DeliveryCycle

CONSTANT w1
=============================================================================
