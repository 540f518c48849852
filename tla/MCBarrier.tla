----------------------------- MODULE MCBarrier -----------------------------
(* Barrier with the two controlling computers of the lane. *)
EXTENDS Barrier

CONSTANTS robot, manual

MCReceivers == {robot, manual}
=============================================================================
