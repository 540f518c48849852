--------------------------- MODULE MCDisplayTimer ---------------------------
(* DisplayTimer with the two receivers of the lane. *)
EXTENDS DisplayTimer

CONSTANTS robot, manual

MCReceivers == {robot, manual}
=============================================================================
