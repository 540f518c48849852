--------------------------- MODULE MCCoilReporter ---------------------------
(* CoilReporter on small lanes. *)
EXTENDS CoilReporter

Both   == {0, 1}
None   == {}
=============================================================================
