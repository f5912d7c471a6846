---------------------------- MODULE MCTensorArena ----------------------------
(* An arena of some cells that starts out of alignment; handles of two cells. *)
EXTENDS TensorArena

MCSizes == {0, 3}
=============================================================================
