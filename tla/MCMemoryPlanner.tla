--------------------------- MODULE MCMemoryPlanner ---------------------------
(* Buffers of three sizes that live in some of three steps. *)
EXTENDS MemoryPlanner

MCRequirements ==
    {r \in [size : 1..3, first : 0..2, last : 0..2] :
        /\ r.first <= r.last
        /\ r.size > 1 => r.last > 0
        /\ r.size = 3 => r.first = r.last}
=============================================================================
