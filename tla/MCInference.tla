----------------------------- MODULE MCInference -----------------------------
(* Three operators over an input (1), a weight (2) and what they make (3, 4,
   5): a chain, a residual connection, a second consumer of the input, an early
   result, a result nobody reads; with no scratch buffer or one for an operator. *)
EXTENDS Inference

Shapes ==
    {<<[in |-> {1, 2}, out |-> {3}], [in |-> {3}, out |-> {4}], [in |-> x, out |-> {5}]>> :
        x \in {{4}, {3, 4}, {1, 4}, {3}}}

MCGraphs ==
    {[ops |-> o, tensors |-> 5, bytes |-> [e \in 1..8 |-> IF e \in DOMAIN b THEN b[e] ELSE 3],
      inputs |-> {1}, outputs |-> r, kept |-> {2}, scratch |-> s] :
        o \in Shapes, r \in {{5}, {3, 5}, {1, 5}}, s \in {<<>>, <<1>>, <<2, 0>>, <<2, 1, 0>>},
        b \in [{1, 3, 4, 5} -> {1, 3}]}

MCRequirements == [size : 0..4, first : -1..3, last : -1..3]
=============================================================================
