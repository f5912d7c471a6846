------------------------------ MODULE Inference ------------------------------
(***************************************************************************)
(* One inference of the tflite guest: MicroAllocator::                     *)
(* FinishTensorAllocation finds out when each tensor is used, has the      *)
(* planner lay the tensors out in the arena, and MicroInterpreter::Invoke  *)
(* then runs the operators on that memory (micro_allocator.cc,             *)
(* micro_interpreter.cc and main.cpp under src/modules/tflite).            *)
(*                                                                         *)
(* Operators have the code's numbers, 0 first; tensors and scratch buffers *)
(* are the entries of the AllocationInfo array, 1 first, tensors before    *)
(* scratch buffers.  Memory is a map from cells of the arena to the entry  *)
(* whose contents they hold: what an operator finds in its inputs decides  *)
(* whether the layout was right.                                           *)
(***************************************************************************)
EXTENDS MemoryPlanner

CONSTANTS
    Graphs,             \* the models: operators, tensors and scratch buffers
    kBufferAlignment,
    Available           \* what the arena has left: GetAvailableMemory

\* A graph is a sequence of operators [in, out] over the tensors 1..tensors;
\* kept are the tensors with a place of their own, weights and variables.
Operators(g) == 0..Len(g.ops) - 1
Op(g, i) == g.ops[i + 1]
Tensors(g) == 1..g.tensors
Entries(g) == 1..g.tensors + Len(g.scratch)

AlignSizeUp(size) == ((size + (kBufferAlignment - 1)) \div kBufferAlignment) * kBufferAlignment

\* What a model file promises: operators come in an order in which each tensor
\* is the graph's input or made once, before it is used.
WellFormed(g) ==
    /\ g.tensors \in Nat /\ Len(g.ops) \in Nat /\ Len(g.scratch) \in Nat
    /\ g.inputs \cup g.outputs \cup g.kept \subseteq Tensors(g)
    /\ \A i \in Operators(g) : Op(g, i).in \cup Op(g, i).out \subseteq Tensors(g)
    /\ \A e \in Entries(g) : g.bytes[e] \in Nat
    /\ \A s \in 1..Len(g.scratch) : g.scratch[s] \in Operators(g)
    /\ \A i, j \in Operators(g) : \A t \in Op(g, i).out :
          /\ t \notin g.inputs \cup g.kept
          /\ t \in Op(g, j).out => i = j
          /\ t \in Op(g, j).in => i < j
    /\ g.inputs \cap g.kept = {}
    /\ \A t \in g.outputs \cup UNION {Op(g, i).in : i \in Operators(g)} :
          t \in g.inputs \cup g.kept \cup UNION {Op(g, i).out : i \in Operators(g)}

ASSUME InferenceAssumption ==
    /\ kBufferAlignment \in Nat \ {0}
    /\ Available \in Nat
    /\ \A g \in Graphs : WellFormed(g)
    /\ \A g \in Graphs : \A e \in Entries(g) : \A f, l \in -1..Len(g.ops) :
          [size |-> AlignSizeUp(g.bytes[e]), first |-> f, last |-> l] \in Requirements

VARIABLES
    graph,      \* the model
    phase,      \* where FinishTensorAllocation and then Invoke are
    op,         \* the operator a loop over the operators is at
    entry,      \* the entry a loop over the AllocationInfo array is at
    first,      \* AllocationInfo.first_created
    last,       \* AllocationInfo.last_used
    needs,      \* AllocationInfo.needs_allocating
    index,      \* planner_index of CommitPlan
    ptr,        \* the tensors' and buffers' data pointers, -1 for null
    mem,        \* whose contents the cells of the arena hold, 0: nobody's
    slot        \* ghost: the planner's count of buffers after each entry

inferenceVars == <<graph, phase, op, entry, first, last, needs, index, ptr, mem, slot>>
vars == <<plannerVars, inferenceVars>>

Phases == {"lifetimes", "create", "commit", "input", "invoke", "done", "failed"}

Cells == 0..Available - 1
Nowhere == [e \in Entries(graph) |-> -1]

\* Mistake: the model's inputs are not marked as made before the first operator.
InitUnmarked ==
    /\ PlannerInit
    /\ graph \in Graphs
    /\ phase = "lifetimes" /\ op = Len(graph.ops) - 1 /\ entry = 1 /\ index = 0
    /\ first = Nowhere
    /\ last = [t \in Entries(graph) |-> IF t \in graph.outputs THEN Len(graph.ops) - 1 ELSE -1]
    /\ needs = [t \in Entries(graph) |-> t \in Tensors(graph) \ graph.kept]
    /\ ptr = Nowhere /\ slot = Nowhere /\ mem = [c \in Cells |-> 0]

Init ==
    /\ PlannerInit
    /\ graph \in Graphs
    /\ phase = "lifetimes"
    /\ op = Len(graph.ops) - 1
    /\ entry = 1 /\ index = 0
    \* AddTensors marks the inputs and the outputs before it looks at the operators.
    /\ first = [t \in Entries(graph) |-> IF t \in graph.inputs THEN 0 ELSE -1]
    /\ last = [t \in Entries(graph) |->
                  IF t \in graph.outputs THEN Len(graph.ops) - 1 ELSE -1]
    /\ needs = [t \in Entries(graph) |-> t \in Tensors(graph) \ graph.kept]
    /\ ptr = Nowhere
    /\ slot = Nowhere
    /\ mem = [c \in Cells |-> 0]

-----------------------------------------------------------------------------
(* AllocationInfoBuilder *)

\* Mistake: the walk, which goes backwards, overwrites a later use.
LifetimesOfFirstUse ==
    /\ phase = "lifetimes" /\ op >= 0
    /\ last' = [t \in Entries(graph) |-> IF t \in Op(graph, op).in THEN op ELSE last[t]]
    /\ first' = [t \in Entries(graph) |->
                  IF t \in Op(graph, op).out /\ (first[t] = -1 \/ first[t] > op)
                  THEN op ELSE first[t]]
    /\ op' = op - 1
    /\ UNCHANGED <<plannerVars, graph, phase, entry, needs, index, ptr, mem, slot>>

\* AddTensors: the operators from the last one back, each widening the
\* lifetimes of the tensors it reads and writes.
LifetimesOfOperator ==
    /\ phase = "lifetimes" /\ op >= 0
    /\ last' = [t \in Entries(graph) |->
                  IF t \in Op(graph, op).in /\ (last[t] = -1 \/ last[t] < op)
                  THEN op ELSE last[t]]
    /\ first' = [t \in Entries(graph) |->
                  IF t \in Op(graph, op).out /\ (first[t] = -1 \/ first[t] > op)
                  THEN op ELSE first[t]]
    /\ op' = op - 1
    /\ UNCHANGED <<plannerVars, graph, phase, entry, needs, index, ptr, mem, slot>>

ReadOnly(t) == first[t] = -1 /\ last[t] # -1
HasPartialLifetime(t) == ~ReadOnly(t) /\ (first[t] = -1 \/ last[t] = -1)

\* Mistake: the scratch buffers' operators are read from the other end.
CheckLifetimesReversed ==
    /\ phase = "lifetimes" /\ op < 0
    /\ IF \E t \in Tensors(graph) : HasPartialLifetime(t) /\ needs[t]
       THEN phase' = "failed" /\ UNCHANGED <<first, last, needs>>
       ELSE LET node(e) == graph.scratch[Len(graph.scratch) + 1 - (e - graph.tensors)]
            IN  /\ phase' = "create"
                /\ first' = [e \in Entries(graph) |-> IF e \in Tensors(graph) THEN first[e] ELSE node(e)]
                /\ last' = [e \in Entries(graph) |-> IF e \in Tensors(graph) THEN last[e] ELSE node(e)]
                /\ needs' = [e \in Entries(graph) |->
                                e \in Tensors(graph) => needs[e] /\ ~ReadOnly(e)]
    /\ UNCHANGED <<plannerVars, graph, op, entry, index, ptr, mem, slot>>

\* Then which of them need memory.  A tensor that does and is never made or
\* never used ends the allocation; else the scratch buffers join, each alive
\* for its own operator.
CheckLifetimes ==
    /\ phase = "lifetimes" /\ op < 0
    /\ IF \E t \in Tensors(graph) : HasPartialLifetime(t) /\ needs[t]
       THEN phase' = "failed" /\ UNCHANGED <<first, last, needs>>
       ELSE LET node(e) == graph.scratch[e - graph.tensors]
            IN  /\ phase' = "create"
                /\ first' = [e \in Entries(graph) |-> IF e \in Tensors(graph) THEN first[e] ELSE node(e)]
                /\ last' = [e \in Entries(graph) |-> IF e \in Tensors(graph) THEN last[e] ELSE node(e)]
                /\ needs' = [e \in Entries(graph) |->
                                e \in Tensors(graph) => needs[e] /\ ~ReadOnly(e)]
    /\ UNCHANGED <<plannerVars, graph, op, entry, index, ptr, mem, slot>>

-----------------------------------------------------------------------------
(* The plan *)

\* CreatePlan: the next entry, handed to the planner if it needs memory.  A
\* planner that is full ends the allocation.
CreatePlan ==
    /\ phase = "create" /\ entry \in Entries(graph)
    /\ IF needs[entry]
       THEN \/ /\ AddBuffer([size |-> AlignSizeUp(graph.bytes[entry]),
                             first |-> first[entry], last |-> last[entry]])
               /\ phase' = phase
            \/ Count >= MaxBuffers /\ phase' = "failed" /\ UNCHANGED plannerVars
       ELSE UNCHANGED <<plannerVars, phase>>
    /\ slot' = [slot EXCEPT ![entry] = Len(req')]
    /\ entry' = entry + 1
    /\ UNCHANGED <<graph, op, first, last, needs, index, ptr, mem>>

\* The question for the maximum makes the planner work,
MakePlan ==
    /\ phase = "create" /\ entry \notin Entries(graph)
    /\ Plan
    /\ UNCHANGED inferenceVars

\* Mistake: the size is not compared with what the arena has.
CheckSizeNever ==
    /\ phase = "create" /\ entry \notin Entries(graph)
    /\ Planned \/ Count = 0
    /\ phase' = "commit" /\ entry' = 1
    /\ UNCHANGED <<plannerVars, graph, op, first, last, needs, index, ptr, mem, slot>>

\* and its answer must fit the arena.
CheckSize ==
    /\ phase = "create" /\ entry \notin Entries(graph)
    /\ Planned \/ Count = 0
    /\ phase' = IF MaximumMemorySize > Available THEN "failed" ELSE "commit"
    /\ entry' = 1
    /\ UNCHANGED <<plannerVars, graph, op, first, last, needs, index, ptr, mem, slot>>

\* Mistake: only entries that need memory are gone past.
CommitPlanStuck ==
    /\ phase = "commit" /\ entry \in Entries(graph)
    /\ IF needs[entry]
       THEN /\ ptr' = [ptr EXCEPT ![entry] = GetOffsetForBuffer(index + 1)]
            /\ index' = index + 1 /\ entry' = entry + 1
       ELSE UNCHANGED <<ptr, index, entry>>
    /\ UNCHANGED <<plannerVars, graph, phase, op, first, last, needs, mem, slot>>

\* CommitPlan: the pointers, by the order in which the entries were handed in.
CommitPlan ==
    /\ phase = "commit" /\ entry \in Entries(graph)
    /\ IF needs[entry]
       THEN ptr' = [ptr EXCEPT ![entry] = GetOffsetForBuffer(index + 1)] /\ index' = index + 1
       ELSE UNCHANGED <<ptr, index>>
    /\ entry' = entry + 1
    /\ UNCHANGED <<plannerVars, graph, phase, op, first, last, needs, mem, slot>>

\* AllocateVariables gives the variables memory of their own, if there is any left.
AllocateVariables ==
    /\ phase = "commit" /\ entry \notin Entries(graph)
    /\ phase' \in {"input", "failed"}
    /\ UNCHANGED <<plannerVars, graph, op, entry, first, last, needs, index, ptr, mem, slot>>

-----------------------------------------------------------------------------
(* The inference *)

\* The cells of an entry, as far as they are the arena's.
CellsOf(e) == ptr[e]..ptr[e] + graph.bytes[e] - 1
Planneds(S) == {e \in S : needs[e]}

\* Contents are written over whatever the cells held.
Writes(S) ==
    mem' = [c \in Cells |->
              IF \E e \in Planneds(S) : c \in CellsOf(e)
              THEN CHOOSE e \in Planneds(S) : c \in CellsOf(e) ELSE mem[c]]

\* main fills the model's inputs,
FillInput ==
    /\ phase = "input"
    /\ Writes(graph.inputs)
    /\ phase' = "invoke" /\ op' = 0
    /\ UNCHANGED <<plannerVars, graph, entry, first, last, needs, index, ptr, slot>>

ScratchOf(i) == {e \in Entries(graph) : e \notin Tensors(graph) /\ graph.scratch[e - graph.tensors] = i}

\* and Invoke runs one operator after the other; a kernel writes its outputs
\* and its scratch buffers, and may report an error, which ends the inference.
InvokeOperator ==
    /\ phase = "invoke" /\ op \in Operators(graph)
    /\ Writes(Op(graph, op).out \cup ScratchOf(op))
    /\ op' = op + 1
    /\ phase' \in {"invoke", "failed"}
    /\ UNCHANGED <<plannerVars, graph, entry, first, last, needs, index, ptr, slot>>

\* The results are the guest's to read.
InvokeDone ==
    /\ phase = "invoke" /\ op \notin Operators(graph)
    /\ phase' = "done"
    /\ UNCHANGED <<plannerVars, graph, op, entry, first, last, needs, index, ptr, mem, slot>>

Next == LifetimesOfOperator \/ CheckLifetimes \/ CreatePlan \/ MakePlan \/ CheckSize
        \/ CommitPlan \/ AllocateVariables \/ FillInput \/ InvokeOperator \/ InvokeDone

Spec == Init /\ [][Next]_vars

\* The guest's one thread runs as long as it has something to do.
FairSpec == Spec /\ WF_vars(Next)

-----------------------------------------------------------------------------
(* Properties *)

Lifetime == -1..Len(graph.ops)

InferenceTypeOK ==
    /\ graph \in Graphs
    /\ phase \in Phases
    /\ op \in -1..Len(graph.ops)
    /\ entry \in Nat \ {0}
    /\ index \in 0..Count
    /\ first \in [Entries(graph) -> Lifetime] /\ last \in [Entries(graph) -> Lifetime]
    /\ needs \in [Entries(graph) -> BOOLEAN]
    /\ ptr \in [Entries(graph) -> -1..Available]
    /\ mem \in [Cells -> {0} \cup Entries(graph)]
    /\ slot \in [Entries(graph) -> -1..Count]

\* An entry's contents are all there, in the arena or in a place of its own.
Holds(e) ==
    \/ e \in graph.kept
    \/ ptr[e] # -1 /\ \A c \in CellsOf(e) : c \in Cells /\ mem[c] = e

\* Whatever operators ran in between, a kernel finds in its inputs what the
\* caller or the operator that made them has written.
OperandsIntact ==
    phase = "invoke" /\ op \in Operators(graph) => \A t \in Op(graph, op).in : Holds(t)

\* No kernel's outputs or scratch buffers lie on each other or on its inputs:
\* after it has run, all of them hold what was put there.
WorkingSetApart ==
    phase = "invoke" /\ op - 1 \in Operators(graph) =>
        \A e \in Op(graph, op - 1).in \cup Op(graph, op - 1).out \cup ScratchOf(op - 1) : Holds(e)

\* The outputs are still there when the last operator has run, those an early
\* operator made as well.
ResultsIntact == phase = "done" => \A t \in graph.outputs : Holds(t)

\* Every inference ends, with its results or with an error.
InferenceEnds == <>(phase \in {"done", "failed"})
=============================================================================
