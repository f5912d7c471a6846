----------------------------- MODULE TensorArena -----------------------------
(***************************************************************************)
(* The tensor arena of the tflite guest: SimpleMemoryAllocator takes       *)
(* persistent memory from the arena's tail and activations from its head,  *)
(* and MicroAllocator, driven by MicroInterpreter::AllocateTensors, uses   *)
(* what lies between for the AllocationInfo array and the planner before   *)
(* it commits the plan (simple_memory_allocator.cc, micro_allocator.cc and *)
(* micro_interpreter.cc under src/modules/tflite).                         *)
(*                                                                         *)
(* How much a model's tensors, nodes and kernels ask for is open, and so   *)
(* is the size of the plan (MemoryPlanner).  A failed AllocateTensors may  *)
(* be tried again, by the client or by Invoke.                             *)
(***************************************************************************)
EXTENDS Integers, Sequences

CONSTANTS
    Base, Size,         \* tensor_arena and arena_size
    Sizes,              \* what is asked for at once, in bytes
    Alignments,         \* the alignments of the structures at the tail
    kBufferAlignment,
    AllocatorSize,      \* sizeof(SimpleMemoryAllocator), which is in the arena
    HandleSize,         \* sizeof(ScratchBufferHandle),
    HandleAlign         \* and its alignof

AlignPointerUp(p, a) == ((p + (a - 1)) \div a) * a
AlignPointerDown(p, a) == (p \div a) * a

Top == Base + Size
Bottom == AlignPointerUp(Base, kBufferAlignment)

\* The arena holds its allocator, and no request is larger than an address in
\* the arena: tail_ - size does not wrap.
ASSUME ArenaAssumption ==
    /\ Base \in Nat /\ Size \in Nat
    /\ Sizes \subseteq 0..Base /\ AllocatorSize \in Nat /\ HandleSize \in 1..Base
    /\ Alignments \subseteq Nat \ {0} /\ kBufferAlignment \in Nat \ {0}
    /\ HandleAlign \in Nat \ {0}
    /\ HandleSize % HandleAlign = 0
    /\ Bottom <= AlignPointerDown(Top - AllocatorSize, HandleAlign)

VARIABLES
    phase,          \* what the interpreter is at
    head, tail,     \* of memory_allocator_
    active,         \* active_
    persistent,     \* what was allocated at the tail, as [lo, hi]
    activations,    \* what was allocated at the head
    temporaries,    \* the AllocationInfo array and the planner's scratch memory
    handles,        \* the scratch buffers' handles in the order of the requests
    newest          \* scratch_buffer_handles_, 0 for null

vars == <<phase, head, tail, active, persistent, activations, temporaries, handles, newest>>

Phases == {"construct", "constructed", "nodes", "init", "prepare", "finish", "variables",
           "allocated", "failed"}

Init ==
    /\ phase = "construct" /\ active = FALSE
    /\ head = Bottom
    /\ tail = AlignPointerDown(Top - AllocatorSize, HandleAlign)
    /\ persistent = {[lo |-> tail, hi |-> tail + AllocatorSize]}
    /\ activations = {} /\ temporaries = {}
    /\ handles = <<>> /\ newest = 0

-----------------------------------------------------------------------------
(* SimpleMemoryAllocator *)

FromTail(size, alignment) == AlignPointerDown(tail - size, alignment)

\* Mistake: the room is looked at before the address is aligned.
TailHoldsUnaligned(size, alignment) == tail - size >= head

TailHolds(size, alignment) == FromTail(size, alignment) >= head

AllocateFromTail(size, alignment) ==
    /\ TailHolds(size, alignment)
    /\ tail' = FromTail(size, alignment)
    /\ persistent' = persistent \cup {[lo |-> tail', hi |-> tail' + size]}

GetAvailableMemory == tail - head

\* At the head everything is allocated with alignment 1.
AllocateFromHead(size) ==
    /\ size <= GetAvailableMemory
    /\ head' = head + size
    /\ activations' = activations \cup {[lo |-> head, hi |-> head']}

-----------------------------------------------------------------------------
(* MicroAllocator, in the order of MicroInterpreter *)

\* A structure at the tail: tensors and their quantization while the allocator
\* is constructed, nodes and their options in AllocateNodeAndRegistrations.
AllocateStructure ==
    /\ phase \in {"construct", "nodes"}
    /\ \E size \in Sizes, alignment \in Alignments : AllocateFromTail(size, alignment)
    /\ UNCHANGED <<phase, head, active, activations, temporaries, handles, newest>>

\* All of them fit, or one does not; a tensor or a node may also be unknown.
\* The interpreter takes no notice of what became of its allocator.
Constructed ==
    /\ phase = "construct"
    /\ phase' = "constructed"
    /\ active' \in BOOLEAN
    /\ UNCHANGED <<head, tail, persistent, activations, temporaries, handles, newest>>

\* AllocateTensors is called, by the client or by Invoke if it has not succeeded.
AllocateTensors ==
    /\ phase \in {"constructed", "failed"}
    /\ phase' = IF active THEN "nodes" ELSE "failed"
    /\ UNCHANGED <<head, tail, active, persistent, activations, temporaries, handles, newest>>

\* Nodes, Init of every kernel, Prepare of every kernel; each may fail.
NextStage ==
    /\ \/ phase = "nodes" /\ phase' \in {"init", "failed"}
       \/ phase = "init" /\ phase' = "prepare"
       \/ phase = "prepare" /\ phase' = "failed"
    /\ UNCHANGED <<head, tail, active, persistent, activations, temporaries, handles, newest>>

\* A kernel's state.
AllocatePersistentBuffer ==
    /\ phase \in {"init", "prepare"}
    /\ \E size \in Sizes : AllocateFromTail(size, kBufferAlignment)
    /\ UNCHANGED <<phase, head, active, activations, temporaries, handles, newest>>

\* Mistake: the handles are taken to be in a row.
RequestScratchBufferAnywhere ==
    /\ phase = "prepare"
    /\ AllocateFromTail(HandleSize, HandleAlign)
    /\ newest' = tail'
    /\ handles' = Append(handles, tail')
    /\ UNCHANGED <<phase, head, active, activations, temporaries>>

\* A scratch buffer's handle, unless something was allocated since the last one.
RequestScratchBufferInArena ==
    /\ phase = "prepare"
    /\ newest = 0 \/ newest = tail
    /\ AllocateFromTail(HandleSize, HandleAlign)
    /\ newest' = tail'
    /\ handles' = Append(handles, tail')
    /\ UNCHANGED <<phase, head, active, activations, temporaries>>

\* Mistake: the planner's memory begins with the arena, as it does the first time.
BeginPlanAtBottom ==
    /\ phase = "prepare"
    /\ \E size \in Sizes, alignment \in Alignments :
          LET info == FromTail(size, alignment)
          IN  IF TailHolds(size, alignment)
              THEN /\ temporaries' = {[lo |-> info, hi |-> info + size], [lo |-> Bottom, hi |-> info]}
                   /\ phase' = "finish"
              ELSE phase' = "failed" /\ UNCHANGED temporaries
    /\ UNCHANGED <<head, tail, active, persistent, activations, handles, newest>>

\* FinishTensorAllocation: an allocator of its own for what the planning needs.
BeginPlan ==
    /\ phase = "prepare"
    /\ \E size \in Sizes, alignment \in Alignments :
          LET info == FromTail(size, alignment)
          IN  IF TailHolds(size, alignment)
              THEN /\ temporaries' = {[lo |-> info, hi |-> info + size], [lo |-> head, hi |-> info]}
                   /\ phase' = "finish"
              ELSE phase' = "failed" /\ UNCHANGED temporaries
    /\ UNCHANGED <<head, tail, active, persistent, activations, handles, newest>>

\* The plan is committed if it fits all of what is free, the temporaries included.
CommitPlan ==
    /\ phase = "finish"
    /\ temporaries' = {}
    /\ \/ phase' = "variables" /\ \E size \in Sizes : AllocateFromHead(size)
       \/ phase' = "failed" /\ UNCHANGED <<head, activations>>
    /\ UNCHANGED <<tail, active, persistent, handles, newest>>

AllocateVariable ==
    /\ phase = "variables"
    /\ \E size \in Sizes : AllocateFromTail(size, kBufferAlignment)
    /\ UNCHANGED <<phase, head, active, activations, temporaries, handles, newest>>

\* All variables have memory, and this allocator makes no more; or one has not.
FinishTensorAllocation ==
    /\ phase = "variables"
    /\ \/ phase' = "allocated" /\ active' = FALSE
       \/ phase' = "failed" /\ UNCHANGED active
    /\ UNCHANGED <<head, tail, persistent, activations, temporaries, handles, newest>>

Next == AllocateStructure \/ Constructed \/ AllocateTensors \/ NextStage \/ AllocatePersistentBuffer
        \/ RequestScratchBufferInArena \/ BeginPlan \/ CommitPlan \/ AllocateVariable
        \/ FinishTensorAllocation

Spec == Init /\ [][Next]_vars

\* What a kernel is answered.
GetScratchBuffer(i) == newest + (Len(handles) - i - 1) * HandleSize

-----------------------------------------------------------------------------
(* Properties *)

Regions == [lo : Nat, hi : Nat]

ArenaTypeOK ==
    /\ phase \in Phases
    /\ head \in Nat /\ tail \in Nat
    /\ active \in BOOLEAN
    /\ persistent \subseteq Regions /\ activations \subseteq Regions /\ temporaries \subseteq Regions
    /\ handles \in Seq(Nat) /\ newest \in Nat

Disjoint(r, s) == r.hi <= s.lo \/ s.hi <= r.lo

\* Nothing that was handed out lies on anything else that was, or outside of
\* the arena, whatever failed and was tried again.
RegionsApart ==
    /\ head <= tail
    /\ \A r, s \in persistent \cup activations : r # s => Disjoint(r, s)
    /\ \A r \in persistent \cup activations : Bottom <= r.lo /\ r.lo <= r.hi /\ r.hi <= Top

\* What the planning borrows between head and tail is not in the way of what stays.
TemporariesApart ==
    \A t \in temporaries : /\ \A r \in persistent \cup activations : Disjoint(r, t)
                           /\ \A u \in temporaries : t # u => Disjoint(t, u)

\* A scratch buffer's number leads to the handle that was made for it: the
\* handles are an array, from the newest to the oldest one.
HandlesIndexed ==
    \A i \in 0..Len(handles) - 1 : GetScratchBuffer(i) = handles[i + 1]
=============================================================================
