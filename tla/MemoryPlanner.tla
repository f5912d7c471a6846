---------------------------- MODULE MemoryPlanner ----------------------------
(***************************************************************************)
(* GreedyMemoryPlanner, which lays out the activations of the tflite guest *)
(* in its tensor arena: src/modules/tflite/tensorflow/tensorflow/lite/     *)
(* micro/memory_planner/greedy_memory_planner.{h,cc}.                      *)
(*                                                                         *)
(* Buffers are sorted by size and placed one by one, each into the first   *)
(* gap between the buffers alive at the same time.  One step of the model  *)
(* is one turn of a loop of the code: a comparison of the bubble sort, or  *)
(* one buffer considered in the search for a gap.                          *)
(*                                                                         *)
(* Buffers are numbered from 1 here, from 0 in the code; sums of sizes are *)
(* taken to fit the code's int.                                            *)
(***************************************************************************)
EXTENDS Integers, Sequences

CONSTANTS
    Requirements,   \* the buffers a client may ask for
    MaxBuffers      \* max_buffer_count_: how many fit the scratch memory

ASSUME PlannerAssumption ==
    /\ Requirements \subseteq [size : Nat, first : Int, last : Int]
    /\ MaxBuffers \in Nat

VARIABLES
    req,        \* requirements_, in the order of AddBuffer
    stale,      \* need_to_calculate_offsets_
    pc,         \* outside of the planner, sorting, or searching a gap
    ids,        \* buffer_ids_sorted_by_size_
    at,         \* where the pass of the sort is
    swapped,    \* any_swapped
    placed,     \* the list of entries, from first_entry on, as buffer numbers
    offset,     \* buffer_offsets_, -1 where none is computed
    prior,      \* prior_entry, as a position in the list; 0 is nullptr
    candidate   \* candidate_offset

plannerVars == <<req, stale, pc, ids, at, swapped, placed, offset, prior, candidate>>

Ids == 1..MaxBuffers
Count == Len(req)

\* How a requirement's time range meets another: DoesEntryOverlapInTime.
OverlapInTime(a, b) == ~(req[a].first > req[b].last \/ req[b].first > req[a].last)

End(b) == offset[b] + req[b].size

TypeOK ==
    /\ req \in Seq(Requirements) /\ Count <= MaxBuffers
    /\ stale \in BOOLEAN
    /\ pc \in {"idle", "sort", "search"}
    /\ ids \in Seq(Ids)
    /\ at \in Nat
    /\ swapped \in BOOLEAN
    /\ placed \in Seq(Ids)
    /\ offset \in [Ids -> Int]
    /\ prior \in 0..Len(placed)
    /\ candidate \in Nat

PlannerInit ==
    /\ req = <<>> /\ stale = TRUE /\ pc = "idle"
    /\ ids = <<>> /\ at = 0 /\ swapped = FALSE
    /\ placed = <<>> /\ offset = [b \in Ids |-> -1]
    /\ prior = 0 /\ candidate = 0

-----------------------------------------------------------------------------
(* The client's calls *)

\* Mistake: a plan made before stays in force.
AddBufferQuietly(r) ==
    /\ pc = "idle"
    /\ Count < MaxBuffers
    /\ req' = Append(req, r)
    /\ UNCHANGED <<stale, pc, ids, at, swapped, placed, offset, prior, candidate>>

\* A buffer more; beyond max_buffer_count_ the call fails and changes nothing.
AddBuffer(r) ==
    /\ pc = "idle"
    /\ Count < MaxBuffers
    /\ req' = Append(req, r)
    /\ stale' = TRUE
    /\ UNCHANGED <<pc, ids, at, swapped, placed, offset, prior, candidate>>

\* Every question about the plan makes one first, if buffers came in since.
CalculateOffsetsIfNeeded ==
    /\ pc = "idle" /\ stale /\ Count > 0
    /\ stale' = FALSE
    /\ pc' = "sort"
    /\ ids' = [k \in 1..Count |-> k]
    /\ offset' = [b \in Ids |-> -1]
    /\ at' = 2 /\ swapped' = FALSE
    /\ placed' = <<>>
    /\ UNCHANGED <<req, prior, candidate>>

\* The answers: where a buffer lies, and how much memory all of them need.
Planned == pc = "idle" /\ ~stale
GetOffsetForBuffer(b) == offset[b]
MaximumMemorySize ==
    LET ends == {End(placed[p]) : p \in 1..Len(placed)}
    IN  IF ends = {} THEN 0 ELSE CHOOSE m \in ends : \A e \in ends : e <= m

-----------------------------------------------------------------------------
(* CalculateOffsetsIfNeeded, step by step *)

\* Mistake: equal neighbours change places as well.
CompareEqual ==
    /\ pc = "sort" /\ at <= Count
    /\ LET l == ids[at - 1]
           r == ids[at]
       IN  IF req[l].size <= req[r].size
           THEN /\ ids' = [ids EXCEPT ![at - 1] = r, ![at] = l]
                /\ swapped' = TRUE
           ELSE UNCHANGED <<ids, swapped>>
    /\ at' = at + 1
    /\ UNCHANGED <<req, stale, pc, placed, offset, prior, candidate>>

\* One comparison of a pass: neighbours out of order change places.
Compare ==
    /\ pc = "sort" /\ at <= Count
    /\ LET l == ids[at - 1]
           r == ids[at]
       IN  IF req[l].size < req[r].size
           THEN /\ ids' = [ids EXCEPT ![at - 1] = r, ![at] = l]
                /\ swapped' = TRUE
           ELSE UNCHANGED <<ids, swapped>>
    /\ at' = at + 1
    /\ UNCHANGED <<req, stale, pc, placed, offset, prior, candidate>>

\* A pass that has swapped is followed by another one.
PassAgain ==
    /\ pc = "sort" /\ at > Count /\ swapped
    /\ at' = 2 /\ swapped' = FALSE
    /\ UNCHANGED <<req, stale, pc, ids, placed, offset, prior, candidate>>

\* Where the next buffer is searched for, if there is one.
SearchFrom(n) ==
    /\ pc' = IF n < Count THEN "search" ELSE "idle"
    /\ prior' = 0 /\ candidate' = 0

\* The largest buffer starts the plan at offset zero.
PlaceLargest ==
    /\ pc = "sort" /\ at > Count /\ ~swapped
    /\ placed' = <<ids[1]>>
    /\ offset' = [offset EXCEPT ![ids[1]] = 0]
    /\ SearchFrom(1)
    /\ UNCHANGED <<req, stale, ids, at, swapped>>

\* The buffer to place: the largest of those that are left.
Wanted == ids[Len(placed) + 1]

\* The positions after the prior entry of the buffers alive with the wanted one.
Following == {q \in prior + 1..Len(placed) : OverlapInTime(placed[q], Wanted)}

\* NextSimultaneouslyActiveBuffer: the first of them.
IsNext(q) == q \in Following /\ \A r \in Following : q <= r

\* Mistake: only the prior entry counts, not one before it that ends later.
CandidateOfPrior == IF prior # 0 THEN End(placed[prior]) ELSE candidate

\* The end of everything alive up to the prior entry.
Candidate ==
    IF prior # 0 /\ End(placed[prior]) > candidate
    THEN End(placed[prior]) ELSE candidate

\* Mistake: a gap of just the size is refused.
FitsLoosely(q) == offset[placed[q]] - Candidate > req[Wanted].size
Fits(q) == offset[placed[q]] - Candidate >= req[Wanted].size

\* The gap before the next entry is too small: it becomes the prior one.
PassEntry ==
    /\ pc = "search"
    /\ \E q \in Following : IsNext(q) /\ ~Fits(q) /\ prior' = q
    /\ candidate' = Candidate
    /\ UNCHANGED <<req, stale, pc, ids, at, swapped, placed, offset>>

\* The list with b after the entries, the first one included, that lie at c or before.
InsertAfter(k, b) ==
    [p \in 1..Len(placed) + 1 |->
        IF p <= k THEN placed[p] ELSE IF p = k + 1 THEN b ELSE placed[p - 1]]

IsPlaceFor(k, c) ==
    /\ k \in 1..Len(placed)
    /\ \A p \in 2..k : offset[placed[p]] <= c
    /\ k < Len(placed) => offset[placed[k + 1]] > c

\* The gap is large enough, or nothing alive follows: the buffer goes there.
Place ==
    /\ pc = "search"
    /\ Following = {} \/ \E q \in Following : IsNext(q) /\ Fits(q)
    /\ offset' = [offset EXCEPT ![Wanted] = Candidate]
    /\ \E k \in 1..Len(placed) :
        /\ IsPlaceFor(k, Candidate)
        /\ placed' = InsertAfter(k, Wanted)
    /\ SearchFrom(Len(placed) + 1)
    /\ UNCHANGED <<req, stale, ids, at, swapped>>

Plan == CalculateOffsetsIfNeeded \/ Compare \/ PassAgain \/ PlaceLargest \/ PassEntry \/ Place

PlannerNext == (\E r \in Requirements : AddBuffer(r)) \/ Plan

PlannerSpec == PlannerInit /\ [][PlannerNext]_plannerVars

\* The planner runs on the guest's one thread until it answers.
PlannerFairSpec == PlannerSpec /\ WF_plannerVars(Plan)

-----------------------------------------------------------------------------
(* Properties *)

Apart(a, b) == offset[a] >= End(b) \/ offset[b] >= End(a)

\* DoAnyBuffersOverlap finds nothing, at any point of the plan: buffers that
\* are alive at the same time share no memory, whatever gaps the search took.
NoOverlap ==
    \A p, q \in 1..Len(placed) :
        p # q /\ OverlapInTime(placed[p], placed[q]) => Apart(placed[p], placed[q])

\* A plan in force places every buffer, at an offset the arena has and inside
\* of the size the planner reports: no answer of GetOffsetForBuffer is the -1
\* or the offset of an earlier plan, however AddBuffer and questions alternate.
PlanCovers ==
    Planned => \A b \in 1..Count : /\ offset[b] >= 0
                                   /\ End(b) <= MaximumMemorySize

\* "The first gap between simultaneously active buffers that the current
\* buffer fits into will be used" (greedy_memory_planner.h:39): at any smaller
\* offset a buffer would hit one that was placed before it and lives with it.
Hits(x, b, a) == x < End(a) /\ offset[a] < x + req[b].size
FirstGap ==
    \A m \in 1..Len(placed) : \A x \in 0..offset[ids[m]] - 1 :
        \E k \in 1..m - 1 : OverlapInTime(ids[k], ids[m]) /\ Hits(x, ids[m], ids[k])

\* A question asked is answered: the passes of the sort and the searches end.
PlanEnds == pc # "idle" ~> Planned
=============================================================================
