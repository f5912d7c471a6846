-------------------------- MODULE Inference_proofs --------------------------
(***************************************************************************)
(* Proofs about the planner, for every number of buffers and whatever      *)
(* their sizes and lifetimes, and about one inference, for every model,    *)
(* alignment and arena: the planner's promise that buffers alive together  *)
(* lie apart, and the lifetimes computed from the model, give each         *)
(* operator its inputs.                                                    *)
(***************************************************************************)
EXTENDS Inference, FiniteSets, SequenceTheorems, FiniteSetTheorems, WellFoundedInduction, TLAPS

-----------------------------------------------------------------------------
(* The planner *)

\* The buffers in the order of their sizes: each of them once.
IdsInv ==
    ~stale => /\ Len(ids) = Count
              /\ \A k \in 1..Count : ids[k] \in 1..Count
              /\ \A k, l \in 1..Count : ids[k] = ids[l] => k = l
              /\ \A b \in 1..Count : \E k \in 1..Count : ids[k] = b

\* The list holds placed buffers, each once, in the order of their offsets.
ListInv ==
    /\ Len(placed) <= Count
    /\ Len(placed) > 0 => offset[placed[1]] = 0
    /\ \A p \in 1..Len(placed) : placed[p] \in 1..Count /\ offset[placed[p]] >= 0
    /\ \A p, q \in 1..Len(placed) : placed[p] = placed[q] => p = q
    /\ \A p, q \in 1..Len(placed) : p < q => offset[placed[p]] <= offset[placed[q]]

\* They are the first buffers in the order of sizes.
PrefixInv ==
    ~stale => /\ \A p \in 1..Len(placed) : \E k \in 1..Len(placed) : placed[p] = ids[k]
              /\ \A k \in 1..Len(placed) : \E p \in 1..Len(placed) : placed[p] = ids[k]

\* Where the calculation is.
PhaseInv ==
    /\ pc # "idle" => ~stale /\ Count > 0
    /\ pc = "sort" => placed = <<>> /\ at >= 2
    /\ pc # "search" => prior = 0
    /\ pc = "search" => Len(placed) \in 1..Count - 1
    /\ pc = "idle" /\ ~stale => Len(placed) = Count

\* The candidate offset is beyond everything alive before the prior entry.
SearchInv ==
    pc = "search" =>
        \A q \in 1..prior : q # prior /\ OverlapInTime(placed[q], Wanted)
                            => End(placed[q]) <= candidate

Base == TypeOK /\ IdsInv /\ ListInv /\ PrefixInv /\ PhaseInv

PlannerInv == Base /\ SearchInv /\ NoOverlap

-----------------------------------------------------------------------------
LEMMA CountType ==
    ASSUME TypeOK
    PROVE  /\ Count \in Nat /\ Len(placed) \in Nat /\ Len(ids) \in Nat
           /\ 1..Count \subseteq Ids
  <1>1. Count \in Nat /\ Len(placed) \in Nat /\ Len(ids) \in Nat
    BY LenProperties DEF TypeOK, Count
  <1> QED
    BY <1>1, PlannerAssumption DEF TypeOK, Ids

\* A function on 1..n is a sequence of length n.
LEMMA FunctionSeq ==
    ASSUME NEW S, NEW n \in Nat, NEW f \in [1..n -> S]
    PROVE  f \in Seq(S) /\ Len(f) = n
  <1>1. f \in Seq(S)
    BY SeqDef
  <1>2. 1..Len(f) = 1..n /\ Len(f) \in Nat
    BY <1>1, LenProperties
  <1> QED
    BY <1>1, <1>2

LEMMA ReqType ==
    ASSUME TypeOK, NEW b \in 1..Count
    PROVE  req[b].size \in Nat /\ req[b].first \in Int /\ req[b].last \in Int
  <1>1. req[b] \in Requirements
    BY ElementOfSeq DEF TypeOK, Count
  <1> QED
    BY <1>1, PlannerAssumption

\* A buffer more leaves what is known of the others.
LEMMA Appended ==
    ASSUME TypeOK, NEW r \in Requirements, AddBuffer(r)
    PROVE  /\ Count' = Count + 1
           /\ req' \in Seq(Requirements)
           /\ \A b \in 1..Count : req'[b] = req[b]
  BY AppendProperties DEF TypeOK, AddBuffer, Count

\* The wanted buffer is a new one.
LEMMA WantedType ==
    ASSUME Base, pc = "search"
    PROVE  /\ ~stale
           /\ Wanted \in 1..Count /\ Wanted \in Ids
           /\ \A p \in 1..Len(placed) : placed[p] # Wanted
           /\ Len(placed) \in Nat /\ Len(placed) > 0 /\ Count \in Nat
  <1>1. ~stale /\ Len(placed) \in 1..Count - 1 /\ Count \in Nat /\ Count <= MaxBuffers
    BY LenProperties DEF Base, TypeOK, PhaseInv, Count
  <1>2. Wanted \in 1..Count /\ Wanted \in Ids
    BY <1>1, PlannerAssumption DEF Base, IdsInv, Wanted, Ids
  <1>3. ASSUME NEW p \in 1..Len(placed) PROVE placed[p] # Wanted
    <2>1. PICK k \in 1..Len(placed) : placed[p] = ids[k]
      BY <1>1 DEF Base, PrefixInv
    <2>2. k # Len(placed) + 1 /\ k \in 1..Count /\ Len(placed) + 1 \in 1..Count
      BY <1>1
    <2> QED
      BY <1>1, <2>1, <2>2 DEF Base, IdsInv, Wanted
  <1> QED
    BY <1>1, <1>2, <1>3

LEMMA EntryType ==
    ASSUME Base, NEW p \in 1..Len(placed)
    PROVE  /\ placed[p] \in 1..Count /\ placed[p] \in Ids
           /\ offset[placed[p]] \in Nat /\ End(placed[p]) \in Nat
           /\ req[placed[p]].size \in Nat
           /\ End(placed[p]) = offset[placed[p]] + req[placed[p]].size
  <1>1. placed[p] \in 1..Count /\ placed[p] \in Ids /\ offset[placed[p]] \in Nat
    BY CountType DEF Base, TypeOK, ListInv
  <1> QED
    BY <1>1, ReqType DEF Base, End

LEMMA CandidateType ==
    ASSUME Base
    PROVE  /\ Candidate \in Nat /\ Candidate >= candidate
           /\ prior # 0 => Candidate >= End(placed[prior])
  <1>1. candidate \in Nat /\ prior \in 0..Len(placed) /\ Len(placed) \in Nat
    BY DEF Base, TypeOK
  <1>2. prior # 0 => End(placed[prior]) \in Nat
    BY <1>1, EntryType
  <1> QED
    BY <1>1, <1>2 DEF Candidate

-----------------------------------------------------------------------------
(* The initial state, and a new buffer *)

LEMMA InitInv == PlannerInit => PlannerInv
  <1> SUFFICES ASSUME PlannerInit PROVE PlannerInv
    OBVIOUS
  <1>1. Count = 0 /\ Len(placed) = 0
    BY EmptySeq DEF PlannerInit, Count
  <1>2. TypeOK
    <2>1. <<>> \in Seq(Ids) /\ <<>> \in Seq(Requirements)
      BY EmptySeq
    <2>2. MaxBuffers >= 0
      BY PlannerAssumption
    <2>3. offset \in [Ids -> Int]
      BY DEF PlannerInit
    <2>4. prior \in 0..Len(placed) /\ candidate \in Nat /\ at \in Nat
      BY <1>1 DEF PlannerInit
    <2> QED
      BY <1>1, <2>1, <2>2, <2>3, <2>4 DEF PlannerInit, TypeOK
  <1> QED
    BY <1>1, <1>2 DEF PlannerInit, PlannerInv, Base, IdsInv, ListInv, PrefixInv,
                     PhaseInv, SearchInv, NoOverlap

LEMMA AddBufferInv ==
    ASSUME PlannerInv, NEW r \in Requirements, AddBuffer(r)
    PROVE  PlannerInv'
  <1> USE DEF PlannerInv, Base
  <1>1. /\ Count' = Count + 1 /\ Count \in Nat
        /\ req' \in Seq(Requirements)
        /\ \A b \in 1..Count : req'[b] = req[b]
    BY Appended, LenProperties DEF TypeOK, Count
  <1>2. TypeOK'
    BY <1>1, PlannerAssumption DEF TypeOK, AddBuffer
  <1>3. IdsInv' /\ PrefixInv' /\ PhaseInv' /\ SearchInv'
    BY DEF AddBuffer, IdsInv, PrefixInv, PhaseInv, SearchInv
  <1>4. ListInv'
    <2>1. placed' = placed /\ offset' = offset
      BY DEF AddBuffer
    <2>2. \A b : b \in 1..Count => b \in 1..Count'
      BY <1>1
    <2>3. Len(placed) <= Count'
      <3>1. Len(placed) \in Nat /\ Len(placed) <= Count
        BY LenProperties DEF TypeOK, ListInv
      <3> QED BY <1>1, <3>1
    <2> QED BY <2>1, <2>2, <2>3 DEF ListInv
  <1>5. NoOverlap'
    <2> SUFFICES ASSUME NEW p \in 1..Len(placed), NEW q \in 1..Len(placed), p # q,
                        OverlapInTime(placed[p], placed[q])'
                 PROVE  Apart(placed[p], placed[q])'
      BY DEF NoOverlap, AddBuffer
    <2>1. placed[p] \in 1..Count /\ placed[q] \in 1..Count
      BY DEF ListInv
    <2> QED
      BY <1>1, <2>1 DEF AddBuffer, NoOverlap, OverlapInTime, Apart, End
  <1> QED
    BY <1>2, <1>3, <1>4, <1>5
-----------------------------------------------------------------------------
(* The sort *)

LEMMA CalculateInv ==
    ASSUME PlannerInv, CalculateOffsetsIfNeeded
    PROVE  PlannerInv'
  <1> USE DEF PlannerInv, Base, CalculateOffsetsIfNeeded
  <1>1. Count \in Nat /\ Count' = Count /\ 1..Count \subseteq Ids
    BY CountType DEF Count
  <1>2. ids' \in Seq(Ids) /\ Len(ids') = Count
    <2>1. ids' \in [1..Count -> Ids]
      BY <1>1
    <2> QED
      BY <1>1, <2>1, FunctionSeq
  <1>3. placed' = <<>> /\ Len(placed') = 0 /\ placed' \in Seq(Ids)
    BY EmptySeq
  <1>4. TypeOK'
    <2>1. offset' \in [Ids -> Int]
      OBVIOUS
    <2>2. prior' \in 0..Len(placed') /\ candidate' \in Nat
      BY <1>3 DEF PhaseInv, TypeOK
    <2>3. req' \in Seq(Requirements) /\ Count' <= MaxBuffers
      BY <1>1 DEF TypeOK
    <2>4. stale' \in BOOLEAN /\ pc' = "sort" /\ at' \in Nat /\ swapped' \in BOOLEAN
      OBVIOUS
    <2> HIDE DEF CalculateOffsetsIfNeeded
    <2> QED
      BY <1>2, <1>3, <2>1, <2>2, <2>3, <2>4 DEF TypeOK
  <1>5. IdsInv'
    BY <1>1, <1>2 DEF IdsInv
  <1>6. ListInv' /\ PrefixInv' /\ SearchInv' /\ NoOverlap' /\ PhaseInv'
    BY <1>1, <1>3 DEF ListInv, PrefixInv, SearchInv, NoOverlap, PhaseInv
  <1> QED
    BY <1>4, <1>5, <1>6

LEMMA CompareInv ==
    ASSUME PlannerInv, Compare
    PROVE  PlannerInv'
  <1> USE DEF PlannerInv, Base
  <1>1. /\ Count \in Nat /\ Count' = Count /\ ~stale
        /\ at - 1 \in 1..Count /\ at \in 1..Count /\ Len(ids) = Count
        /\ placed = <<>> /\ Len(placed) = 0
    <2>1. Count \in Nat /\ Count' = Count
      BY CountType DEF Compare, Count
    <2>2. ~stale /\ placed = <<>> /\ at >= 2 /\ at <= Count /\ at \in Nat
      BY DEF Compare, PhaseInv, TypeOK
    <2> QED
      BY <2>1, <2>2, EmptySeq DEF IdsInv
  <1>2. CASE UNCHANGED <<ids, swapped>>
    <2>1. TypeOK'
      BY <1>1, <1>2 DEF Compare, TypeOK
    <2>2. IdsInv' /\ ListInv' /\ PrefixInv' /\ SearchInv' /\ NoOverlap' /\ PhaseInv'
      BY <1>1, <1>2 DEF Compare, IdsInv, ListInv, PrefixInv, SearchInv, NoOverlap, PhaseInv, TypeOK
    <2> QED
      BY <2>1, <2>2
  <1>3. CASE /\ ids' = [ids EXCEPT ![at - 1] = ids[at], ![at] = ids[at - 1]]
             /\ swapped' = TRUE
    <2> DEFINE from(k) == IF k = at - 1 THEN at ELSE IF k = at THEN at - 1 ELSE k
    <2>1. ids \in [1..Count -> Ids]
      BY <1>1, LenProperties DEF TypeOK
    <2>2. ids' \in [1..Count -> Ids] /\ \A k \in 1..Count : ids'[k] = ids[from(k)]
      BY <1>1, <1>3, <2>1
    <2>3. ids' \in Seq(Ids) /\ Len(ids') = Count
      BY <1>1, <2>2, FunctionSeq
    <2>4. /\ \A k \in 1..Count : from(k) \in 1..Count /\ from(from(k)) = k
          /\ \A k, l \in 1..Count : from(k) = from(l) => k = l
      BY <1>1
    <2> HIDE DEF from
    <2>5. IdsInv'
      <3>1. \A k \in 1..Count : ids'[k] \in 1..Count
        BY <1>1, <2>2, <2>4 DEF IdsInv
      <3>2. \A k, l \in 1..Count : ids'[k] = ids'[l] => k = l
        BY <1>1, <2>2, <2>4 DEF IdsInv
      <3>3. ASSUME NEW b \in 1..Count PROVE \E k \in 1..Count : ids'[k] = b
        <4>1. PICK k \in 1..Count : ids[k] = b
          BY <1>1 DEF IdsInv
        <4>2. ids'[from(k)] = b /\ from(k) \in 1..Count
          BY <2>2, <2>4, <4>1
        <4> QED
          BY <4>2
      <3> QED
        BY <1>1, <2>3, <3>1, <3>2, <3>3 DEF IdsInv
    <2>6. TypeOK'
      BY <1>1, <1>3, <2>3 DEF Compare, TypeOK
    <2>7. ListInv' /\ PrefixInv' /\ SearchInv' /\ NoOverlap' /\ PhaseInv'
      BY <1>1 DEF Compare, ListInv, PrefixInv, SearchInv, NoOverlap, PhaseInv, TypeOK
    <2> QED
      BY <2>5, <2>6, <2>7
  <1> QED
    BY <1>2, <1>3 DEF Compare

LEMMA PassAgainInv ==
    ASSUME PlannerInv, PassAgain
    PROVE  PlannerInv'
  <1> USE DEF PlannerInv, Base, PassAgain
  <1>1. Count' = Count /\ placed = <<>> /\ Len(placed) = 0
    BY DEF Count, PhaseInv
  <1>2. TypeOK'
    BY <1>1 DEF TypeOK
  <1>3. IdsInv' /\ ListInv' /\ PrefixInv' /\ SearchInv' /\ NoOverlap' /\ PhaseInv'
    BY <1>1 DEF IdsInv, ListInv, PrefixInv, SearchInv, NoOverlap, PhaseInv
  <1> QED
    BY <1>2, <1>3

LEMMA PlaceLargestInv ==
    ASSUME PlannerInv, PlaceLargest
    PROVE  PlannerInv'
  <1> USE DEF PlannerInv, Base
  <1>1. /\ Count \in Nat /\ Count' = Count /\ Count > 0 /\ ~stale
        /\ ids[1] \in 1..Count /\ ids[1] \in Ids
    BY CountType DEF PlaceLargest, Count, PhaseInv, IdsInv
  <1>2. placed' = <<ids[1]>> /\ Len(placed') = 1 /\ placed'[1] = ids[1] /\ placed' \in Seq(Ids)
    BY <1>1 DEF PlaceLargest
  <1>3. offset' \in [Ids -> Int] /\ offset'[ids[1]] = 0
    BY <1>1 DEF PlaceLargest, TypeOK
  <1>4. TypeOK'
    BY <1>1, <1>2, <1>3 DEF PlaceLargest, SearchFrom, TypeOK
  <1>5. IdsInv'
    BY <1>1 DEF PlaceLargest, IdsInv
  <1>7. PhaseInv'
    BY <1>1, <1>2 DEF PlaceLargest, SearchFrom, PhaseInv
  <1>6. ListInv' /\ PrefixInv' /\ NoOverlap' /\ SearchInv'
    BY <1>1, <1>2, <1>3 DEF PlaceLargest, SearchFrom, ListInv, PrefixInv, NoOverlap, SearchInv
  <1> QED
    BY <1>4, <1>5, <1>6, <1>7
-----------------------------------------------------------------------------
(* The search for a gap *)

LEMMA PassEntryInv ==
    ASSUME PlannerInv, PassEntry
    PROVE  PlannerInv'
  <1> USE DEF PlannerInv, Base
  <1>1. PICK q0 \in Following : IsNext(q0) /\ ~Fits(q0) /\ prior' = q0
    BY DEF PassEntry
  <1>2. /\ Len(placed) \in Nat /\ prior \in 0..Len(placed)
        /\ q0 \in prior + 1..Len(placed) /\ candidate \in Nat
    BY DEF TypeOK, Following
  <1>3. UNCHANGED <<req, stale, pc, ids, at, swapped, placed, offset>> /\ candidate' = Candidate
    BY DEF PassEntry
  <1>4. Candidate \in Nat /\ Candidate >= candidate
        /\ (prior # 0 => Candidate >= End(placed[prior]))
    BY CandidateType
  <1>5. TypeOK'
    BY <1>1, <1>2, <1>3, <1>4 DEF TypeOK, Count
  <1>6. IdsInv' /\ ListInv' /\ PrefixInv' /\ NoOverlap'
    BY <1>3 DEF IdsInv, ListInv, PrefixInv, NoOverlap, OverlapInTime, Apart, End, Count
  <1>7. PhaseInv'
    BY <1>3 DEF PassEntry, PhaseInv, Count
  <1>8. SearchInv'
    <2> SUFFICES ASSUME NEW q \in 1..q0, q # q0, OverlapInTime(placed[q], Wanted)
                 PROVE  End(placed[q]) <= Candidate
      BY <1>1, <1>3 DEF SearchInv, OverlapInTime, Wanted, End
    <2>1. q \in 1..prior
      <3>1. q \notin Following
        BY <1>1, <1>2 DEF IsNext
      <3> QED
        BY <1>2, <3>1 DEF Following
    <2>2. CASE q = prior
      BY <1>2, <1>4, <2>1, <2>2
    <2>3. CASE q # prior
      <3>1. End(placed[q]) <= candidate
        BY <2>1, <2>3 DEF PassEntry, SearchInv
      <3>2. End(placed[q]) \in Nat
        BY <1>2, <2>1, EntryType
      <3> QED
        BY <1>2, <1>4, <3>1, <3>2
    <2> QED
      BY <2>2, <2>3
  <1> QED
    BY <1>5, <1>6, <1>7, <1>8

\* What is alive with the wanted buffer ends before the place found for it, or
\* starts after it.
LEMMA PlaceApart ==
    ASSUME PlannerInv, Place, NEW p \in 1..Len(placed), OverlapInTime(placed[p], Wanted)
    PROVE  \/ End(placed[p]) <= Candidate
           \/ Candidate + req[Wanted].size <= offset[placed[p]]
  <1> USE DEF PlannerInv, Base
  <1>1. Len(placed) \in Nat /\ prior \in 0..Len(placed) /\ candidate \in Nat /\ pc = "search"
    BY DEF TypeOK, Place
  <1>2. Candidate \in Nat /\ Candidate >= candidate
        /\ (prior # 0 => Candidate >= End(placed[prior]))
    BY CandidateType
  <1>3. \A r \in 1..Len(placed) : End(placed[r]) \in Nat /\ offset[placed[r]] \in Nat
    BY EntryType
  <1>4. req[Wanted].size \in Nat
    BY <1>1, WantedType, ReqType
  <1>5. CASE p <= prior
    <2>1. p \in 1..prior
      BY <1>1, <1>5
    <2>2. p = prior \/ End(placed[p]) <= candidate
      BY <1>1, <2>1 DEF SearchInv
    <2> QED
      BY <1>1, <1>2, <1>3, <2>1, <2>2
  <1>6. CASE p > prior
    <2>1. p \in Following
      BY <1>1, <1>6 DEF Following
    <2>2. PICK q \in Following : IsNext(q) /\ Fits(q)
      BY <2>1 DEF Place
    <2>3. q <= p /\ q \in 1..Len(placed)
      BY <1>1, <2>1, <2>2 DEF IsNext, Following
    <2>4. offset[placed[q]] \in Nat /\ offset[placed[q]] <= offset[placed[p]]
      <3>1. offset[placed[q]] \in Nat
        BY <1>3, <2>3
      <3>2. CASE q < p
        BY <2>3, <3>1, <3>2 DEF ListInv
      <3>3. CASE q = p
        BY <3>1, <3>3
      <3> QED
        BY <1>1, <2>3, <3>1, <3>2, <3>3
    <2> QED
      BY <1>2, <1>3, <1>4, <2>2, <2>4 DEF Fits
  <1> QED
    BY <1>1, <1>5, <1>6

LEMMA PlaceInv ==
    ASSUME PlannerInv, Place
    PROVE  PlannerInv'
  <1> USE DEF PlannerInv, Base
  <1> DEFINE b == Wanted
             c == Candidate
             L == Len(placed)
  <1>1. PICK k \in 1..L : IsPlaceFor(k, c) /\ placed' = InsertAfter(k, b)
    BY DEF Place
  <1>2. /\ pc = "search" /\ ~stale /\ L \in Nat /\ L > 0 /\ L < Count /\ Count \in Nat
        /\ b \in 1..Count /\ b \in Ids /\ b = ids[L + 1]
        /\ \A p \in 1..L : placed[p] # b
    BY WantedType DEF Place, PhaseInv, Wanted
  <1>3. UNCHANGED <<req, stale, ids, at, swapped>> /\ Count' = Count
    BY DEF Place, Count
  <1>4. c \in Nat
    BY CandidateType
  <1>5. offset' = [offset EXCEPT ![b] = c] /\ offset' \in [Ids -> Int] /\ offset'[b] = c
    BY <1>2, <1>4 DEF Place, TypeOK
  <1> DEFINE old(p) == IF p <= k THEN p ELSE p - 1
  <1>6. /\ placed' \in Seq(Ids) /\ Len(placed') = L + 1
        /\ placed'[k + 1] = b
        /\ \A p \in 1..L + 1 : p # k + 1 => old(p) \in 1..L /\ placed'[p] = placed[old(p)]
    <2>1. \A p \in 1..L : placed[p] \in Ids
      BY EntryType
    <2>2. placed' \in [1..L + 1 -> Ids]
      BY <1>1, <1>2, <2>1 DEF InsertAfter
    <2>3. placed' \in Seq(Ids) /\ Len(placed') = L + 1
      BY <1>2, <2>2, FunctionSeq
    <2> QED
      BY <1>1, <1>2, <2>3 DEF InsertAfter
  <1>7. \A p, q \in 1..L + 1 : p # k + 1 /\ q # k + 1 =>
            (old(p) = old(q) => p = q) /\ (p < q => old(p) < old(q))
    BY <1>2
  <1>8. \A p \in 1..L : offset'[placed[p]] = offset[placed[p]]
    BY <1>2, <1>5, EntryType DEF TypeOK
  <1> HIDE DEF old, b, c, L
  <1>9. TypeOK'
    BY <1>2, <1>3, <1>5, <1>6 DEF TypeOK, Place, SearchFrom
  <1>10. IdsInv'
    BY <1>3 DEF IdsInv
  <1>11. PhaseInv'
    BY <1>2, <1>3, <1>6 DEF PhaseInv, Place, SearchFrom, L
  <1>12. PrefixInv'
    <2>1. ASSUME NEW p \in 1..L + 1 PROVE \E m \in 1..L + 1 : placed'[p] = ids[m]
      <3>1. CASE p = k + 1
        BY <1>2, <1>6, <3>1
      <3>2. CASE p # k + 1
        <4>1. PICK m \in 1..L : placed[old(p)] = ids[m]
          BY <1>2, <1>6, <3>2 DEF PrefixInv, L
        <4> QED
          BY <1>2, <1>6, <3>2, <4>1
      <3> QED
        BY <3>1, <3>2
    <2>2. ASSUME NEW m \in 1..L + 1 PROVE \E p \in 1..L + 1 : placed'[p] = ids[m]
      <3>1. CASE m = L + 1
        BY <1>1, <1>2, <1>6, <3>1
      <3>2. CASE m # L + 1
        <4>0. m \in 1..L
          BY <1>2, <3>2
        <4>1. PICK p \in 1..L : placed[p] = ids[m]
          BY <1>2, <4>0 DEF PrefixInv, L
        <4>2. PICK r \in 1..L + 1 : r # k + 1 /\ old(r) = p
          <5>1. CASE p <= k
            BY <1>1, <1>2, <5>1 DEF old
          <5>2. CASE p > k
            <6>1. p + 1 \in 1..L + 1 /\ p + 1 # k + 1 /\ old(p + 1) = p
              BY <1>1, <1>2, <5>2 DEF old
            <6> QED
              BY <6>1
          <5> QED
            BY <1>1, <1>2, <5>1, <5>2
        <4> QED
          BY <1>6, <4>1, <4>2
      <3> QED
        BY <3>1, <3>2
    <2>3. Len(placed') = L + 1 /\ ids' = ids
      BY <1>3, <1>6
    <2>4. \A p \in 1..Len(placed') : \E m \in 1..Len(placed') : placed'[p] = ids'[m]
      BY <2>1, <2>3
    <2>5. \A m \in 1..Len(placed') : \E p \in 1..Len(placed') : placed'[p] = ids'[m]
      BY <2>2, <2>3
    <2> QED
      BY <2>4, <2>5, Zenon DEF PrefixInv
  <1>16. offset'[placed'[1]] = 0
    BY <1>1, <1>2, <1>6, <1>8 DEF ListInv, L, old
  <1>13. ListInv'
    <2>1. \A p \in 1..L + 1 : placed'[p] \in 1..Count /\ offset'[placed'[p]] >= 0
      <3> SUFFICES ASSUME NEW p \in 1..L + 1
                   PROVE  placed'[p] \in 1..Count /\ offset'[placed'[p]] >= 0
        OBVIOUS
      <3>1. CASE p = k + 1
        BY <1>2, <1>4, <1>5, <1>6, <3>1
      <3>2. CASE p # k + 1
        <4>1. placed[old(p)] \in 1..Count /\ offset[placed[old(p)]] >= 0
          BY <1>6, <3>2 DEF ListInv, L
        <4> QED
          BY <1>6, <1>8, <3>2, <4>1
      <3> QED
        BY <3>1, <3>2
    <2>2. \A p, q \in 1..L + 1 : placed'[p] = placed'[q] => p = q
      <3> SUFFICES ASSUME NEW p \in 1..L + 1, NEW q \in 1..L + 1, placed'[p] = placed'[q]
                   PROVE  p = q
        OBVIOUS
      <3>1. CASE p # k + 1 /\ q # k + 1
        <4>1. old(p) \in 1..L /\ old(q) \in 1..L /\ placed[old(p)] = placed[old(q)]
          BY <1>6, <3>1
        <4>2. old(p) = old(q)
          BY <4>1 DEF ListInv, L
        <4> QED
          BY <1>7, <3>1, <4>2
      <3>2. CASE p = k + 1 /\ q # k + 1
        BY <1>2, <1>6, <3>2
      <3>3. CASE p # k + 1 /\ q = k + 1
        BY <1>2, <1>6, <3>3
      <3>4. CASE p = k + 1 /\ q = k + 1
        BY <3>4
      <3> QED
        BY <3>1, <3>2, <3>3, <3>4
    <2>3. \A p, q \in 1..L + 1 : p < q => offset'[placed'[p]] <= offset'[placed'[q]]
      <3> SUFFICES ASSUME NEW p \in 1..L + 1, NEW q \in 1..L + 1, p < q
                   PROVE  offset'[placed'[p]] <= offset'[placed'[q]]
        OBVIOUS
      <3>1. CASE p # k + 1 /\ q # k + 1
        BY <1>6, <1>7, <1>8, <3>1 DEF ListInv, L
      <3>2. CASE q = k + 1
        <4>1. p \in 1..L /\ p <= k /\ placed'[p] = placed[p]
          BY <1>1, <1>2, <1>6, <3>2 DEF old
        <4>2. offset[placed[p]] <= c
          <5>1. CASE p = 1
            BY <1>2, <1>4, <5>1 DEF ListInv, L
          <5>2. CASE p # 1
            BY <1>1, <1>2, <4>1, <5>2 DEF IsPlaceFor, c
          <5> QED
            BY <5>1, <5>2
        <4> QED
          BY <1>5, <1>6, <1>8, <3>2, <4>1, <4>2
      <3>3. CASE p = k + 1
        <4>1. q - 1 \in 1..L /\ placed'[q] = placed[q - 1] /\ k + 1 \in 1..L /\ k + 1 <= q - 1
          BY <1>1, <1>2, <1>6, <3>3 DEF old
        <4>2. offset[placed[k + 1]] > c
          BY <1>1, <1>2, <4>1 DEF IsPlaceFor, c, L
        <4>3. offset[placed[k + 1]] \in Nat /\ offset[placed[q - 1]] \in Nat
          BY <4>1, EntryType DEF L
        <4>4. offset[placed[k + 1]] <= offset[placed[q - 1]]
          <5>1. CASE k + 1 < q - 1
            BY <4>1, <5>1 DEF ListInv, L
          <5>2. CASE k + 1 = q - 1
            BY <4>3, <5>2
          <5> QED
            BY <1>1, <1>2, <4>1, <5>1, <5>2
        <4> QED
          BY <1>4, <1>5, <1>6, <1>8, <3>3, <4>1, <4>2, <4>3, <4>4
      <3> QED
        BY <3>1, <3>2, <3>3
    <2> QED
      BY <1>2, <1>3, <1>6, <1>16, <2>1, <2>2, <2>3 DEF ListInv
  <1>14. NoOverlap'
    <2> DEFINE start(x) == offset'[x]
               stop(x) == offset'[x] + req[x].size
    <2>1. \A r \in 1..L : start(placed[r]) = offset[placed[r]] /\ stop(placed[r]) = End(placed[r])
      BY <1>8 DEF End
    <2>2. start(b) = c /\ stop(b) = c + req[b].size
      BY <1>5
    <2>3. \A r \in 1..L : OverlapInTime(placed[r], b) =>
              End(placed[r]) <= c \/ c + req[b].size <= offset[placed[r]]
      BY PlaceApart DEF b, c, L
    <2>4. \A r \in 1..L : offset[placed[r]] \in Nat /\ End(placed[r]) \in Nat
      BY EntryType DEF L
    <2>5. req[b].size \in Nat
      BY <1>2, ReqType
    <2> HIDE DEF start, stop
    <2>6. ASSUME NEW p \in 1..L + 1, NEW q \in 1..L + 1, p # q,
                 OverlapInTime(placed'[p], placed'[q])
          PROVE  start(placed'[p]) >= stop(placed'[q]) \/ start(placed'[q]) >= stop(placed'[p])
      <3>1. CASE p # k + 1 /\ q # k + 1
        <4>1. old(p) \in 1..L /\ old(q) \in 1..L /\ old(p) # old(q)
              /\ placed'[p] = placed[old(p)] /\ placed'[q] = placed[old(q)]
          BY <1>6, <1>7, <2>6, <3>1
        <4>2. Apart(placed[old(p)], placed[old(q)])
          BY <2>6, <4>1 DEF NoOverlap, L
        <4> QED
          BY <2>1, <4>1, <4>2 DEF Apart
      <3>2. CASE p = k + 1
        <4>1. old(q) \in 1..L /\ placed'[q] = placed[old(q)] /\ placed'[p] = b
          BY <1>6, <2>6, <3>2
        <4>2. OverlapInTime(placed[old(q)], b)
          BY <2>6, <4>1 DEF OverlapInTime
        <4> QED
          BY <1>4, <2>1, <2>2, <2>3, <2>4, <2>5, <4>1, <4>2
      <3>3. CASE q = k + 1
        <4>1. old(p) \in 1..L /\ placed'[p] = placed[old(p)] /\ placed'[q] = b
          BY <1>6, <2>6, <3>3
        <4>2. OverlapInTime(placed[old(p)], b)
          BY <2>6, <4>1
        <4> QED
          BY <1>4, <2>1, <2>2, <2>3, <2>4, <2>5, <4>1, <4>2
      <3> QED
        BY <3>1, <3>2, <3>3
    <2> QED
      BY <1>3, <1>6, <2>6 DEF NoOverlap, OverlapInTime, Apart, End, start, stop
  <1>15. SearchInv'
    BY DEF Place, SearchFrom, SearchInv
  <1> QED
    BY <1>9, <1>10, <1>11, <1>12, <1>13, <1>14, <1>15
-----------------------------------------------------------------------------
(* The theorems *)

LEMMA StepInv ==
    ASSUME PlannerInv, [PlannerNext]_plannerVars
    PROVE  PlannerInv'
  <1>1. CASE UNCHANGED plannerVars
    <2>1. Count' = Count /\ TypeOK'
      BY <1>1 DEF PlannerInv, Base, TypeOK, plannerVars, Count
    <2> QED
      BY <1>1, <2>1 DEF PlannerInv, Base, plannerVars, IdsInv, ListInv, PrefixInv, PhaseInv,
                        SearchInv, NoOverlap, OverlapInTime, Apart, End, Wanted
  <1> QED
    BY <1>1, AddBufferInv, CalculateInv, CompareInv, PassAgainInv, PlaceLargestInv,
       PassEntryInv, PlaceInv DEF PlannerNext, Plan

LEMMA Invariance == PlannerSpec => []PlannerInv
  BY InitInv, StepInv, PTL DEF PlannerSpec

\* The planner's variables keep their types: positions stay inside of the list,
\* the candidate offset and the numbers of buffers inside of their ranges.
THEOREM TypeCorrect == PlannerSpec => []TypeOK
  <1>1. PlannerInv => TypeOK
    BY DEF PlannerInv, Base
  <1> QED
    BY <1>1, Invariance, PTL

\* Whatever sizes and lifetimes the buffers have and in whatever order they
\* come, no two that are alive at the same time share memory: what
\* DoAnyBuffersOverlap looks for never exists.
THEOREM NeverOverlap == PlannerSpec => []NoOverlap
  <1>1. PlannerInv => NoOverlap
    BY DEF PlannerInv
  <1> QED
    BY <1>1, Invariance, PTL
-----------------------------------------------------------------------------
(* The first gap *)

Hit(x, b, n) == \E k \in 1..n : OverlapInTime(ids[k], b) /\ Hits(x, b, ids[k])

\* During a search no offset below the candidate will do, and the prior entry
\* leaves no gap of the wanted size before it.
GapSearch ==
    pc = "search" =>
        /\ \A x \in 0..candidate - 1 : Hit(x, Wanted, Len(placed))
        /\ prior # 0 => /\ OverlapInTime(placed[prior], Wanted)
                        /\ offset[placed[prior]] < candidate + req[Wanted].size

GapInv ==
    /\ \A k \in 1..Len(placed) : ids[k] \in 1..Count
    /\ FirstGap
    /\ GapSearch

LEMMA CandidateHits ==
    ASSUME PlannerInv, GapInv, pc = "search", NEW x \in 0..Candidate - 1
    PROVE  Hit(x, Wanted, Len(placed))
  <1>1. /\ candidate \in Nat /\ Candidate \in Nat /\ prior \in 0..Len(placed)
        /\ Len(placed) \in Nat /\ x \in Nat
    BY CandidateType DEF PlannerInv, Base, TypeOK
  <1>2. CASE x < candidate
    BY <1>1, <1>2 DEF GapInv, GapSearch
  <1>3. CASE x >= candidate
    <2>1. prior # 0 /\ x < End(placed[prior]) /\ prior \in 1..Len(placed)
      BY <1>1, <1>3 DEF Candidate
    <2>2. ~stale
      BY WantedType DEF PlannerInv
    <2>3. PICK k \in 1..Len(placed) : placed[prior] = ids[k]
      BY <2>1, <2>2 DEF PlannerInv, Base, PrefixInv
    <2>4. offset[placed[prior]] < candidate + req[Wanted].size
          /\ OverlapInTime(placed[prior], Wanted)
      BY <2>1 DEF GapInv, GapSearch
    <2>5. offset[placed[prior]] \in Nat
      BY <2>1, EntryType DEF PlannerInv
    <2>6. req[Wanted].size \in Nat
      BY WantedType, ReqType DEF PlannerInv, Base
    <2> QED
      BY <1>1, <1>3, <2>1, <2>3, <2>4, <2>5, <2>6 DEF Hit, Hits
  <1> QED
    BY <1>1, <1>2, <1>3

\* A step that leaves the placed buffers alone leaves their gaps alone.
LEMMA GapKept ==
    ASSUME GapInv, UNCHANGED <<ids, placed, offset>>,
           Count' \in Nat, Count \in Nat, Count' >= Count,
           \A b \in 1..Count : req'[b] = req[b]
    PROVE  (\A k \in 1..Len(placed) : ids[k] \in 1..Count)' /\ FirstGap'
  <1>1. \A k \in 1..Len(placed) : ids[k] \in 1..Count /\ ids[k] \in 1..Count'
    BY DEF GapInv
  <1>2. ASSUME NEW m \in 1..Len(placed), NEW x \in 0..offset[ids[m]] - 1
        PROVE  \E k \in 1..m - 1 : (OverlapInTime(ids[k], ids[m]) /\ Hits(x, ids[m], ids[k]))'
    <2>1. PICK k \in 1..m - 1 : OverlapInTime(ids[k], ids[m]) /\ Hits(x, ids[m], ids[k])
      BY <1>2 DEF GapInv, FirstGap
    <2>2. k \in 1..Len(placed) /\ ids[k] \in 1..Count /\ ids[m] \in 1..Count
      <3>1. k \in 1..Len(placed)
        BY <1>2
      <3> QED
        BY <1>1, <1>2, <3>1
    <2> QED
      BY <2>1, <2>2 DEF OverlapInTime, Hits, End
  <1> QED
    BY <1>1, <1>2 DEF FirstGap

LEMMA GapEmpty ==
    ASSUME Len(placed') = 0, pc' # "search"
    PROVE  GapInv'
  BY DEF GapInv, FirstGap, GapSearch

LEMMA GapInit == PlannerInit => GapInv
  BY EmptySeq DEF PlannerInit, GapInv, FirstGap, GapSearch

LEMMA GapStart ==
    ASSUME pc' = "search", prior' = 0, candidate' = 0
    PROVE  GapSearch'
  BY DEF GapSearch

LEMMA GapPassEntry ==
    ASSUME PlannerInv, GapInv, PassEntry
    PROVE  GapInv'
  <1>1. UNCHANGED <<req, stale, pc, ids, placed, offset>> /\ candidate' = Candidate
        /\ Count' = Count /\ Count \in Nat /\ pc = "search"
    BY CountType DEF PassEntry, Count, PlannerInv, Base
  <1>2. (\A k \in 1..Len(placed) : ids[k] \in 1..Count)' /\ FirstGap'
    BY <1>1, GapKept
  <1>3. PICK q \in Following : ~Fits(q) /\ prior' = q
    BY DEF PassEntry
  <1>4. OverlapInTime(placed[q], Wanted) /\ q \in 1..Len(placed)
    BY <1>3 DEF Following, PlannerInv, Base, TypeOK
  <1>5. offset[placed[q]] < Candidate + req[Wanted].size
    <2>1. offset[placed[q]] \in Nat /\ Candidate \in Nat /\ req[Wanted].size \in Nat
      BY <1>1, <1>4, EntryType, CandidateType, WantedType, ReqType DEF PlannerInv, Base
    <2> QED
      BY <1>3, <2>1 DEF Fits
  <1>6. \A x \in 0..Candidate - 1 : Hit(x, Wanted, Len(placed))
    BY <1>1, CandidateHits
  <1>7. GapSearch'
    BY <1>1, <1>3, <1>4, <1>5, <1>6 DEF GapSearch, Hit, Hits, OverlapInTime, Wanted, End
  <1> QED
    BY <1>2, <1>7 DEF GapInv

LEMMA GapPlace ==
    ASSUME PlannerInv, GapInv, Place
    PROVE  GapInv'
  <1> DEFINE L == Len(placed)
  <1>1. /\ pc = "search" /\ ~stale /\ L \in Nat /\ L > 0 /\ L < Count /\ Count \in Nat
        /\ Wanted = ids[L + 1] /\ Wanted \in 1..Count /\ Wanted \in Ids /\ Candidate \in Nat
    BY WantedType, CandidateType DEF Place, PlannerInv, Base, PhaseInv, Wanted
  <1>2. UNCHANGED <<req, ids>> /\ Count' = Count
    BY DEF Place, Count
  <1>3. Len(placed') = L + 1
    <2>1. PICK k \in 1..L : placed' = InsertAfter(k, Wanted)
      BY DEF Place
    <2>2. \A p \in 1..L : placed[p] \in Ids
      BY EntryType DEF PlannerInv
    <2>3. placed' \in [1..L + 1 -> Ids]
      BY <1>1, <2>1, <2>2 DEF InsertAfter
    <2> QED
      BY <1>1, <2>3, FunctionSeq
  <1>4. \A k \in 1..L : ids[k] # Wanted /\ ids[k] \in 1..Count /\ ids[k] \in Ids
    <2>1. ASSUME NEW k \in 1..L PROVE ids[k] \in 1..Count /\ ids[k] # ids[L + 1]
      <3>1. k \in 1..Count /\ L + 1 \in 1..Count /\ k # L + 1
        BY <1>1
      <3> QED
        BY <1>1, <3>1 DEF PlannerInv, Base, IdsInv
    <2> QED
      BY <1>1, <2>1, CountType DEF PlannerInv, Base
  <1>5. /\ offset'[Wanted] = Candidate
        /\ \A k \in 1..L : offset'[ids[k]] = offset[ids[k]]
    BY <1>1, <1>4 DEF Place, PlannerInv, Base, TypeOK
  <1> HIDE DEF L
  <1>6. \A k \in 1..L + 1 : ids[k] \in 1..Count
    BY <1>1, <1>4
  <1>7. ASSUME NEW m \in 1..L + 1, NEW x \in 0..offset'[ids[m]] - 1
        PROVE  \E k \in 1..m - 1 : /\ OverlapInTime(ids[k], ids[m])
                                   /\ x < offset'[ids[k]] + req[ids[k]].size
                                   /\ offset'[ids[k]] < x + req[ids[m]].size
    <2>1. CASE m = L + 1
      <3>1. Hit(x, Wanted, L)
        BY <1>1, <1>5, <1>7, <2>1, CandidateHits DEF L
      <3> QED
        BY <1>1, <1>5, <2>1, <3>1 DEF Hit, Hits, End
    <2>2. CASE m # L + 1
      <3>1. m \in 1..L /\ x \in 0..offset[ids[m]] - 1
        BY <1>1, <1>5, <1>7, <2>2
      <3>2. PICK k \in 1..m - 1 : OverlapInTime(ids[k], ids[m]) /\ Hits(x, ids[m], ids[k])
        BY <3>1 DEF GapInv, FirstGap, L
      <3>3. k \in 1..L
        BY <1>1, <3>1
      <3> QED
        BY <1>5, <3>2, <3>3 DEF Hits, End
    <2> QED
      BY <2>1, <2>2
  <1>8. FirstGap'
    BY <1>2, <1>3, <1>7 DEF FirstGap, OverlapInTime, Hits, End
  <1>9. GapSearch'
    BY GapStart DEF Place, SearchFrom, GapSearch
  <1> QED
    BY <1>2, <1>3, <1>6, <1>8, <1>9 DEF GapInv

LEMMA GapPlaceLargest ==
    ASSUME PlannerInv, GapInv, PlaceLargest
    PROVE  GapInv'
  <1>1. /\ Count \in Nat /\ Count' = Count /\ Count > 0 /\ ~stale
        /\ ids[1] \in 1..Count /\ ids[1] \in Ids
    BY CountType DEF PlannerInv, Base, PlaceLargest, Count, PhaseInv, IdsInv
  <1>2. placed' = <<ids[1]>> /\ Len(placed') = 1 /\ ids' = ids /\ req' = req
    BY DEF PlaceLargest
  <1>3. offset'[ids[1]] = 0
    BY <1>1 DEF PlaceLargest, PlannerInv, Base, TypeOK
  <1>4. (\A k \in 1..Len(placed) : ids[k] \in 1..Count)' /\ FirstGap'
    BY <1>1, <1>2, <1>3 DEF FirstGap
  <1>5. GapSearch'
    BY DEF PlaceLargest, SearchFrom, GapSearch
  <1> QED
    BY <1>4, <1>5 DEF GapInv

LEMMA GapAddBuffer ==
    ASSUME PlannerInv, GapInv, NEW r \in Requirements, AddBuffer(r)
    PROVE  GapInv'
  <1>1. /\ Count' = Count + 1 /\ Count \in Nat
        /\ \A b \in 1..Count : req'[b] = req[b]
    BY Appended, CountType DEF PlannerInv, Base
  <1>2. UNCHANGED <<ids, placed, offset>> /\ pc' # "search"
    BY DEF AddBuffer
  <1>3. (\A k \in 1..Len(placed) : ids[k] \in 1..Count)' /\ FirstGap'
    BY <1>1, <1>2, GapKept
  <1> QED
    BY <1>2, <1>3 DEF GapInv, GapSearch

LEMMA GapStep ==
    ASSUME PlannerInv, GapInv, [PlannerNext]_plannerVars
    PROVE  GapInv'
  <1>1. CASE CalculateOffsetsIfNeeded
    BY <1>1, EmptySeq, GapEmpty DEF CalculateOffsetsIfNeeded
  <1>2. CASE Compare \/ PassAgain
    <2>1. placed = <<>> /\ placed' = placed /\ pc' = "sort"
      BY <1>2 DEF PlannerInv, Base, PhaseInv, Compare, PassAgain
    <2> QED
      BY <2>1, EmptySeq, GapEmpty
  <1>3. CASE UNCHANGED plannerVars
    BY <1>3 DEF plannerVars, GapInv, FirstGap, GapSearch, Hit, Hits, OverlapInTime, End,
                Wanted, Count
  <1> QED
    BY <1>1, <1>2, <1>3, GapAddBuffer, GapPlaceLargest, GapPassEntry, GapPlace
    DEF PlannerNext, Plan

\* Every buffer is laid at the lowest offset at which it hits no buffer that was
\* placed before it and lives with it: the planner's documented rule.
THEOREM LowestOffset == PlannerSpec => []FirstGap
  <1>1. GapInv => FirstGap
    BY DEF GapInv
  <1> QED
    BY <1>1, GapInit, GapStep, Invariance, PTL DEF PlannerSpec

-----------------------------------------------------------------------------
(* The size of the plan *)

\* Some entry of a list that is not empty ends last.
Top ==
    placed # <<>> =>
        \E p \in 1..Len(placed) : \A q \in 1..Len(placed) : End(placed[q]) <= End(placed[p])

LEMMA TopKept ==
    ASSUME PlannerInv, Top, UNCHANGED <<placed, offset>>, \A b \in 1..Count : req'[b] = req[b]
    PROVE  Top'
  <1>1. \A p \in 1..Len(placed) : End(placed[p])' = End(placed[p])
    BY EntryType DEF PlannerInv, End
  <1> QED
    BY <1>1 DEF Top

LEMMA TopPlaceLargest ==
    ASSUME PlannerInv, PlaceLargest
    PROVE  Top'
  <1>1. placed' = <<ids[1]>> /\ Len(placed') = 1 /\ placed'[1] = ids[1] /\ ids' = ids
    BY DEF PlaceLargest
  <1>2. End(ids[1])' \in Int
    <2>1. Count \in Nat /\ Count > 0 /\ ids[1] \in 1..Count /\ ids[1] \in Ids
      BY CountType DEF PlannerInv, Base, PlaceLargest, PhaseInv, IdsInv
    <2>2. offset'[ids[1]] = 0 /\ req' = req /\ ids' = ids /\ req[ids[1]].size \in Nat
      BY <2>1, ReqType DEF PlaceLargest, PlannerInv, Base, TypeOK
    <2> QED
      BY <2>2 DEF End
  <1> QED
    BY <1>1, <1>2 DEF Top

\* A buffer more ends after the one that ended last, or does not.
LEMMA TopPlace ==
    ASSUME PlannerInv, Top, Place
    PROVE  Top'
  <1> DEFINE L == Len(placed)
             b == Wanted
  <1>1. /\ L \in Nat /\ L > 0 /\ b \in 1..Count /\ b \in Ids
        /\ \A p \in 1..L : placed[p] # b
        /\ Candidate \in Nat /\ req[b].size \in Nat
    BY WantedType, CandidateType, ReqType DEF Place, PlannerInv, Base
  <1>2. PICK k \in 1..L : placed' = InsertAfter(k, b)
    BY DEF Place
  <1>3. offset' = [offset EXCEPT ![b] = Candidate] /\ req' = req
    BY DEF Place
  <1> DEFINE stop(e) == offset'[e] + req[e].size
  <1>4. \A p \in 1..L : stop(placed[p]) = End(placed[p]) /\ End(placed[p]) \in Nat
    BY <1>1, <1>3, EntryType DEF PlannerInv, Base, TypeOK, End
  <1>5. stop(b) \in Nat
    BY <1>1, <1>3 DEF PlannerInv, Base, TypeOK
  <1>6. PICK t \in 1..L : \A q \in 1..L : End(placed[q]) <= End(placed[t])
    BY <1>1, EmptySeq DEF Top
  <1>7. /\ Len(placed') = L + 1
        /\ \A p \in 1..L + 1 : placed'[p] = b \/ \E q \in 1..L : placed'[p] = placed[q]
        /\ placed'[k + 1] = b
        /\ placed'[IF t <= k THEN t ELSE t + 1] = placed[t]
    <2>1. \A p \in 1..L : placed[p] \in Ids
      BY EntryType DEF PlannerInv
    <2>2. placed' \in [1..L + 1 -> Ids]
      BY <1>1, <1>2, <2>1 DEF InsertAfter
    <2>3. Len(placed') = L + 1
      BY <1>1, <2>2, FunctionSeq
    <2> QED
      BY <1>1, <1>2, <2>3 DEF InsertAfter
  <1> HIDE DEF b, L, stop
  <1>8. \E p \in 1..L + 1 : \A q \in 1..L + 1 : stop(placed'[q]) <= stop(placed'[p])
    <2>1. ASSUME NEW q \in 1..L + 1
          PROVE  /\ stop(placed'[q]) \in Nat
                 /\ stop(placed'[q]) <= stop(b) \/ stop(placed'[q]) <= stop(placed[t])
      <3>1. CASE placed'[q] = b
        BY <1>5, <3>1
      <3>2. CASE \E r \in 1..L : placed'[q] = placed[r]
        <4>1. PICK r \in 1..L : placed'[q] = placed[r]
          BY <3>2
        <4> QED
          BY <1>4, <1>6, <4>1
      <3> QED
        BY <1>7, <2>1, <3>1, <3>2
    <2>2. stop(placed[t]) \in Nat
      BY <1>4
    <2>3. PICK w \in 1..L + 1 : placed'[w] = placed[t]
      BY <1>1, <1>7
    <2>4. CASE stop(b) <= stop(placed[t])
      <3>1. ASSUME NEW q \in 1..L + 1 PROVE stop(placed'[q]) <= stop(placed'[w])
        <4>1. stop(placed'[q]) \in Nat /\ stop(placed'[q]) <= stop(placed[t])
          BY <1>5, <2>1, <2>2, <2>4
        <4> QED
          BY <2>3, <4>1
      <3> QED
        BY <3>1
    <2>5. CASE stop(placed[t]) < stop(b)
      <3>1. ASSUME NEW q \in 1..L + 1 PROVE stop(placed'[q]) <= stop(placed'[k + 1])
        <4>1. stop(placed'[q]) \in Nat /\ stop(placed'[q]) <= stop(b)
          BY <1>5, <2>1, <2>2, <2>5
        <4> QED
          BY <1>7, <4>1
      <3>2. k + 1 \in 1..L + 1
        BY <1>1
      <3> QED
        BY <3>1, <3>2
    <2> QED
      BY <1>5, <2>2, <2>4, <2>5
  <1> QED
    BY <1>3, <1>7, <1>8 DEF Top, End, stop

LEMMA TopStep ==
    ASSUME PlannerInv, Top, [PlannerNext]_plannerVars
    PROVE  Top'
  <1>1. CASE \E r \in Requirements : AddBuffer(r)
    BY <1>1, Appended, TopKept DEF AddBuffer, PlannerInv, Base
  <1>2. CASE CalculateOffsetsIfNeeded
    BY <1>2 DEF CalculateOffsetsIfNeeded, Top
  <1>3. CASE Compare \/ PassAgain \/ PassEntry \/ UNCHANGED plannerVars
    BY <1>3, TopKept DEF Compare, PassAgain, PassEntry, plannerVars
  <1> QED
    BY <1>1, <1>2, <1>3, TopPlaceLargest, TopPlace DEF PlannerNext, Plan

LEMMA TopInit == PlannerInit => Top
  BY DEF PlannerInit, Top

\* Nothing that is placed ends beyond the size that is reported.
LEMMA SizeCovers ==
    ASSUME PlannerInv, Top, NEW p \in 1..Len(placed)
    PROVE  MaximumMemorySize \in Nat /\ End(placed[p]) <= MaximumMemorySize
  <1> DEFINE ends == {End(placed[q]) : q \in 1..Len(placed)}
  <1>1. Len(placed) \in Nat /\ placed # <<>>
    BY CountType, EmptySeq DEF PlannerInv, Base
  <1>2. \E m \in ends : \A e \in ends : e <= m
    BY <1>1 DEF Top
  <1>3. ends # {} /\ ends \subseteq Nat /\ End(placed[p]) \in ends
    BY EntryType DEF PlannerInv
  <1>4. MaximumMemorySize = CHOOSE m \in ends : \A e \in ends : e <= m
    BY <1>3 DEF MaximumMemorySize
  <1> HIDE DEF ends
  <1> QED
    BY <1>2, <1>3, <1>4

LEMMA CoversAll ==
    ASSUME PlannerInv, Top
    PROVE  PlanCovers
  <1> SUFFICES ASSUME Planned, NEW b \in 1..Count
               PROVE  offset[b] >= 0 /\ End(b) <= MaximumMemorySize
    BY DEF PlanCovers
  <1>1. Len(placed) = Count /\ ~stale
    BY DEF Planned, PlannerInv, Base, PhaseInv
  <1>2. PICK k \in 1..Count : ids[k] = b
    BY <1>1 DEF PlannerInv, Base, IdsInv
  <1>3. PICK p \in 1..Len(placed) : placed[p] = ids[k]
    BY <1>1, <1>2 DEF PlannerInv, Base, PrefixInv
  <1> QED
    BY <1>2, <1>3, EntryType, SizeCovers DEF PlannerInv

\* However calls of AddBuffer and questions alternate, a plan in force gives
\* every buffer an offset, inside of the size the planner reports.
THEOREM PlansCover == PlannerSpec => []PlanCovers
  <1>1. PlannerSpec => []Top
    <2>1. PlannerInit => Top
      BY TopInit
    <2> QED
      BY <2>1, TopStep, Invariance, PTL DEF PlannerSpec
  <1> QED
    BY <1>1, CoversAll, Invariance, PTL

-----------------------------------------------------------------------------
(* The passes of the sort and the searches come to their end *)

\* a comes before b in the order of their numbers, the first ones first.
Smaller(a, b) ==
    \/ a[1] < b[1]
    \/ a[1] = b[1] /\ a[2] < b[2]
    \/ a[1] = b[1] /\ a[2] = b[2] /\ a[3] < b[3]

Ranks == Nat \X Nat \X Nat

\* Of some numbers one is the least.
LEMMA Least ==
    ASSUME NEW S \in SUBSET Nat, S # {}
    PROVE  \E m \in S : \A n \in S : m <= n
  <1>1. PICK m \in S : \A n \in S : ~(<<n, m>> \in OpToRel(<, Nat))
    BY NatLessThanWellFounded, WFMin
  <1>2. \A n \in S : ~(n < m)
    BY <1>1 DEF OpToRel
  <1> QED BY <1>2

\* A rank does not fall for ever: among any ranks there is one that none is smaller than.
THEOREM RanksAreWellFounded ==
    IsWellFoundedOn({pair \in Ranks \X Ranks : Smaller(pair[1], pair[2])}, Ranks)
  <1> DEFINE R == {pair \in Ranks \X Ranks : Smaller(pair[1], pair[2])}
  <1>1. ASSUME NEW S \in SUBSET Ranks, S # {}
        PROVE  \E a \in S : \A b \in S : ~(<<b, a>> \in R)
    <2> DEFINE A == {n \in Nat : \E a \in S : a[1] = n}
    <2>0. \A a \in S : a \in Ranks /\ a[1] \in Nat /\ a[2] \in Nat /\ a[3] \in Nat
      BY DEF Ranks
    <2>1. PICK x \in A : \A n \in A : x <= n
      <3>1. A # {}
        BY <1>1, <2>0
      <3> QED BY <3>1, Least
    <2>2. \A b \in S : x <= b[1]
      BY <2>0, <2>1
    <2> DEFINE B == {n \in Nat : \E a \in S : a[1] = x /\ a[2] = n}
    <2>3. PICK y \in B : \A n \in B : y <= n
      <3>1. B # {}
        BY <2>0, <2>1
      <3> QED BY <3>1, Least
    <2>4. \A b \in S : b[1] = x => y <= b[2]
      BY <2>0, <2>3
    <2> DEFINE C == {n \in Nat : \E a \in S : a[1] = x /\ a[2] = y /\ a[3] = n}
    <2>5. PICK z \in C : \A n \in C : z <= n
      <3>1. C # {}
        BY <2>0, <2>3
      <3> QED BY <3>1, Least
    <2>6. PICK a \in S : a[1] = x /\ a[2] = y /\ a[3] = z
      BY <2>5
    <2>7. \A b \in S : b[1] = x /\ b[2] = y => z <= b[3]
      BY <2>0, <2>5
    <2>8. x \in Nat /\ y \in Nat /\ z \in Nat
      BY <2>1, <2>3, <2>5
    <2> HIDE DEF A, B, C
    <2>9. \A b \in S : ~Smaller(b, a)
      BY <2>0, <2>2, <2>4, <2>6, <2>7, <2>8 DEF Smaller
    <2> QED BY <2>9
  <1> HIDE DEF R
  <1> QED BY <1>1, MinWF DEF R

\* The pairs of buffers of which the smaller one still comes first.
OutOfOrder(a, b) ==
    \E i, j \in 1..Count : i < j /\ ids[i] = a /\ ids[j] = b /\ req[a].size < req[b].size
Inversions == {pair \in Ids \X Ids : OutOfOrder(pair[1], pair[2])}

\* What is left to do: a plan that is asked for is sorted and then placed; a pass
\* that has swapped needs another one.
PlanRank ==
    CASE pc = "idle" /\ stale -> <<3, 0, 0>>
      [] pc = "sort" -> <<2, Cardinality(Inversions) + (IF swapped THEN 1 ELSE 0), Count + 1 - at>>
      [] pc = "search" -> <<1, Count - Len(placed), Len(placed) - prior>>
      [] pc = "idle" /\ ~stale -> <<0, 0, 0>>

PassInv == pc = "sort" => at <= Count + 1

LEMMA PassStep ==
    ASSUME PlannerInv, PassInv, [PlannerNext]_plannerVars
    PROVE  PassInv'
  <1>1. Count \in Nat /\ (pc = "sort" => at \in Nat /\ Count > 0)
    BY CountType DEF PlannerInv, Base, TypeOK, PhaseInv
  <1>2. CASE \E r \in Requirements : AddBuffer(r)
    BY <1>2 DEF AddBuffer, PassInv
  <1>3. CASE CalculateOffsetsIfNeeded
    BY <1>1, <1>3 DEF CalculateOffsetsIfNeeded, PassInv, Count
  <1>4. CASE Compare
    BY <1>1, <1>4 DEF Compare, PassInv, Count
  <1>5. CASE PassAgain
    BY <1>1, <1>5 DEF PassAgain, PassInv, Count
  <1>6. CASE PlaceLargest \/ PassEntry \/ Place
    BY <1>6 DEF PlaceLargest, PassEntry, Place, SearchFrom, PassInv
  <1>7. CASE UNCHANGED plannerVars
    BY <1>7 DEF plannerVars, PassInv, Count
  <1> QED BY <1>2, <1>3, <1>4, <1>5, <1>6, <1>7 DEF PlannerNext, Plan

LEMMA FewInversions ==
    ASSUME NEW S \in SUBSET (Ids \X Ids)
    PROVE  IsFiniteSet(S) /\ Cardinality(S) \in Nat
  <1>1. IsFiniteSet(Ids)
    BY PlannerAssumption, FS_Interval DEF Ids
  <1>2. IsFiniteSet(Ids \X Ids)
    BY <1>1, FS_Product
  <1> QED BY <1>2, FS_Subset, FS_CardinalityType

LEMMA PlanRankType ==
    ASSUME PlannerInv, PassInv
    PROVE  PlanRank \in Ranks
  <1>1. /\ Count \in Nat /\ Len(placed) \in Nat /\ prior \in 0..Len(placed) /\ at \in Nat
        /\ pc \in {"idle", "sort", "search"} /\ stale \in BOOLEAN
        /\ Len(placed) <= Count
    BY CountType DEF PlannerInv, Base, TypeOK, ListInv
  <1>2. Cardinality(Inversions) \in Nat
    BY FewInversions DEF Inversions
  <1>3. pc = "sort" => Count + 1 - at \in Nat
    BY <1>1 DEF PassInv
  <1> QED BY <1>1, <1>2, <1>3 DEF PlanRank, Ranks

\* A swap puts one pair of buffers in order, and no other out of it.
LEMMA SwapSorts ==
    ASSUME PlannerInv, Compare, ids' # ids \/ swapped' # swapped
    PROVE  Cardinality(Inversions') < Cardinality(Inversions) /\ swapped' = TRUE
  <1> DEFINE l == ids[at - 1]
             r == ids[at]
             from(k) == IF k = at - 1 THEN at ELSE IF k = at THEN at - 1 ELSE k
  <1>1. /\ Count \in Nat /\ Count' = Count /\ req' = req
        /\ at \in 2..Count /\ at - 1 \in 1..Count /\ at \in 1..Count
        /\ Len(ids) = Count /\ 1..Count \subseteq Ids
    <2>1. Count \in Nat /\ Count' = Count /\ req' = req /\ 1..Count \subseteq Ids
      BY CountType DEF Compare, Count, PlannerInv, Base
    <2>2. ~stale /\ at >= 2 /\ at <= Count /\ at \in Nat
      BY DEF Compare, PlannerInv, Base, PhaseInv, TypeOK
    <2> QED BY <2>1, <2>2 DEF PlannerInv, Base, IdsInv
  <1>2. /\ \A k \in 1..Count : ids[k] \in 1..Count
        /\ \A k, m \in 1..Count : ids[k] = ids[m] => k = m
    BY DEF Compare, PlannerInv, Base, IdsInv, PhaseInv
  <1>3. /\ req[l].size < req[r].size /\ swapped' = TRUE
        /\ ids' = [ids EXCEPT ![at - 1] = r, ![at] = l]
    BY DEF Compare
  <1>4. \A k \in 1..Count : ids'[k] = ids[from(k)] /\ from(k) \in 1..Count
    <2>1. ids \in [1..Count -> Ids]
      BY <1>1, LenProperties DEF PlannerInv, Base, TypeOK
    <2> QED BY <1>1, <1>3, <2>1
  <1>5. req[l].size \in Nat /\ req[r].size \in Nat /\ l \in 1..Count /\ r \in 1..Count
    BY <1>1, <1>2, ReqType DEF PlannerInv, Base
  <1>6. \A i, j \in 1..Count : i < j => from(i) < from(j) \/ (i = at - 1 /\ j = at)
    BY <1>1
  <1>7. from(at - 1) = at /\ from(at) = at - 1
    BY <1>1
  <1>8. \A k \in 1..Count : (from(k) = at - 1 => k = at) /\ (from(k) = at => k = at - 1)
    BY <1>1
  <1> HIDE DEF l, r, from
  <1>9. ASSUME NEW a, NEW b, OutOfOrder(a, b)' PROVE OutOfOrder(a, b) /\ <<a, b>> # <<l, r>>
    <2>1. PICK i, j \in 1..Count : i < j /\ ids'[i] = a /\ ids'[j] = b /\ req[a].size < req[b].size
      BY <1>1, <1>9 DEF OutOfOrder
    <2>2. a = ids[from(i)] /\ b = ids[from(j)] /\ from(i) \in 1..Count /\ from(j) \in 1..Count
      BY <1>4, <2>1
    <2>3. ~(i = at - 1 /\ j = at)
      BY <1>3, <1>5, <1>7, <2>1, <2>2 DEF l, r
    <2>4. OutOfOrder(a, b)
      BY <1>6, <2>1, <2>2, <2>3 DEF OutOfOrder
    <2>5. ASSUME a = l, b = r PROVE FALSE
      <3>1. from(i) = at - 1 /\ from(j) = at
        BY <1>1, <1>2, <2>2, <2>5 DEF l, r
      <3>2. i = at /\ j = at - 1
        BY <1>8, <3>1
      <3> QED BY <1>1, <2>1, <3>2
    <2> QED BY <2>4, <2>5
  <1>10. OutOfOrder(l, r)
    BY <1>1, <1>3 DEF OutOfOrder, l, r
  <1>11. Inversions' \subseteq Inversions \ {<<l, r>>}
    BY <1>9 DEF Inversions
  <1>12. <<l, r>> \in Inversions
    BY <1>1, <1>5, <1>10 DEF Inversions
  <1>13. IsFiniteSet(Inversions) /\ Cardinality(Inversions) \in Nat
    BY FewInversions DEF Inversions
  <1>14. /\ IsFiniteSet(Inversions \ {<<l, r>>})
         /\ Cardinality(Inversions \ {<<l, r>>}) = Cardinality(Inversions) - 1
    BY <1>12, <1>13, FS_RemoveElement
  <1>15. Cardinality(Inversions') <= Cardinality(Inversions) - 1 /\ Cardinality(Inversions') \in Nat
    BY <1>11, <1>14, FS_Subset, FS_CardinalityType
  <1> QED BY <1>3, <1>13, <1>15

LEMMA SortRank ==
    ASSUME PlannerInv, PassInv, Compare \/ PassAgain
    PROVE  Smaller(PlanRank', PlanRank)
  <1>1. /\ pc = "sort" /\ pc' = "sort" /\ Count' = Count /\ Count \in Nat /\ at \in Nat
        /\ Cardinality(Inversions) \in Nat /\ swapped \in BOOLEAN
    BY CountType, FewInversions DEF PlannerInv, Base, TypeOK, Compare, PassAgain, Count, Inversions
  <1>2. CASE PassAgain
    <2>1. Inversions' = Inversions
      BY <1>2 DEF PassAgain, Inversions, OutOfOrder, Count
    <2>2. swapped /\ ~swapped'
      BY <1>2 DEF PassAgain
    <2> QED BY <1>1, <2>1, <2>2 DEF PlanRank, Smaller
  <1>3. CASE Compare
    <2>1. at' = at + 1
      BY <1>3 DEF Compare
    <2>2. CASE ids' = ids /\ swapped' = swapped
      <3>1. Inversions' = Inversions
        BY <1>1, <1>3, <2>2 DEF Compare, Inversions, OutOfOrder
      <3> QED BY <1>1, <2>1, <2>2, <3>1 DEF PlanRank, Smaller
    <2>3. CASE ids' # ids \/ swapped' # swapped
      <3>1. Cardinality(Inversions') < Cardinality(Inversions) /\ swapped' = TRUE
        BY <1>3, <2>3, SwapSorts
      <3>2. Cardinality(Inversions') \in Nat
        BY FewInversions, <1>3 DEF Inversions, Compare
      <3> QED BY <1>1, <2>1, <3>1, <3>2 DEF PlanRank, Smaller
    <2> QED BY <2>2, <2>3
  <1> QED BY <1>2, <1>3

LEMMA SearchRank ==
    ASSUME PlannerInv, PlaceLargest \/ PassEntry \/ Place
    PROVE  Smaller(PlanRank', PlanRank)
  <1>1. /\ Count' = Count /\ Count \in Nat /\ Len(placed) \in Nat /\ prior \in 0..Len(placed)
        /\ pc # "idle" => ~stale
        /\ pc = "search" => Len(placed) \in 1..Count - 1
    BY CountType DEF PlannerInv, Base, TypeOK, PhaseInv, PlaceLargest, PassEntry, Place, Count
  <1>2. CASE PlaceLargest
    BY <1>1, <1>2 DEF PlaceLargest, SearchFrom, PlanRank, Smaller
  <1>3. CASE PassEntry
    <2>1. pc' = "search" /\ placed' = placed /\ prior' \in prior + 1..Len(placed)
      BY <1>3 DEF PassEntry, Following
    <2> QED BY <1>1, <1>3, <2>1 DEF PassEntry, PlanRank, Smaller
  <1>4. CASE Place
    <2>1. Len(placed') = Len(placed) + 1
      <3>1. PICK k \in 1..Len(placed) : placed' = InsertAfter(k, Wanted)
        BY <1>4 DEF Place
      <3>2. placed' \in Seq(Ids) /\ DOMAIN placed' = 1..Len(placed) + 1
        <4>1. placed' \in Seq(Ids)
          BY <1>4, PlaceInv DEF PlannerInv, Base, TypeOK
        <4> QED BY <3>1, <4>1 DEF InsertAfter
      <3> QED BY <1>1, <3>2, LenProperties
    <2> QED BY <1>1, <1>4, <2>1 DEF Place, SearchFrom, PlanRank, Smaller
  <1> QED BY <1>2, <1>3, <1>4

LEMMA PlanStepRank ==
    ASSUME PlannerInv, PassInv, Plan
    PROVE  Smaller(PlanRank', PlanRank)
  <1>1. CASE CalculateOffsetsIfNeeded
    BY <1>1 DEF CalculateOffsetsIfNeeded, PlanRank, Smaller
  <1> QED BY <1>1, SortRank, SearchRank DEF Plan

\* However many buffers there are: each step of a plan brings it closer to its end, by a
\* rank of three natural numbers of which none is ever below zero.  So the passes of the
\* bubble sort and the searches for gaps cannot go on for ever.
THEOREM PlansGetCloser ==
    PlannerSpec => /\ [](PlanRank \in Ranks)
                   /\ [][Plan => Smaller(PlanRank', PlanRank)]_plannerVars
  <1>1. PlannerInit => PassInv
    BY DEF PlannerInit, PassInv
  <1>2. PlannerSpec => []PassInv
    BY <1>1, PassStep, Invariance, PTL DEF PlannerSpec
  <1>3. PlannerInv /\ PassInv => PlanRank \in Ranks
    BY PlanRankType
  <1>4. PlannerInv /\ PassInv /\ [PlannerNext]_plannerVars
           => [Plan => Smaller(PlanRank', PlanRank)]_plannerVars
    BY PlanStepRank
  <1> QED BY <1>2, <1>3, <1>4, Invariance, PTL DEF PlannerSpec

-----------------------------------------------------------------------------
(* Nor does a search get stuck *)

\* If something alive with the wanted buffer follows, one entry is the next of it.
LEMMA NextIsFound ==
    ASSUME PlannerInv, Following # {}
    PROVE  \E q \in Following : IsNext(q)
  <1>1. prior \in Nat /\ Len(placed) \in Nat
    BY CountType DEF PlannerInv, Base, TypeOK
  <1>2. Following \in SUBSET Nat
    BY <1>1 DEF Following
  <1> QED BY <1>2, Least DEF IsNext

\* The walk along the list stops at the first entry that lies behind the place found, or
\* at the end.
LEMMA PlaceIsFound ==
    ASSUME PlannerInv, pc = "search"
    PROVE  \E k \in 1..Len(placed) : IsPlaceFor(k, Candidate)
  <1> DEFINE c == Candidate
             L == Len(placed)
             stops == {k \in 1..L : k < L => offset[placed[k + 1]] > c}
  <1>1. L \in Nat /\ L > 0 /\ c \in Nat
    BY WantedType, CandidateType DEF PlannerInv
  <1> HIDE DEF c
  <1>2. \A p \in 1..L : offset[placed[p]] \in Nat
    BY EntryType DEF PlannerInv
  <1>3. L \in stops /\ stops \in SUBSET Nat
    BY <1>1
  <1>4. PICK k \in stops : \A n \in stops : k <= n
    BY <1>3, Least
  <1>5. ASSUME NEW p \in 2..k PROVE offset[placed[p]] <= c
    <2>1. k \in 1..L
      BY <1>4
    <2>2. p - 1 \in 1..L /\ p - 1 < L /\ p \in 1..L /\ (p - 1) + 1 = p /\ ~(k <= p - 1)
      BY <1>1, <2>1
    <2>3. p - 1 \notin stops
      BY <1>4, <2>2
    <2> QED BY <1>1, <1>2, <2>2, <2>3
  <1> QED BY <1>4, <1>5 DEF IsPlaceFor, c

\* A search always has a step to take: there is an entry to look at or none is in the way,
\* and if the gap is large enough the list has a place for the buffer.
SearchGoesOn ==
    pc = "search" => /\ Following = {} \/ \E q \in Following : IsNext(q)
                     /\ \E k \in 1..Len(placed) : IsPlaceFor(k, Candidate)

\* Whatever the buffers: no search for a gap gets stuck, whose loops have no other end than
\* finding the next entry alive at the same time and the place in the list.
THEOREM SearchesGoOn == PlannerSpec => []SearchGoesOn
  <1>1. PlannerInv => SearchGoesOn
    BY NextIsFound, PlaceIsFound DEF SearchGoesOn
  <1> QED BY <1>1, Invariance, PTL

-----------------------------------------------------------------------------
(* One inference *)

Ready == phase \in {"create", "commit", "input", "invoke", "done"}
N == Len(graph.ops)
Total == graph.tensors + Len(graph.scratch)

Alive(e, i) == needs[e] /\ first[e] <= i /\ i <= last[e]

\* While the operators are walked: what those behind op have widened.
LifeInv ==
    phase = "lifetimes" =>
        /\ op <= N - 1
        /\ \A e \in Entries(graph) : needs[e] = (e \in Tensors(graph) \ graph.kept)
        /\ \A t \in graph.inputs : first[t] = 0
        /\ \A t \in graph.outputs : last[t] = N - 1
        /\ \A t \in Tensors(graph) :
              /\ last[t] <= N - 1
              /\ last[t] # -1 => \/ last[t] = N - 1
                                 \/ last[t] \in Operators(graph) /\ t \in Op(graph, last[t]).in
        /\ \A j \in Operators(graph) : j > op =>
              /\ \A t \in Op(graph, j).in : last[t] >= j
              /\ \A t \in Op(graph, j).out : first[t] >= 0 /\ first[t] <= j

\* Afterwards: lifetimes cover every use.
GraphInv ==
    Ready =>
        /\ \A t \in graph.inputs : Alive(t, 0)
        /\ \A t \in graph.outputs \ graph.kept : needs[t] /\ last[t] >= N - 1
        /\ \A j \in Operators(graph) :
              /\ \A t \in Op(graph, j).in \ graph.kept : needs[t] /\ last[t] >= j
              /\ \A e \in Op(graph, j).out \cup ScratchOf(j) : Alive(e, j)

\* The planner's numbers of the entries.
Before(e) == IF e = 1 THEN 0 ELSE slot[e - 1]
Handed(e) == phase = "create" => e < entry
SlotInv ==
    /\ phase = "lifetimes" => Count = 0 /\ entry = 1
    /\ phase \in {"lifetimes", "create"} => index = 0
    /\ phase \in {"create", "commit"} => entry <= Total + 1
    /\ phase = "create" => Before(entry) = Count
    /\ phase = "commit" => Before(entry) = index
    /\ Ready =>
        \A e \in Entries(graph) : Handed(e) =>
            /\ slot[e] = Before(e) + (IF needs[e] THEN 1 ELSE 0)
            /\ needs[e] => /\ slot[e] \in 1..Count
                           /\ req[slot[e]] = [size |-> AlignSizeUp(graph.bytes[e]),
                                              first |-> first[e], last |-> last[e]]
            /\ slot[e] \in 0..Count
            /\ \A d \in 1..e - 1 : slot[d] <= Before(e)

\* The pointers are the plan's offsets.
PtrInv ==
    phase \in {"commit", "input", "invoke", "done"} =>
        /\ Planned \/ Count = 0
        /\ MaximumMemorySize <= Available
        /\ \A e \in Entries(graph) :
              needs[e] /\ (phase = "commit" => e < entry) => ptr[e] = GetOffsetForBuffer(slot[e])

\* What was written and is not past its last use is still there.
Written(e) ==
    e \in graph.inputs \/ \E i \in 0..op - 1 : i \in Operators(graph) /\ e \in Op(graph, i).out \cup ScratchOf(i)

Full(e) == ptr[e] # -1 /\ \A c \in CellsOf(e) : c \in Cells /\ mem[c] = e

MemInv ==
    /\ phase = "done" => op = N
    /\ phase \in {"invoke", "done"} =>
        /\ op >= 0
        /\ \A e \in Entries(graph) : needs[e] /\ Written(e) /\ op - 1 <= last[e] => Full(e)

Inv == PlannerInv /\ Top /\ InferenceTypeOK /\ LifeInv /\ GraphInv /\ SlotInv /\ PtrInv /\ MemInv

-----------------------------------------------------------------------------
(* What is known of a model *)

LEMMA GraphType ==
    ASSUME graph \in Graphs
    PROVE  /\ WellFormed(graph)
           /\ N \in Nat /\ graph.tensors \in Nat /\ Len(graph.scratch) \in Nat /\ Total \in Nat
           /\ Entries(graph) = 1..Total /\ Operators(graph) = 0..N - 1
           /\ Tensors(graph) \subseteq Entries(graph)
  BY InferenceAssumption DEF WellFormed, N, Total, Entries, Operators, Tensors

LEMMA AlignUp ==
    ASSUME NEW size \in Nat
    PROVE  AlignSizeUp(size) \in Nat /\ AlignSizeUp(size) >= size
  <1> DEFINE k == kBufferAlignment
             q == (size + (k - 1)) \div k
  <1>1. k \in Nat /\ k > 0
    BY InferenceAssumption
  <1>2. q \in Nat /\ size + (k - 1) < k * (q + 1)
    BY <1>1
  <1>3. k * (q + 1) = q * k + k
    BY <1>1, <1>2
  <1> QED
    BY <1>1, <1>2, <1>3 DEF AlignSizeUp

\* A tensor that is used or asked for comes from somewhere.
LEMMA Source ==
    ASSUME graph \in Graphs, NEW t,
           \/ t \in graph.outputs
           \/ \E j \in Operators(graph) : t \in Op(graph, j).in
    PROVE  /\ t \in Tensors(graph)
           /\ t \in graph.kept \/ t \in graph.inputs
              \/ \E i \in Operators(graph) : t \in Op(graph, i).out
  <1>1. WellFormed(graph)
    BY GraphType
  <1>2. t \in graph.outputs \cup UNION {Op(graph, i).in : i \in Operators(graph)}
    OBVIOUS
  <1>3. t \in graph.inputs \cup graph.kept \cup UNION {Op(graph, i).out : i \in Operators(graph)}
    BY <1>1, <1>2 DEF WellFormed
  <1>4. t \in Tensors(graph)
    BY <1>1 DEF WellFormed
  <1> QED
    BY <1>3, <1>4

-----------------------------------------------------------------------------
(* Every step is one of the planner's, or leaves it alone *)

LEMMA RequirementOf ==
    ASSUME InferenceTypeOK, NEW e \in Entries(graph)
    PROVE  /\ [size |-> AlignSizeUp(graph.bytes[e]), first |-> first[e], last |-> last[e]] \in Requirements
           /\ graph.bytes[e] \in Nat /\ first[e] \in Int /\ last[e] \in Int
  <1>1. first[e] \in -1..Len(graph.ops) /\ last[e] \in -1..Len(graph.ops) /\ graph \in Graphs
    BY DEF InferenceTypeOK, Lifetime
  <1>2. graph.bytes[e] \in Nat /\ Len(graph.ops) \in Nat
    BY <1>1, GraphType DEF WellFormed
  <1> QED
    BY <1>1, <1>2, InferenceAssumption

LEMMA PlannerStep ==
    ASSUME InferenceTypeOK, [Next]_vars
    PROVE  [PlannerNext]_plannerVars
  <1>1. CASE CreatePlan
    BY <1>1, RequirementOf DEF CreatePlan, PlannerNext
  <1>2. CASE MakePlan
    BY <1>2 DEF MakePlan, PlannerNext
  <1> QED
    BY <1>1, <1>2 DEF Next, vars, LifetimesOfOperator, CheckLifetimes, CheckSize, CommitPlan,
                      AllocateVariables, FillInput, InvokeOperator, InvokeDone

\* The planner at work leaves the requirements alone.
LEMMA PlanKeeps ==
    ASSUME Plan
    PROVE  req' = req /\ Count' = Count
  BY DEF Plan, CalculateOffsetsIfNeeded, Compare, PassAgain, PlaceLargest, PassEntry, Place, Count

LEMMA CountNat ==
    ASSUME PlannerInv
    PROVE  Count \in Nat
  BY CountType DEF PlannerInv, Base

-----------------------------------------------------------------------------
(* Lifetimes *)

LEMMA LifeStep ==
    ASSUME InferenceTypeOK, LifeInv, [Next]_vars
    PROVE  LifeInv'
  <1>1. CASE LifetimesOfOperator
    <2>1. graph \in Graphs /\ N \in Nat /\ WellFormed(graph) /\ Operators(graph) = 0..N - 1
      BY GraphType DEF InferenceTypeOK
    <2>2. /\ op \in Operators(graph) /\ op \in Nat /\ op <= N - 1 /\ phase = "lifetimes"
          /\ op' = op - 1 /\ graph' = graph /\ needs' = needs /\ phase' = phase
      BY <1>1, <2>1 DEF LifetimesOfOperator, InferenceTypeOK, LifeInv
    <2>3. \A t \in Entries(graph) :
              /\ last[t] \in Int /\ first[t] \in Int /\ last[t] >= -1 /\ first[t] >= -1
              /\ last'[t] = IF t \in Op(graph, op).in /\ (last[t] = -1 \/ last[t] < op) THEN op ELSE last[t]
              /\ first'[t] = IF t \in Op(graph, op).out /\ (first[t] = -1 \/ first[t] > op)
                             THEN op ELSE first[t]
      BY <1>1, <2>1 DEF LifetimesOfOperator, InferenceTypeOK, Lifetime, N
    <2>4. /\ Tensors(graph) \subseteq Entries(graph) /\ graph.inputs \subseteq Tensors(graph)
          /\ graph.outputs \subseteq Tensors(graph)
          /\ \A j \in Operators(graph) : Op(graph, j).in \subseteq Tensors(graph)
                                       /\ Op(graph, j).out \subseteq Tensors(graph)
      BY <2>1, GraphType DEF WellFormed
    <2>5. \A t \in graph.inputs : first'[t] = 0
      BY <2>1, <2>2, <2>3, <2>4 DEF LifeInv
    <2>6. \A t \in graph.outputs : last'[t] = N - 1
      BY <2>1, <2>2, <2>3, <2>4 DEF LifeInv
    <2>7. ASSUME NEW t \in Tensors(graph)
          PROVE  /\ last'[t] <= N - 1
                 /\ last'[t] # -1 => \/ last'[t] = N - 1
                                     \/ last'[t] \in Operators(graph) /\ t \in Op(graph, last'[t]).in
      BY <2>1, <2>2, <2>3, <2>4 DEF LifeInv
    <2>8. ASSUME NEW j \in Operators(graph), j > op - 1
          PROVE  /\ \A t \in Op(graph, j).in : last'[t] >= j
                 /\ \A t \in Op(graph, j).out : first'[t] >= 0 /\ first'[t] <= j
      <3>1. CASE j = op
        BY <2>1, <2>2, <2>3, <2>4, <3>1
      <3>2. CASE j > op
        BY <2>1, <2>2, <2>3, <2>4, <3>2 DEF LifeInv
      <3> QED
        BY <2>1, <2>2, <2>8, <3>1, <3>2
    <2> QED
      BY <2>1, <2>2, <2>5, <2>6, <2>7, <2>8 DEF LifeInv, N
  <1>2. CASE UNCHANGED vars
    BY <1>2 DEF vars, inferenceVars, LifeInv, N
  <1>3. CASE MakePlan
    BY <1>3 DEF MakePlan, inferenceVars, LifeInv, N
  <1> QED
    BY <1>1, <1>2, <1>3 DEF Next, LifeInv, CheckLifetimes, CreatePlan, CheckSize, CommitPlan,
                      AllocateVariables, FillInput, InvokeOperator, InvokeDone

LEMMA GraphStep ==
    ASSUME InferenceTypeOK, LifeInv, GraphInv, [Next]_vars
    PROVE  GraphInv'
  <1>1. CASE CheckLifetimes
    <2> SUFFICES ASSUME phase' = "create" PROVE GraphInv'
      BY <1>1 DEF CheckLifetimes, GraphInv, Ready
    <2>1. /\ graph \in Graphs /\ N \in Nat /\ WellFormed(graph) /\ Operators(graph) = 0..N - 1
          /\ Tensors(graph) \subseteq Entries(graph)
      BY GraphType DEF InferenceTypeOK
    <2>2. /\ phase = "lifetimes" /\ op < 0 /\ op \in Int /\ graph' = graph
          /\ \A t \in Tensors(graph) : ~(HasPartialLifetime(t) /\ needs[t])
          /\ \A e \in Entries(graph) :
                /\ first'[e] = IF e \in Tensors(graph) THEN first[e] ELSE graph.scratch[e - graph.tensors]
                /\ last'[e] = IF e \in Tensors(graph) THEN last[e] ELSE graph.scratch[e - graph.tensors]
                /\ e \notin Tensors(graph) => needs'[e]
                /\ needs[e] /\ ~ReadOnly(e) => needs'[e]
      <3>1. needs' = [e \in Entries(graph) |-> e \in Tensors(graph) => needs[e] /\ ~ReadOnly(e)]
        BY <1>1 DEF CheckLifetimes
      <3>2. \A e \in Entries(graph) : /\ e \notin Tensors(graph) => needs'[e]
                                      /\ needs[e] /\ ~ReadOnly(e) => needs'[e]
        BY ONLY <3>1, Zenon
      <3>3. \A t \in Tensors(graph) : ~(HasPartialLifetime(t) /\ needs[t])
        BY <1>1, Zenon DEF CheckLifetimes
      <3> QED
        BY <1>1, <3>2, <3>3 DEF CheckLifetimes, InferenceTypeOK
    <2>3. /\ graph.inputs \subseteq Tensors(graph) /\ graph.outputs \subseteq Tensors(graph)
          /\ graph.inputs \cap graph.kept = {}
          /\ \A j \in Operators(graph) :
                /\ Op(graph, j).in \subseteq Tensors(graph)
                /\ Op(graph, j).out \subseteq Tensors(graph) \ graph.kept
      BY <2>1 DEF WellFormed
    <2>4. \A t \in Tensors(graph) \ graph.kept :
              first[t] # -1 => /\ last[t] # -1 /\ last[t] \in Int /\ last[t] >= -1 /\ last[t] <= N - 1
                               /\ first[t] \in Int
                               /\ needs'[t] /\ first'[t] = first[t] /\ last'[t] = last[t]
                               /\ \/ last[t] = N - 1
                                  \/ last[t] \in Operators(graph) /\ t \in Op(graph, last[t]).in
      <3> SUFFICES ASSUME NEW t \in Tensors(graph) \ graph.kept, first[t] # -1
                   PROVE  /\ last[t] # -1 /\ needs'[t]
                          /\ last[t] \in Int /\ last[t] >= -1 /\ last[t] <= N - 1
                          /\ first[t] \in Int /\ first'[t] = first[t] /\ last'[t] = last[t]
                          /\ \/ last[t] = N - 1
                             \/ last[t] \in Operators(graph) /\ t \in Op(graph, last[t]).in
        OBVIOUS
      <3>1. needs[t] /\ ~ReadOnly(t)
        BY <2>1, <2>2 DEF ReadOnly, LifeInv
      <3>2. last[t] # -1
        BY <2>2, <3>1 DEF HasPartialLifetime
      <3>3. last[t] \in Int /\ last[t] >= -1 /\ first[t] \in Int
        BY <2>1 DEF InferenceTypeOK, Lifetime, N
      <3> QED
        BY <2>1, <2>2, <3>1, <3>2, <3>3 DEF LifeInv
    <2>5. \A j \in Operators(graph) : j > op
      BY <2>1, <2>2
    <2>6. \A i \in Operators(graph) : \A t \in Op(graph, i).out : first[t] # -1
      BY <2>1, <2>2, <2>5 DEF LifeInv
    <2>7. \A t \in graph.inputs : first[t] # -1
      BY <2>2 DEF LifeInv
    <2>8. ASSUME NEW t \in graph.inputs
          PROVE  needs'[t] /\ first'[t] <= 0 /\ 0 <= last'[t]
      BY <2>1, <2>2, <2>3, <2>4, <2>7 DEF LifeInv
    <2>9. ASSUME NEW t \in graph.outputs \ graph.kept
          PROVE  needs'[t] /\ last'[t] >= N - 1
      <3>1. first[t] # -1
        BY <2>1, <2>6, <2>7, Source
      <3> QED
        BY <2>1, <2>2, <2>3, <2>4, <3>1 DEF LifeInv
    <2>10. ASSUME NEW j \in Operators(graph), NEW t \in Op(graph, j).in \ graph.kept
           PROVE  needs'[t] /\ last'[t] >= j
      <3>1. first[t] # -1
        BY <2>1, <2>6, <2>7, Source
      <3> QED
        BY <2>1, <2>2, <2>3, <2>4, <2>5, <3>1 DEF LifeInv
    <2>11. ASSUME NEW j \in Operators(graph), NEW e \in Op(graph, j).out
           PROVE  needs'[e] /\ first'[e] <= j /\ j <= last'[e]
      <3>1. first[e] # -1 /\ e \in Tensors(graph) \ graph.kept /\ first[e] <= j
        BY <2>2, <2>3, <2>5, <2>6 DEF LifeInv
      <3>2. CASE last[e] = N - 1
        BY <2>1, <2>4, <3>1, <3>2
      <3>3. CASE last[e] \in Operators(graph) /\ e \in Op(graph, last[e]).in
        <4>1. j < last[e]
          BY <2>1, <3>3 DEF WellFormed
        <4> QED
          BY <2>1, <2>4, <3>1, <3>3, <4>1
      <3> QED
        BY <2>4, <3>1, <3>2, <3>3
    <2>12. ASSUME NEW j \in Operators(graph), NEW e \in ScratchOf(j)
           PROVE  needs'[e] /\ first'[e] <= j /\ j <= last'[e]
      BY <2>1, <2>2, <2>12 DEF ScratchOf
    <2> QED
      <3>1. /\ \A t \in graph.inputs : Alive(t, 0)'
            /\ \A t \in graph.outputs \ graph.kept : needs'[t] /\ last'[t] >= N - 1
        BY <2>8, <2>9 DEF Alive
      <3>2. ASSUME NEW j \in Operators(graph)
            PROVE  /\ \A t \in Op(graph, j).in \ graph.kept : needs'[t] /\ last'[t] >= j
                   /\ \A e \in Op(graph, j).out \cup ScratchOf(j) : Alive(e, j)'
        BY <2>10, <2>11, <2>12 DEF Alive
      <3> QED
        BY <2>2, <3>1, <3>2 DEF GraphInv, N, ScratchOf
  <1>2. CASE /\ UNCHANGED <<graph, first, last, needs>>
             /\ Ready' => Ready
    BY <1>2 DEF GraphInv, Alive, N, ScratchOf
  <1>3. CASE LifetimesOfOperator
    BY <1>3 DEF LifetimesOfOperator, GraphInv, Ready
  <1> QED
    BY <1>1, <1>2, <1>3 DEF Next, vars, inferenceVars, Ready, CreatePlan, MakePlan,
                      CheckSize, CommitPlan, AllocateVariables, FillInput, InvokeOperator, InvokeDone

-----------------------------------------------------------------------------
(* The planner's numbers *)

\* Handing an entry in, or passing it over, numbers it.
LEMMA SlotCreate ==
    ASSUME InferenceTypeOK, SlotInv, Total \in Nat, Entries(graph) = 1..Total,
           Count \in Nat, phase = "create", phase' = "create",
           entry \in 1..Total, entry' = entry + 1, index = 0,
           UNCHANGED <<graph, first, last, needs, index>>,
           Count' = Count + (IF needs[entry] THEN 1 ELSE 0),
           slot' = [slot EXCEPT ![entry] = Count'],
           \A b \in 1..Count : req'[b] = req[b],
           needs[entry] => req'[Count'] = [size |-> AlignSizeUp(graph.bytes[entry]),
                                           first |-> first[entry], last |-> last[entry]]
    PROVE  SlotInv'
  <1>1. slot \in [1..Total -> Int] /\ slot'[entry] = Count' /\ Count' \in Nat /\ Count <= Count'
    BY DEF InferenceTypeOK
  <1>2. \A e \in 1..Total : e # entry => slot'[e] = slot[e]
    BY <1>1
  <1>3. Before(entry) = Count
    BY DEF SlotInv
  <1>4. \A e \in 1..entry : Before(e)' = Before(e)
    BY <1>2 DEF Before
  <1>5. Before(entry)' = Count'
    BY <1>1 DEF Before
  <1>6. ASSUME NEW e \in 1..Total, e < entry
        PROVE  /\ slot[e] = Before(e) + (IF needs[e] THEN 1 ELSE 0)
               /\ needs[e] => /\ slot[e] \in 1..Count
                              /\ req[slot[e]] = [size |-> AlignSizeUp(graph.bytes[e]),
                                                 first |-> first[e], last |-> last[e]]
               /\ slot[e] \in 0..Count
               /\ \A d \in 1..e - 1 : slot[d] <= Before(e)
    BY <1>6 DEF SlotInv, Ready, Handed
  <1>7. ASSUME NEW d \in 1..entry - 1
        PROVE  slot[d] <= Before(entry)
    <2>1. /\ entry - 1 \in 1..Total /\ entry - 1 < entry /\ Before(entry) = slot[entry - 1]
          /\ d \in 1..Total /\ slot[d] \in Int /\ slot[entry - 1] \in Int
      BY <1>1, <1>7 DEF Before
    <2>2. CASE d = entry - 1
      BY <2>1, <2>2
    <2>3. CASE d # entry - 1
      <3>1. /\ slot[d] <= Before(entry - 1)
            /\ slot[entry - 1] = Before(entry - 1) + (IF needs[entry - 1] THEN 1 ELSE 0)
        <4>1. d \in 1..(entry - 1) - 1
          BY <1>7, <2>3
        <4> QED
          BY <1>6, <2>1, <4>1, Zenon
      <3>2. Before(entry - 1) \in Int
        BY <1>1, <2>1 DEF Before
      <3> QED
        BY <2>1, <3>1, <3>2
    <2> QED
      BY <2>2, <2>3
  <1>8. ASSUME NEW e \in 1..Total, e < entry + 1
        PROVE  /\ slot'[e] = Before(e)' + (IF needs[e] THEN 1 ELSE 0)
               /\ needs[e] => /\ slot'[e] \in 1..Count'
                              /\ req'[slot'[e]] = [size |-> AlignSizeUp(graph.bytes[e]),
                                                   first |-> first[e], last |-> last[e]]
               /\ slot'[e] \in 0..Count'
               /\ \A d \in 1..e - 1 : slot'[d] <= Before(e)'
    <2>1. CASE e = entry
      BY <1>1, <1>2, <1>3, <1>4, <1>7, <2>1
    <2>2. CASE e < entry
      BY <1>1, <1>2, <1>4, <1>6, <2>2
    <2> QED
      BY <1>8, <2>1, <2>2
  <1>9. /\ Total' = Total /\ Entries(graph)' = 1..Total /\ entry' <= Total + 1
        /\ Ready' /\ phase' # "lifetimes" /\ phase' # "commit" /\ index' = 0
    BY DEF Total, Ready
  <1> QED
    BY <1>5, <1>8, <1>9 DEF SlotInv, Handed

LEMMA SlotStep ==
    ASSUME PlannerInv, InferenceTypeOK, SlotInv, [Next]_vars
    PROVE  SlotInv'
  <1>1. /\ graph \in Graphs /\ Total \in Nat /\ Entries(graph) = 1..Total /\ entry \in Nat /\ entry > 0
        /\ Count \in Nat /\ index \in Nat
    BY GraphType, CountNat DEF InferenceTypeOK
  <1>2. CASE CheckLifetimes
    BY <1>1, <1>2 DEF CheckLifetimes, SlotInv, Total, Ready, Handed, Before, plannerVars, Count
  <1>3. CASE CreatePlan
    <2>1. /\ phase = "create" /\ entry \in 1..Total /\ entry' = entry + 1 /\ index = 0
          /\ Before(entry) = Count /\ Count' = Len(req')
          /\ UNCHANGED <<graph, first, last, needs, index>>
          /\ phase' \in {"create", "failed"}
          /\ slot' = [slot EXCEPT ![entry] = Count']
      BY <1>1, <1>3 DEF CreatePlan, SlotInv, Count
    <2> SUFFICES ASSUME phase' = "create" PROVE SlotInv'
      BY <1>1, <2>1 DEF SlotInv, Ready, Total
    <2> DEFINE r == [size |-> AlignSizeUp(graph.bytes[entry]), first |-> first[entry], last |-> last[entry]]
    <2>2. CASE needs[entry]
      <3>1. AddBuffer(r) /\ r \in Requirements
        BY <1>1, <1>3, <2>1, <2>2, RequirementOf DEF CreatePlan
      <3>2. /\ Count' = Count + 1 /\ req'[Count'] = r
            /\ \A b \in 1..Count : req'[b] = req[b]
        BY <1>1, <3>1, AppendProperties, Appended DEF AddBuffer, PlannerInv, Base, TypeOK, Count
      <3> QED
        BY <1>1, <2>1, <2>2, <3>2, SlotCreate
    <2>3. CASE ~needs[entry]
      <3>1. req' = req /\ Count' = Count
        BY <1>3, <2>3 DEF CreatePlan, plannerVars, Count
      <3> QED
        BY <1>1, <2>1, <2>3, <3>1, SlotCreate
    <2> QED
      BY <2>2, <2>3
  <1>4. CASE MakePlan
    BY <1>1, <1>4, PlanKeeps DEF MakePlan, inferenceVars, SlotInv, Ready, Total, Handed, Before
  <1>5. CASE CheckSize
    <2>1. /\ phase = "create" /\ entry = Total + 1 /\ entry' = 1 /\ index = 0
          /\ UNCHANGED <<req, graph, first, last, needs, index, slot>> /\ Count' = Count
          /\ phase' \in {"commit", "failed"}
      BY <1>1, <1>5 DEF CheckSize, SlotInv, plannerVars, Count
    <2> QED
      BY <1>1, <2>1 DEF SlotInv, Ready, Total, Handed, Before
  <1>6. CASE CommitPlan
    <2>1. /\ phase = "commit" /\ entry \in 1..Total /\ entry' = entry + 1 /\ phase' = phase
          /\ UNCHANGED <<req, graph, first, last, needs, slot>> /\ Count' = Count
          /\ index' = IF needs[entry] THEN index + 1 ELSE index
      BY <1>1, <1>6 DEF CommitPlan, plannerVars, Count
    <2>2. slot[entry] = Before(entry) + (IF needs[entry] THEN 1 ELSE 0) /\ Before(entry) = index
      BY <1>1, <2>1 DEF SlotInv, Ready, Handed
    <2>3. Before(entry)' = index'
      BY <1>1, <2>1, <2>2 DEF Before
    <2>4. \A e \in 1..Total : Before(e)' = Before(e)
      BY <2>1 DEF Before
    <2> QED
      BY <1>1, <2>1, <2>3, <2>4 DEF SlotInv, Ready, Total, Handed
  <1>7. CASE LifetimesOfOperator \/ UNCHANGED vars
    BY <1>7 DEF LifetimesOfOperator, vars, inferenceVars, plannerVars, SlotInv, Ready, Total, Handed,
                Before, Count
  <1>8. CASE AllocateVariables \/ FillInput \/ InvokeOperator \/ InvokeDone
    BY <1>8 DEF AllocateVariables, FillInput, InvokeOperator, InvokeDone, plannerVars, SlotInv, Ready,
                Total, Handed, Before, Count
  <1> QED
    BY <1>2, <1>3, <1>4, <1>5, <1>6, <1>7, <1>8 DEF Next

-----------------------------------------------------------------------------
(* The pointers *)

LEMMA SizeKept ==
    ASSUME UNCHANGED plannerVars
    PROVE  /\ MaximumMemorySize' = MaximumMemorySize /\ Planned' = Planned /\ Count' = Count
           /\ offset' = offset
  BY DEF plannerVars, MaximumMemorySize, End, Planned, Count

LEMMA SizeNat ==
    ASSUME PlannerInv, Top
    PROVE  MaximumMemorySize \in Nat
  <1>1. CASE 1..Len(placed) = {}
    BY <1>1 DEF MaximumMemorySize
  <1>2. CASE \E p : p \in 1..Len(placed)
    BY <1>2, SizeCovers
  <1> QED
    BY <1>1, <1>2

LEMMA PtrStep ==
    ASSUME PlannerInv, Top, InferenceTypeOK, SlotInv, PtrInv, [Next]_vars
    PROVE  PtrInv'
  <1>1. /\ graph \in Graphs /\ Total \in Nat /\ Entries(graph) = 1..Total /\ entry \in Nat /\ entry > 0
        /\ MaximumMemorySize \in Nat /\ Available \in Nat /\ index \in Nat
    BY GraphType, SizeNat, CountNat, InferenceAssumption DEF InferenceTypeOK
  <1>2. CASE CheckSize
    <2>1. /\ phase' = IF MaximumMemorySize > Available THEN "failed" ELSE "commit"
          /\ Planned \/ Count = 0
          /\ UNCHANGED plannerVars /\ entry' = 1 /\ graph' = graph
      BY <1>2 DEF CheckSize
    <2>2. /\ MaximumMemorySize' = MaximumMemorySize /\ Planned' = Planned /\ Count' = Count
      BY <2>1, SizeKept
    <2> QED
      BY <1>1, <2>1, <2>2 DEF PtrInv
  <1>3. CASE CommitPlan
    <2>1. /\ phase = "commit" /\ entry \in 1..Total /\ phase' = phase /\ entry' = entry + 1
          /\ UNCHANGED plannerVars /\ UNCHANGED <<graph, needs, slot>>
          /\ ~needs[entry] => ptr' = ptr
          /\ needs[entry] => ptr' = [ptr EXCEPT ![entry] = offset[index + 1]]
      BY <1>1, <1>3 DEF CommitPlan, GetOffsetForBuffer
    <2>2. needs[entry] => slot[entry] = index + 1
      BY <1>1, <2>1 DEF SlotInv, Ready, Handed
    <2>3. \A e \in 1..Total : needs[e] /\ e < entry' => ptr'[e] = offset[slot[e]]
      <3> SUFFICES ASSUME NEW e \in 1..Total, needs[e], e < entry + 1
                   PROVE  ptr'[e] = offset[slot[e]]
        BY <2>1
      <3>1. ptr \in [1..Total -> Int]
        BY <1>1 DEF InferenceTypeOK
      <3>2. CASE e = entry
        BY <1>1, <2>1, <2>2, <3>1, <3>2
      <3>3. CASE e < entry
        <4>1. ptr[e] = offset[slot[e]]
          BY <1>1, <2>1, <3>3 DEF PtrInv, GetOffsetForBuffer
        <4> QED
          BY <1>1, <2>1, <3>1, <3>3, <4>1
      <3> QED
        BY <1>1, <3>2, <3>3
    <2>4. /\ MaximumMemorySize' = MaximumMemorySize /\ Planned' = Planned /\ Count' = Count
          /\ offset' = offset
      BY <2>1, SizeKept
    <2> QED
      BY <1>1, <2>1, <2>3, <2>4 DEF PtrInv, GetOffsetForBuffer
  <1>4. CASE AllocateVariables \/ FillInput \/ InvokeOperator \/ InvokeDone \/ UNCHANGED vars
    <2>1. /\ UNCHANGED plannerVars /\ UNCHANGED <<graph, needs, slot, ptr, entry>>
          /\ phase' \in {"commit", "input", "invoke", "done"} =>
                 /\ phase \in {"commit", "input", "invoke", "done"}
                 /\ phase = "commit" /\ phase' # "commit" => entry > Total
      BY <1>1, <1>4 DEF AllocateVariables, FillInput, InvokeOperator, InvokeDone, vars, inferenceVars
    <2>2. /\ MaximumMemorySize' = MaximumMemorySize /\ Planned' = Planned /\ Count' = Count
          /\ offset' = offset
      BY <2>1, SizeKept
    <2> QED
      BY <1>1, <2>1, <2>2 DEF PtrInv, GetOffsetForBuffer
  <1>5. CASE LifetimesOfOperator \/ CheckLifetimes \/ CreatePlan \/ MakePlan
    BY <1>5 DEF LifetimesOfOperator, CheckLifetimes, CreatePlan, MakePlan, inferenceVars, PtrInv
  <1> QED
    BY <1>2, <1>3, <1>4, <1>5 DEF Next

-----------------------------------------------------------------------------
(* Where entries lie *)

Committed == phase \in {"input", "invoke", "done"}

LEMMA PlacedAt ==
    ASSUME PlannerInv, Planned, NEW b \in 1..Count
    PROVE  \E p \in 1..Len(placed) : placed[p] = b
  <1>1. Len(placed) = Count /\ ~stale
    BY DEF Planned, PlannerInv, Base, PhaseInv
  <1>2. PICK k \in 1..Count : ids[k] = b
    BY <1>1 DEF PlannerInv, Base, IdsInv
  <1> QED
    BY <1>1, <1>2 DEF PlannerInv, Base, PrefixInv

\* An entry that needs memory has it, inside of the arena.
LEMMA Located ==
    ASSUME PlannerInv, Top, InferenceTypeOK, SlotInv, PtrInv, Committed,
           NEW e \in Entries(graph), needs[e]
    PROVE  /\ Planned /\ slot[e] \in 1..Count
           /\ ptr[e] = offset[slot[e]] /\ ptr[e] \in Nat
           /\ graph.bytes[e] \in Nat
           /\ ptr[e] + graph.bytes[e] <= End(slot[e]) /\ End(slot[e]) \in Nat
           /\ End(slot[e]) <= Available
           /\ req[slot[e]].first = first[e] /\ req[slot[e]].last = last[e]
  <1>1. /\ slot[e] \in 1..Count
        /\ req[slot[e]] = [size |-> AlignSizeUp(graph.bytes[e]), first |-> first[e], last |-> last[e]]
    BY DEF SlotInv, Ready, Handed, Committed
  <1>2. ptr[e] = offset[slot[e]] /\ Planned /\ MaximumMemorySize <= Available
    BY <1>1, CountNat DEF PtrInv, Committed, GetOffsetForBuffer
  <1>3. PICK p \in 1..Len(placed) : placed[p] = slot[e]
    BY <1>1, <1>2, PlacedAt
  <1>4. /\ offset[slot[e]] \in Nat /\ End(slot[e]) \in Nat
        /\ End(slot[e]) = offset[slot[e]] + req[slot[e]].size
        /\ End(slot[e]) <= MaximumMemorySize /\ MaximumMemorySize \in Nat
    BY <1>3, EntryType, SizeCovers DEF PlannerInv
  <1>5. graph.bytes[e] \in Nat /\ AlignSizeUp(graph.bytes[e]) \in Nat
        /\ AlignSizeUp(graph.bytes[e]) >= graph.bytes[e]
    BY RequirementOf, AlignUp
  <1> QED
    BY <1>1, <1>2, <1>4, <1>5, InferenceAssumption

\* Two entries have numbers of their own.
LEMMA OwnSlot ==
    ASSUME InferenceTypeOK, SlotInv, Ready, phase # "create",
           NEW e \in Entries(graph), NEW f \in Entries(graph), e < f, needs[f]
    PROVE  slot[e] # slot[f]
  <1>1. Entries(graph) = 1..Total /\ Total \in Nat
    BY GraphType DEF InferenceTypeOK
  <1>2. e \in 1..f - 1 /\ slot[e] \in Int /\ slot[f] = Before(f) + 1 /\ slot[e] <= Before(f)
    <2>1. e \in 1..f - 1 /\ slot[e] \in Int
      BY <1>1 DEF InferenceTypeOK
    <2>2. /\ slot[f] = Before(f) + (IF needs[f] THEN 1 ELSE 0)
          /\ \A d \in 1..f - 1 : slot[d] <= Before(f)
      BY DEF SlotInv, Handed
    <2> QED
      BY <2>1, <2>2
  <1>3. Before(f) \in Int
    BY <1>1, <1>2 DEF Before, InferenceTypeOK
  <1> QED
    BY <1>2, <1>3

LEMMA OwnCells ==
    ASSUME PlannerInv, Top, InferenceTypeOK, SlotInv, PtrInv, Committed,
           NEW e \in Entries(graph), needs[e], NEW c \in CellsOf(e)
    PROVE  c \in Cells
  BY Located, InferenceAssumption DEF CellsOf, Cells

LEMMA Separate ==
    ASSUME PlannerInv, Top, InferenceTypeOK, SlotInv, PtrInv, Committed,
           NEW i \in Int, NEW e \in Entries(graph), NEW f \in Entries(graph),
           e # f, Alive(e, i), Alive(f, i), NEW c \in CellsOf(e)
    PROVE  c \in Cells /\ c \notin CellsOf(f)
  <1> DEFINE se == slot[e]
             sf == slot[f]
  <1>1. Entries(graph) = 1..Total /\ Total \in Nat
    BY GraphType DEF InferenceTypeOK
  <1>2. /\ needs[e] /\ needs[f]
        /\ first[e] <= i /\ i <= last[e] /\ first[f] <= i /\ i <= last[f]
        /\ first[e] \in Int /\ last[e] \in Int /\ first[f] \in Int /\ last[f] \in Int
    BY RequirementOf DEF Alive
  <1>3. se # sf
    BY <1>1, <1>2, OwnSlot DEF Ready, Committed
  <1>4. /\ Planned /\ se \in 1..Count /\ sf \in 1..Count
        /\ req[se].first = first[e] /\ req[se].last = last[e]
        /\ req[sf].first = first[f] /\ req[sf].last = last[f]
    BY <1>2, Located
  <1>5. /\ ptr[e] = offset[se] /\ ptr[e] \in Nat /\ graph.bytes[e] \in Nat
        /\ ptr[e] + graph.bytes[e] <= End(se) /\ End(se) \in Nat /\ End(se) <= Available
    BY <1>2, Located
  <1>6. /\ ptr[f] = offset[sf] /\ ptr[f] \in Nat /\ graph.bytes[f] \in Nat
        /\ ptr[f] + graph.bytes[f] <= End(sf) /\ End(sf) \in Nat
    BY <1>2, Located
  <1>7. Apart(se, sf)
    <2>1. PICK p \in 1..Len(placed) : placed[p] = se
      BY <1>4, PlacedAt
    <2>2. PICK q \in 1..Len(placed) : placed[q] = sf
      BY <1>4, PlacedAt
    <2>3. OverlapInTime(se, sf)
      BY <1>2, <1>4 DEF OverlapInTime
    <2> QED
      BY <1>3, <2>1, <2>2, <2>3 DEF PlannerInv, NoOverlap
  <1> HIDE DEF se, sf
  <1> QED
    <2>1. /\ c \in Int /\ ptr[e] <= c /\ c < ptr[e] + graph.bytes[e]
          /\ Available \in Nat
      BY <1>5, InferenceAssumption DEF CellsOf
    <2>2. ptr[e] >= ptr[f] + graph.bytes[f] \/ ptr[f] >= ptr[e] + graph.bytes[e]
      BY <1>5, <1>6, <1>7 DEF Apart
    <2>3. c < ptr[f] \/ c >= ptr[f] + graph.bytes[f]
      BY <1>5, <1>6, <2>1, <2>2
    <2>4. c \in Cells
      BY <1>5, <2>1 DEF Cells
    <2> QED
      BY <1>6, <2>1, <2>3, <2>4 DEF CellsOf

-----------------------------------------------------------------------------
(* The contents of the arena *)

\* Writing entries alive together fills them, and spares what lives with them.
LEMMA WriteKeeps ==
    ASSUME PlannerInv, Top, InferenceTypeOK, SlotInv, PtrInv, Committed,
           NEW i \in Int, NEW S \in SUBSET Entries(graph), \A f \in S : Alive(f, i),
           Writes(S), UNCHANGED <<graph, ptr>>,
           NEW e \in Entries(graph), Alive(e, i), e \in S \/ Full(e)
    PROVE  Full(e)'
  <1>1. ptr[e] # -1 /\ CellsOf(e)' = CellsOf(e)
    <2>1. ptr[e] \in Nat
      BY Located DEF Alive
    <2> QED
      BY <2>1 DEF CellsOf
  <1>2. ASSUME NEW c \in CellsOf(e)
        PROVE  c \in Cells /\ mem'[c] = e
    <2>1. CASE \E f \in Planneds(S) : c \in CellsOf(f)
      <3>1. ASSUME NEW f \in Planneds(S), c \in CellsOf(f) PROVE f = e
        <4>1. f \in S /\ f \in Entries(graph) /\ Alive(f, i)
          BY <3>1 DEF Planneds
        <4> QED
          BY <1>2, <3>1, <4>1, Separate
      <3>2. c \in Cells
        BY <1>2, OwnCells DEF Alive
      <3>3. mem'[c] = CHOOSE f \in Planneds(S) : c \in CellsOf(f)
        BY <2>1, <3>2 DEF Writes
      <3> QED
        BY <2>1, <3>1, <3>2, <3>3
    <2>2. CASE ~\E f \in Planneds(S) : c \in CellsOf(f)
      <3>1. e \notin S
        BY <1>2, <2>2 DEF Planneds, Alive
      <3>2. c \in Cells /\ mem[c] = e
        BY <1>2, <3>1 DEF Full
      <3> QED
        BY <2>2, <3>2 DEF Writes
    <2> QED
      BY <2>1, <2>2
  <1> QED
    BY <1>1, <1>2 DEF Full

LEMMA MemStep ==
    ASSUME PlannerInv, Top, InferenceTypeOK, GraphInv, SlotInv, PtrInv, MemInv, [Next]_vars
    PROVE  MemInv'
  <1>1. /\ graph \in Graphs /\ N \in Nat /\ Operators(graph) = 0..N - 1 /\ WellFormed(graph)
        /\ Tensors(graph) \subseteq Entries(graph)
    BY GraphType DEF InferenceTypeOK
  <1>2. CASE FillInput
    <2>1. /\ Committed /\ Writes(graph.inputs) /\ phase' = "invoke" /\ op' = 0 /\ Ready
          /\ UNCHANGED <<graph, first, last, needs, ptr>>
      BY <1>2 DEF FillInput, Committed, Ready
    <2>2. graph.inputs \subseteq Entries(graph) /\ \A f \in graph.inputs : Alive(f, 0)
      BY <1>1, <2>1 DEF WellFormed, GraphInv
    <2>3. ASSUME NEW e \in Entries(graph), Written(e)'
          PROVE  Full(e)'
      <3>1. e \in graph.inputs
        BY <2>1, <2>3 DEF Written
      <3> QED
        BY <2>1, <2>2, <3>1, WriteKeeps
    <2> QED
      BY <2>1, <2>3 DEF MemInv
  <1>3. CASE InvokeOperator
    <2> DEFINE S == Op(graph, op).out \cup ScratchOf(op)
    <2>1. /\ Committed /\ Writes(S) /\ phase = "invoke" /\ op' = op + 1 /\ Ready
          /\ op \in Operators(graph) /\ op \in Nat
          /\ UNCHANGED <<graph, first, last, needs, ptr>>
      BY <1>1, <1>3 DEF InvokeOperator, Committed, Ready
    <2>2. S \subseteq Entries(graph) /\ \A f \in S : Alive(f, op)
      BY <1>1, <2>1 DEF WellFormed, GraphInv, ScratchOf
    <2>3. ASSUME NEW e \in Entries(graph), needs[e], Written(e)', op <= last[e]
          PROVE  Full(e)'
      <3>1. CASE e \in S
        BY <2>1, <2>2, <3>1, WriteKeeps
      <3>2. CASE e \notin S
        <4>1. Written(e) /\ first[e] <= op
          <5>1. CASE e \in graph.inputs
            <6>1. first[e] <= 0 /\ first[e] \in Int
              BY <2>1, <5>1, RequirementOf DEF GraphInv, Alive
            <6> QED
              BY <2>1, <5>1, <6>1 DEF Written
          <5>2. CASE e \notin graph.inputs
            <6>1. PICK j \in 0..op : j \in Operators(graph) /\ e \in Op(graph, j).out \cup ScratchOf(j)
              BY <2>1, <2>3, <5>2 DEF Written, ScratchOf
            <6>2. j # op /\ first[e] <= j /\ first[e] \in Int
              BY <2>1, <3>2, <6>1, RequirementOf DEF GraphInv, Alive
            <6> QED
              BY <2>1, <6>1, <6>2 DEF Written
          <5> QED
            BY <5>1, <5>2
        <4>2. last[e] \in Int
          BY RequirementOf
        <4>3. Full(e)
          BY <2>1, <2>3, <4>1, <4>2 DEF MemInv
        <4> QED
          BY <2>1, <2>2, <2>3, <4>1, <4>3, WriteKeeps DEF Alive
      <3> QED
        BY <3>1, <3>2
    <2>4. phase' # "done"
      BY <1>3 DEF InvokeOperator
    <2> QED
      BY <2>1, <2>3, <2>4 DEF MemInv
  <1>4. CASE InvokeDone
    BY <1>1, <1>4 DEF InvokeDone, MemInv, Written, ScratchOf, Full, CellsOf, N, InferenceTypeOK
  <1>5. CASE UNCHANGED vars \/ MakePlan
    BY <1>5 DEF MakePlan, vars, inferenceVars, MemInv, Written, ScratchOf, Full, CellsOf, N
  <1>6. CASE \/ LifetimesOfOperator \/ CheckLifetimes \/ CreatePlan \/ CheckSize \/ CommitPlan
             \/ AllocateVariables
    BY <1>6 DEF LifetimesOfOperator, CheckLifetimes, CreatePlan, CheckSize, CommitPlan,
                AllocateVariables, MemInv
  <1> QED
    BY <1>2, <1>3, <1>4, <1>5, <1>6 DEF Next

-----------------------------------------------------------------------------
(* Types *)

LEMMA WriteType ==
    ASSUME InferenceTypeOK, NEW S \in SUBSET Entries(graph), Writes(S)
    PROVE  mem' \in [Cells -> {0} \cup Entries(graph)]
  <1>1. ASSUME NEW c \in Cells, \E e \in Planneds(S) : c \in CellsOf(e)
        PROVE  (CHOOSE e \in Planneds(S) : c \in CellsOf(e)) \in Entries(graph)
    BY <1>1 DEF Planneds
  <1>2. \A c \in Cells : mem[c] \in {0} \cup Entries(graph)
    BY DEF InferenceTypeOK
  <1> QED
    BY <1>1, <1>2 DEF Writes

LEMMA TypeStep ==
    ASSUME PlannerInv, Top, InferenceTypeOK, LifeInv, GraphInv, SlotInv, PtrInv, PlannerInv',
           [Next]_vars
    PROVE  InferenceTypeOK'
  <1>1. /\ graph \in Graphs /\ N \in Nat /\ Total \in Nat /\ WellFormed(graph)
        /\ Entries(graph) = 1..Total /\ Operators(graph) = 0..N - 1 /\ Tensors(graph) \subseteq Entries(graph)
        /\ Count \in Nat /\ Count' \in Nat /\ entry \in Nat /\ entry > 0
    BY GraphType, CountNat, LenProperties DEF InferenceTypeOK, PlannerInv, Base, TypeOK, Count
  <1>2. CASE LifetimesOfOperator
    <2>1. op \in Lifetime /\ op' \in -1..N /\ Count' = Count /\ graph' = graph
      BY <1>1, <1>2 DEF LifetimesOfOperator, InferenceTypeOK, Lifetime, N, plannerVars, Count
    <2>2. first' \in [Entries(graph) -> Lifetime] /\ last' \in [Entries(graph) -> Lifetime]
      BY <1>2, <2>1 DEF LifetimesOfOperator, InferenceTypeOK
    <2> QED
      BY <1>2, <2>1, <2>2 DEF LifetimesOfOperator, InferenceTypeOK, Lifetime, N
  <1>3. CASE CheckLifetimes
    <2>1. /\ Count' = Count /\ graph' = graph /\ phase' \in Phases
          /\ UNCHANGED <<op, entry, index, ptr, mem, slot>>
      BY <1>3 DEF CheckLifetimes, plannerVars, Count, Phases
    <2>2. \A e \in Entries(graph) : e \notin Tensors(graph) => graph.scratch[e - graph.tensors] \in Lifetime
      <3>1. ASSUME NEW e \in Entries(graph), e \notin Tensors(graph)
            PROVE  e - graph.tensors \in 1..Len(graph.scratch)
        BY <1>1, <3>1, GraphType DEF Total, Tensors
      <3>2. \A q \in 1..Len(graph.scratch) : graph.scratch[q] \in Operators(graph)
        BY <1>1 DEF WellFormed
      <3>3. Operators(graph) \subseteq Lifetime
        BY <1>1 DEF Lifetime, N
      <3> QED
        BY <3>1, <3>2, <3>3
    <2>3. first' \in [Entries(graph) -> Lifetime] /\ last' \in [Entries(graph) -> Lifetime]
      BY <1>3, <2>2 DEF CheckLifetimes, InferenceTypeOK
    <2>4. needs' \in [Entries(graph) -> BOOLEAN]
      BY <1>3 DEF CheckLifetimes, InferenceTypeOK
    <2> QED
      BY <2>1, <2>3, <2>4 DEF InferenceTypeOK, Lifetime
  <1>4. CASE CreatePlan
    <2>1. /\ entry \in Entries(graph) /\ phase' \in Phases /\ entry' = entry + 1 /\ phase = "create"
          /\ UNCHANGED <<graph, op, first, last, needs, index, ptr, mem>>
          /\ slot' = [slot EXCEPT ![entry] = Count'] /\ index = 0
      BY <1>4 DEF CreatePlan, Count, Phases, SlotInv
    <2>2. Count <= Count'
      <3>1. CASE \E r \in Requirements : AddBuffer(r)
        BY <1>1, <3>1, Appended DEF PlannerInv, Base
      <3>2. CASE UNCHANGED plannerVars
        BY <1>1, <3>2 DEF plannerVars, Count
      <3> QED
        BY <1>4, <2>1, <3>1, <3>2, RequirementOf DEF CreatePlan
    <2>3. slot' \in [Entries(graph) -> -1..Count']
      BY <1>1, <2>1, <2>2 DEF InferenceTypeOK
    <2>4. entry' \in Nat \ {0} /\ index' \in 0..Count'
      BY <1>1, <2>1
    <2> QED
      BY <2>1, <2>3, <2>4 DEF InferenceTypeOK, Lifetime
  <1>5. CASE MakePlan \/ UNCHANGED vars
    <2>1. Count' = Count
      BY <1>5, PlanKeeps DEF MakePlan, vars, plannerVars, Count
    <2> QED
      BY <1>5, <2>1 DEF MakePlan, vars, inferenceVars, InferenceTypeOK, Lifetime
  <1>6. CASE CheckSize \/ AllocateVariables \/ InvokeDone
    <2>1. Count' = Count /\ phase' \in Phases
      BY <1>6 DEF CheckSize, AllocateVariables, InvokeDone, plannerVars, Count, Phases
    <2> QED
      BY <1>6, <2>1 DEF CheckSize, AllocateVariables, InvokeDone, InferenceTypeOK, Lifetime
  <1>7. CASE CommitPlan
    <2>1. /\ Count' = Count /\ entry \in Entries(graph) /\ phase = "commit"
          /\ UNCHANGED <<graph, phase, op, first, last, needs, mem, slot>> /\ entry' = entry + 1
      BY <1>7 DEF CommitPlan, plannerVars, Count
    <2>2. CASE needs[entry]
      <3>1. ptr' = [ptr EXCEPT ![entry] = offset[index + 1]] /\ index' = index + 1
        BY <1>7, <2>2 DEF CommitPlan, GetOffsetForBuffer
      <3>2. index + 1 = slot[entry] /\ slot[entry] \in 1..Count /\ index \in Nat
        <4>1. /\ slot[entry] = Before(entry) + (IF needs[entry] THEN 1 ELSE 0)
              /\ Before(entry) = index /\ slot[entry] \in 1..Count
          BY <2>1, <2>2 DEF SlotInv, Ready, Handed
        <4>2. index \in Nat
          BY <1>1 DEF InferenceTypeOK
        <4> QED
          BY <2>2, <4>1, <4>2
      <3>3. Planned /\ MaximumMemorySize <= Available
        BY <1>1, <2>1, <3>2 DEF PtrInv
      <3>4. PICK p \in 1..Len(placed) : placed[p] = index + 1
        BY <3>2, <3>3, PlacedAt
      <3>5. offset[index + 1] \in 0..Available
        <4>1. /\ offset[index + 1] \in Nat /\ req[index + 1].size \in Nat
              /\ End(index + 1) = offset[index + 1] + req[index + 1].size
              /\ End(index + 1) <= MaximumMemorySize /\ MaximumMemorySize \in Nat
          BY <3>4, EntryType, SizeCovers DEF PlannerInv
        <4> QED
          BY <3>3, <4>1, InferenceAssumption
      <3>6. ptr' \in [Entries(graph) -> -1..Available]
        BY <2>1, <3>1, <3>5, InferenceAssumption DEF InferenceTypeOK
      <3>7. index' \in 0..Count /\ entry' \in Nat \ {0}
        BY <1>1, <2>1, <3>1, <3>2
      <3> QED
        BY <2>1, <3>6, <3>7 DEF InferenceTypeOK, Lifetime
    <2>3. CASE ~needs[entry]
      <3>1. ptr' = ptr /\ index' = index /\ entry' \in Nat \ {0}
        BY <1>1, <1>7, <2>1, <2>3 DEF CommitPlan
      <3> QED
        BY <2>1, <3>1 DEF InferenceTypeOK, Lifetime
    <2> QED
      BY <2>2, <2>3
  <1>8. CASE FillInput
    <2>1. mem' \in [Cells -> {0} \cup Entries(graph)]
      BY <1>1, <1>8, WriteType DEF FillInput, WellFormed
    <2> QED
      BY <1>1, <1>8, <2>1 DEF FillInput, InferenceTypeOK, Lifetime, Phases, plannerVars, Count, N
  <1>9. CASE InvokeOperator
    <2>1. mem' \in [Cells -> {0} \cup Entries(graph)]
      BY <1>1, <1>9, WriteType DEF InvokeOperator, WellFormed, ScratchOf
    <2>2. op' \in -1..N
      BY <1>1, <1>9 DEF InvokeOperator
    <2> QED
      BY <1>9, <2>1, <2>2 DEF InvokeOperator, InferenceTypeOK, Lifetime, Phases, plannerVars, Count, N
  <1> QED
    BY <1>2, <1>3, <1>4, <1>5, <1>6, <1>7, <1>8, <1>9 DEF Next

-----------------------------------------------------------------------------
(* The theorems *)

LEMMA InferenceInit == Init => Inv
  <1> SUFFICES ASSUME Init PROVE Inv
    OBVIOUS
  <1>1. /\ graph \in Graphs /\ N \in Nat /\ Total \in Nat /\ WellFormed(graph)
        /\ Entries(graph) = 1..Total /\ Operators(graph) = 0..N - 1 /\ Tensors(graph) \subseteq Entries(graph)
    BY GraphType DEF Init
  <1>2. PlannerInv /\ Top /\ Count = 0
    BY InitInv, TopInit, EmptySeq DEF Init, PlannerInit, Count
  <1>3. InferenceTypeOK
    BY <1>1, <1>2, InferenceAssumption DEF Init, InferenceTypeOK, Lifetime, Phases, Nowhere, N
  <1>4. LifeInv
    BY <1>1 DEF Init, LifeInv, N, WellFormed
  <1>5. GraphInv /\ PtrInv /\ MemInv /\ SlotInv
    BY <1>2 DEF Init, GraphInv, PtrInv, MemInv, SlotInv, Ready
  <1> QED
    BY <1>2, <1>3, <1>4, <1>5 DEF Inv

LEMMA InferenceStep == Inv /\ [Next]_vars => Inv'
  <1> SUFFICES ASSUME Inv, [Next]_vars PROVE Inv'
    OBVIOUS
  <1>1. [PlannerNext]_plannerVars
    BY PlannerStep DEF Inv
  <1>2. PlannerInv' /\ Top'
    BY <1>1, StepInv, TopStep DEF Inv
  <1> QED
    BY <1>2, TypeStep, LifeStep, GraphStep, SlotStep, PtrStep, MemStep DEF Inv

LEMMA InferenceInvariance == Spec => []Inv
  BY InferenceInit, InferenceStep, PTL DEF Spec

\* The variables keep their types: in particular every pointer lies in the arena.
THEOREM InferenceTypeCorrect == Spec => []InferenceTypeOK
  <1>1. Inv => InferenceTypeOK
    BY DEF Inv
  <1> QED
    BY <1>1, InferenceInvariance, PTL

LEMMA HoldsFull ==
    ASSUME Inv, phase \in {"invoke", "done"}, NEW e \in Entries(graph),
           e \in graph.kept \/ (needs[e] /\ Written(e) /\ op - 1 <= last[e])
    PROVE  Holds(e)
  BY DEF Inv, MemInv, Full, Holds

\* Whatever the model's operators, sizes, alignment and arena: every kernel that
\* runs finds in its inputs what their maker or the caller wrote.
THEOREM OperandsAreIntact == Spec => []OperandsIntact
  <1>1. ASSUME Inv PROVE OperandsIntact
    <2> SUFFICES ASSUME phase = "invoke", op \in Operators(graph), NEW t \in Op(graph, op).in
                 PROVE  Holds(t)
      BY DEF OperandsIntact
    <2>1. /\ graph \in Graphs /\ Operators(graph) = 0..N - 1 /\ N \in Nat /\ WellFormed(graph)
          /\ Tensors(graph) \subseteq Entries(graph)
      BY <1>1, GraphType DEF Inv, InferenceTypeOK
    <2>2. t \in Entries(graph)
      BY <2>1 DEF WellFormed
    <2>3. CASE t \notin graph.kept
      <3>1. needs[t] /\ last[t] >= op /\ last[t] \in Int /\ op \in Nat
        <4>1. needs[t] /\ last[t] >= op
          BY <1>1, <2>3 DEF Inv, GraphInv, Ready
        <4>2. last[t] \in Int
          BY <1>1, <2>2, RequirementOf DEF Inv
        <4> QED
          BY <2>1, <4>1, <4>2
      <3>2. Written(t)
        <4>1. CASE t \in graph.inputs
          BY <4>1 DEF Written
        <4>2. CASE \E i \in Operators(graph) : t \in Op(graph, i).out
          <5>1. PICK i \in Operators(graph) : t \in Op(graph, i).out
            BY <4>2
          <5>2. i < op
            BY <2>1, <5>1 DEF WellFormed
          <5> QED
            BY <2>1, <3>1, <5>1, <5>2 DEF Written
        <4> QED
          BY <2>1, <2>3, <4>1, <4>2, Source
      <3> QED
        BY <1>1, <2>2, <3>1, <3>2, HoldsFull
    <2> QED
      BY <2>3 DEF Holds
  <1> QED
    BY <1>1, InferenceInvariance, PTL

\* After a kernel has run, its inputs, outputs and scratch buffers all hold what
\* was put there: none of them lay on another.
THEOREM WorkingSetsApart == Spec => []WorkingSetApart
  <1>1. ASSUME Inv PROVE WorkingSetApart
    <2> DEFINE j == op - 1
    <2> SUFFICES ASSUME phase = "invoke", j \in Operators(graph),
                        NEW e \in Op(graph, j).in \cup Op(graph, j).out \cup ScratchOf(j)
                 PROVE  Holds(e)
      BY DEF WorkingSetApart
    <2>1. /\ graph \in Graphs /\ Operators(graph) = 0..N - 1 /\ N \in Nat /\ WellFormed(graph)
          /\ Tensors(graph) \subseteq Entries(graph) /\ j \in Nat /\ op \in Int /\ j \in 0..op - 1
      BY <1>1, GraphType DEF Inv, InferenceTypeOK
    <2>2. e \in Entries(graph)
      BY <2>1 DEF WellFormed, ScratchOf
    <2>3. CASE e \in Op(graph, j).out \cup ScratchOf(j)
      <3>1. needs[e] /\ op - 1 <= last[e]
        BY <1>1, <2>1, <2>3 DEF Inv, GraphInv, Alive, Ready
      <3>2. Written(e)
        BY <2>1, <2>3 DEF Written
      <3> QED
        BY <1>1, <2>2, <3>1, <3>2, HoldsFull
    <2>4. CASE e \in Op(graph, j).in \ graph.kept
      <3>1. needs[e] /\ last[e] >= j /\ last[e] \in Int
        BY <1>1, <2>1, <2>2, <2>4, RequirementOf DEF Inv, GraphInv, Ready
      <3>2. Written(e)
        <4>1. CASE e \in graph.inputs
          BY <4>1 DEF Written
        <4>2. CASE \E i \in Operators(graph) : e \in Op(graph, i).out
          <5>1. PICK i \in Operators(graph) : e \in Op(graph, i).out
            BY <4>2
          <5>2. i < j
            BY <2>1, <2>4, <5>1 DEF WellFormed
          <5> QED
            BY <2>1, <5>1, <5>2 DEF Written
        <4> QED
          BY <2>1, <2>4, <4>1, <4>2, Source
      <3> QED
        BY <1>1, <2>1, <2>2, <3>1, <3>2, HoldsFull
    <2> QED
      BY <2>3, <2>4 DEF Holds
  <1> QED
    BY <1>1, InferenceInvariance, PTL

\* The outputs outlive every later operator: the caller reads what was computed.
THEOREM ResultsAreIntact == Spec => []ResultsIntact
  <1>1. ASSUME Inv PROVE ResultsIntact
    <2> SUFFICES ASSUME phase = "done", NEW t \in graph.outputs
                 PROVE  Holds(t)
      BY DEF ResultsIntact
    <2>1. /\ graph \in Graphs /\ Operators(graph) = 0..N - 1 /\ N \in Nat /\ WellFormed(graph)
          /\ Tensors(graph) \subseteq Entries(graph) /\ op = N /\ t \in Entries(graph)
      BY <1>1, GraphType DEF Inv, InferenceTypeOK, MemInv, WellFormed
    <2>2. CASE t \notin graph.kept
      <3>1. needs[t] /\ last[t] >= N - 1 /\ last[t] \in Int
        BY <1>1, <2>1, <2>2, RequirementOf DEF Inv, GraphInv, Ready
      <3>2. Written(t)
        BY <2>1, <2>2, Source DEF Written
      <3> QED
        BY <1>1, <2>1, <3>1, <3>2, HoldsFull
    <2> QED
      BY <2>2 DEF Holds
  <1> QED
    BY <1>1, InferenceInvariance, PTL

-----------------------------------------------------------------------------
(* Every inference comes to its end *)

\* How many steps are left besides the planner's: the operators are walked backwards, the
\* entries twice, and the operators run.
StepsLeft ==
    CASE phase = "lifetimes" -> N + 2 * Total + 5 + op + 1
      [] phase = "create" -> N + 4 + Total + (Total + 1 - entry)
      [] phase = "commit" -> N + 3 + (Total + 1 - entry)
      [] phase = "input" -> N + 2
      [] phase = "invoke" -> N + 1 - op
      [] phase \in {"done", "failed"} -> 0

GetsCloser ==
    \/ StepsLeft' < StepsLeft
    \/ StepsLeft' = StepsLeft /\ Smaller(PlanRank', PlanRank)

LEMMA StepsLeftType ==
    ASSUME Inv
    PROVE  StepsLeft \in Nat
  <1>1. /\ N \in Nat /\ Total \in Nat /\ phase \in Phases
        /\ op \in -1..N /\ entry \in Nat \ {0}
        /\ phase \in {"create", "commit"} => entry <= Total + 1
    BY GraphType DEF Inv, InferenceTypeOK, SlotInv, N
  <1> QED BY <1>1 DEF StepsLeft, Phases

LEMMA StepGetsCloser ==
    ASSUME Inv, PassInv, Next
    PROVE  GetsCloser
  <1>1. /\ N \in Nat /\ Total \in Nat /\ phase \in Phases
        /\ op \in -1..N /\ entry \in Nat \ {0}
        /\ phase \in {"create", "commit"} => entry <= Total + 1
        /\ phase = "lifetimes" => entry = 1
        /\ Entries(graph) = 1..Total /\ Operators(graph) = 0..N - 1
    BY GraphType DEF Inv, InferenceTypeOK, SlotInv, N
  <1>2. graph' = graph /\ N' = N /\ Total' = Total
    BY DEF Next, inferenceVars, LifetimesOfOperator, CheckLifetimes, CreatePlan, MakePlan, CheckSize,
           CommitPlan, AllocateVariables, FillInput, InvokeOperator, InvokeDone, N, Total
  <1>3. CASE LifetimesOfOperator
    BY <1>1, <1>2, <1>3 DEF LifetimesOfOperator, StepsLeft, GetsCloser
  <1>4. CASE CheckLifetimes
    BY <1>1, <1>2, <1>4 DEF CheckLifetimes, StepsLeft, GetsCloser
  <1>5. CASE CreatePlan
    BY <1>1, <1>2, <1>5 DEF CreatePlan, StepsLeft, GetsCloser
  <1>6. CASE MakePlan
    <2>1. Plan /\ phase' = phase /\ entry' = entry /\ op' = op
      BY <1>6 DEF MakePlan, inferenceVars
    <2>2. Smaller(PlanRank', PlanRank)
      BY <2>1, PlanStepRank DEF Inv
    <2>3. StepsLeft' = StepsLeft
      BY <1>2, <2>1 DEF StepsLeft
    <2> QED BY <2>2, <2>3 DEF GetsCloser
  <1>7. CASE CheckSize
    BY <1>1, <1>2, <1>7 DEF CheckSize, StepsLeft, GetsCloser
  <1>8. CASE CommitPlan
    BY <1>1, <1>2, <1>8 DEF CommitPlan, StepsLeft, GetsCloser
  <1>9. CASE AllocateVariables
    BY <1>1, <1>2, <1>9 DEF AllocateVariables, StepsLeft, GetsCloser
  <1>10. CASE FillInput
    BY <1>1, <1>2, <1>10 DEF FillInput, StepsLeft, GetsCloser
  <1>11. CASE InvokeOperator
    BY <1>1, <1>2, <1>11 DEF InvokeOperator, StepsLeft, GetsCloser
  <1>12. CASE InvokeDone
    BY <1>1, <1>2, <1>12 DEF InvokeDone, StepsLeft, GetsCloser
  <1> QED BY <1>3, <1>4, <1>5, <1>6, <1>7, <1>8, <1>9, <1>10, <1>11, <1>12 DEF Next

\* Whatever the model: each step of an inference brings it closer to its results or its
\* error, and the planner's part of the rank does not fall for ever.  So no inference goes
\* on without end.
THEOREM InferencesGetCloser ==
    Spec => /\ [](StepsLeft \in Nat /\ PlanRank \in Ranks)
            /\ [][GetsCloser]_vars
  <1>1. Init => PassInv
    BY DEF Init, PlannerInit, PassInv
  <1>2. Inv /\ PassInv /\ [Next]_vars => PassInv'
    BY PlannerStep, PassStep DEF Inv
  <1>3. Spec => []PassInv
    BY <1>1, <1>2, InferenceInvariance, PTL DEF Spec
  <1>4. Inv /\ PassInv => StepsLeft \in Nat /\ PlanRank \in Ranks
    BY StepsLeftType, PlanRankType DEF Inv
  <1>5. Inv /\ PassInv /\ [Next]_vars => [GetsCloser]_vars
    BY StepGetsCloser
  <1> QED BY <1>3, <1>4, <1>5, InferenceInvariance, PTL DEF Spec
=============================================================================
