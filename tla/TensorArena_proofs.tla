-------------------------- MODULE TensorArena_proofs --------------------------
(***************************************************************************)
(* What lies in the tensor arena stays apart, for every arena, alignment   *)
(* and sequence of requests and failures; and a scratch buffer's number    *)
(* leads to its handle.                                                    *)
(***************************************************************************)
EXTENDS TensorArena, TLAPS

Within(R, lo, hi) == \A r \in R : lo <= r.lo /\ r.lo <= r.hi /\ r.hi <= hi
Apart(R) == \A r, s \in R : r # s => Disjoint(r, s)

\* The regions at the tail, those at the head, and what is borrowed between them.
LayoutInv ==
    /\ Bottom <= head /\ head <= tail /\ tail <= Top
    /\ Within(persistent, tail, Top) /\ Within(activations, Bottom, head)
    /\ Within(temporaries, head, tail)
    /\ Apart(persistent) /\ Apart(activations) /\ Apart(temporaries)
    /\ temporaries # {} => phase = "finish"
    /\ phase = "prepare" => temporaries = {}

\* The handles lie one below the other, each at a multiple of HandleAlign.
HandleInv ==
    /\ handles = <<>> => newest = 0
    /\ handles # <<>> => newest > 0
    /\ \E k \in Nat : newest = k * HandleAlign
    /\ \A i \in 1..Len(handles) : handles[i] = newest + (Len(handles) - i) * HandleSize

Inv == ArenaTypeOK /\ LayoutInv /\ HandleInv

-----------------------------------------------------------------------------
(* Alignment *)

\* An address aligned down is a multiple of the alignment and not above the address.
LEMMA AlignDown ==
    ASSUME NEW p \in Nat, NEW a \in Nat \ {0}
    PROVE  /\ AlignPointerDown(p, a) \in Nat
           /\ AlignPointerDown(p, a) <= p
           /\ \E k \in Nat : AlignPointerDown(p, a) = k * a
  <1> DEFINE q == p \div a
  <1>1. q \in Nat /\ a * q <= p
    OBVIOUS
  <1>2. q * a = a * q /\ q * a \in Nat
    BY <1>1
  <1> HIDE DEF q
  <1>3. AlignPointerDown(p, a) = q * a
    BY DEF AlignPointerDown, q
  <1> QED
    BY <1>1, <1>2, <1>3

\* An address aligned up is not below the address.
LEMMA AlignUp ==
    ASSUME NEW p \in Nat, NEW a \in Nat \ {0}
    PROVE  AlignPointerUp(p, a) \in Nat /\ AlignPointerUp(p, a) >= p
  <1> DEFINE q == (p + (a - 1)) \div a
  <1>1. q \in Nat /\ p + (a - 1) < a * (q + 1)
    OBVIOUS
  <1>2. a * (q + 1) = q * a + a /\ q * a \in Nat
    BY <1>1
  <1> HIDE DEF q
  <1>3. AlignPointerUp(p, a) = q * a
    BY DEF AlignPointerUp, q
  <1> QED
    BY <1>1, <1>2, <1>3

\* What is aligned already stays where it is.
LEMMA AlignExact ==
    ASSUME NEW x \in Nat, NEW a \in Nat \ {0}
    PROVE  AlignPointerDown(x * a, a) = x * a
  <1> DEFINE q == (x * a) \div a
  <1>1. x * a \in Nat
    OBVIOUS
  <1>2. q \in Nat /\ a * q <= x * a /\ x * a < a * (q + 1)
    BY <1>1
  <1> HIDE DEF q
  <1>3. ~ (q + 1 <= x)
    <2>1. SUFFICES ASSUME q + 1 <= x PROVE FALSE
      OBVIOUS
    <2>2. a * (q + 1) <= x * a
      BY <1>2, <2>1
    <2>3. a * (q + 1) \in Nat
      BY <1>2
    <2> QED
      BY <1>1, <1>2, <2>2, <2>3
  <1>4. ~ (x + 1 <= q)
    <2>1. SUFFICES ASSUME x + 1 <= q PROVE FALSE
      OBVIOUS
    <2>2. a * (x + 1) <= a * q
      BY <1>2, <2>1
    <2>3. a * (x + 1) = x * a + a /\ a * q \in Nat
      BY <1>2
    <2> QED
      BY <1>1, <1>2, <2>2, <2>3
  <1>5. q = x
    BY <1>2, <1>3, <1>4
  <1> QED
    BY <1>5 DEF AlignPointerDown, q

\* The arena's bounds.
LEMMA Bounds ==
    /\ Base \in Nat /\ Top \in Nat /\ Bottom \in Nat /\ Base <= Bottom
    /\ kBufferAlignment \in Nat \ {0} /\ HandleAlign \in Nat \ {0}
    /\ HandleSize \in Nat /\ 1 <= HandleSize /\ HandleSize <= Base
    /\ AllocatorSize \in Nat
  <1>1. Base \in Nat /\ Size \in Nat /\ kBufferAlignment \in Nat \ {0}
    BY ArenaAssumption
  <1> QED
    BY <1>1, AlignUp, ArenaAssumption DEF Bottom, Top

\* A successful allocation lies between head and tail, and takes nothing else.
LEMMA FromTailFits ==
    ASSUME Inv, NEW size \in 0..Base, NEW alignment \in Nat \ {0}, TailHolds(size, alignment)
    PROVE  /\ FromTail(size, alignment) \in Nat
           /\ head <= FromTail(size, alignment) /\ FromTail(size, alignment) + size <= tail
           /\ \E k \in Nat : FromTail(size, alignment) = k * alignment
  <1>1. tail \in Nat /\ head \in Nat /\ size \in Nat /\ size <= tail
    BY Bounds DEF Inv, ArenaTypeOK, LayoutInv
  <1> DEFINE p == tail - size
             f == AlignPointerDown(p, alignment)
  <1>2. p \in Nat
    BY <1>1
  <1> HIDE DEF p
  <1>3. f \in Nat /\ f <= p /\ \E k \in Nat : f = k * alignment
    BY <1>2, AlignDown
  <1> HIDE DEF f
  <1>4. FromTail(size, alignment) = f
    BY DEF FromTail, f, p
  <1>5. head <= f
    BY <1>1, <1>3, <1>4 DEF TailHolds
  <1>6. f + size <= tail
    BY <1>1, <1>3 DEF p
  <1> QED
    BY <1>3, <1>4, <1>5, <1>6

\* The new region joins those above it.
LEMMA TailStep ==
    ASSUME Inv, NEW size \in 0..Base, NEW alignment \in Nat \ {0},
           AllocateFromTail(size, alignment), UNCHANGED <<head, activations, temporaries>>,
           temporaries = {}
    PROVE  /\ head' \in Nat /\ tail' \in Nat /\ persistent' \subseteq Regions
           /\ Bottom <= head' /\ head' <= tail' /\ tail' <= Top
           /\ Within(persistent', tail', Top) /\ Within(activations', Bottom, head')
           /\ Within(temporaries', head', tail')
           /\ Apart(persistent') /\ Apart(activations') /\ Apart(temporaries')
           /\ \E k \in Nat : tail' = k * alignment
           /\ tail' + size <= tail
  <1> DEFINE new == [lo |-> tail', hi |-> tail' + size]
  <1>1. /\ tail' = FromTail(size, alignment) /\ TailHolds(size, alignment)
        /\ persistent' = persistent \cup {new}
    BY DEF AllocateFromTail
  <1>2. /\ tail' \in Nat /\ head <= tail' /\ tail' + size <= tail
        /\ \E k \in Nat : tail' = k * alignment
    BY <1>1, FromTailFits
  <1>3. /\ head \in Nat /\ tail \in Nat /\ size \in Nat /\ Top \in Nat /\ Bottom \in Nat
        /\ Bottom <= head /\ head <= tail /\ tail <= Top
        /\ persistent \subseteq Regions
    BY Bounds DEF Inv, ArenaTypeOK, LayoutInv
  <1>4. new \in Regions /\ new.lo = tail' /\ new.hi = tail' + size
    BY <1>2, <1>3 DEF Regions
  <1> HIDE DEF new
  <1>5. \A r \in persistent : /\ r.lo \in Nat /\ r.hi \in Nat
                              /\ tail <= r.lo /\ r.lo <= r.hi /\ r.hi <= Top
    BY <1>3 DEF Inv, LayoutInv, Within, Regions
  <1>6. Within(persistent', tail', Top)
    <2>1. ASSUME NEW r \in persistent' PROVE tail' <= r.lo /\ r.lo <= r.hi /\ r.hi <= Top
      <3>1. CASE r \in persistent
        BY <3>1, <1>5, <1>2, <1>3
      <3>2. CASE r = new
        BY <3>2, <1>4, <1>2, <1>3
      <3> QED
        BY <3>1, <3>2, <1>1
    <2> QED
      BY <2>1 DEF Within
  <1>7. Apart(persistent')
    <2>1. ASSUME NEW r \in persistent', NEW s \in persistent', r # s PROVE Disjoint(r, s)
      <3>1. CASE r \in persistent /\ s \in persistent
        BY <3>1, <2>1 DEF Inv, LayoutInv, Apart
      <3>2. CASE r = new /\ s \in persistent
        BY <3>2, <1>2, <1>3, <1>4, <1>5 DEF Disjoint
      <3>3. CASE r \in persistent /\ s = new
        BY <3>3, <1>2, <1>3, <1>4, <1>5 DEF Disjoint
      <3> QED
        BY <3>1, <3>2, <3>3, <1>1, <2>1
    <2> QED
      BY <2>1 DEF Apart
  <1> QED
    BY <1>1, <1>2, <1>3, <1>4, <1>6, <1>7 DEF Inv, LayoutInv, Within, Apart

-----------------------------------------------------------------------------
(* The invariant *)

LEMMA InitInv == Init => Inv
  <1> SUFFICES ASSUME Init PROVE Inv
    OBVIOUS
  <1> DEFINE own == [lo |-> tail, hi |-> tail + AllocatorSize]
  <1>1. /\ Top \in Nat /\ Bottom \in Nat /\ AllocatorSize \in Nat /\ HandleAlign \in Nat \ {0}
        /\ Bottom <= tail /\ tail = AlignPointerDown(Top - AllocatorSize, HandleAlign)
    BY Bounds, ArenaAssumption DEF Init
  <1>2. Top - AllocatorSize \in Nat
    <2>1. Top - AllocatorSize >= 0
      <3>1. SUFFICES ASSUME Top - AllocatorSize < 0 PROVE FALSE
        BY <1>1
      <3> DEFINE d == Top - AllocatorSize
                 q == d \div HandleAlign
      <3>2. d \in Int /\ d < 0 /\ q \in Int /\ HandleAlign * q <= d
        BY <1>1, <3>1
      <3>3. q * HandleAlign = HandleAlign * q /\ q * HandleAlign \in Int
        BY <1>1, <3>2
      <3>4. tail = q * HandleAlign
        BY <1>1 DEF AlignPointerDown
      <3> HIDE DEF q, d
      <3> QED
        BY <1>1, <3>2, <3>3, <3>4
    <2> QED
      BY <1>1, <2>1
  <1>3. tail \in Nat /\ tail <= Top - AllocatorSize
    BY <1>1, <1>2, AlignDown
  <1>4. own \in Regions /\ own.lo = tail /\ own.hi = tail + AllocatorSize
    BY <1>1, <1>3 DEF Regions
  <1>5. persistent = {own}
    BY DEF Init
  <1> HIDE DEF own
  <1>6. ArenaTypeOK
    <2>1. persistent \subseteq Regions
      BY <1>4, <1>5
    <2>2. head \in Nat /\ tail \in Nat /\ newest \in Nat /\ handles \in Seq(Nat)
      BY <1>1, <1>3 DEF Init
    <2> QED
      BY <2>1, <2>2 DEF Init, ArenaTypeOK, Phases
  <1>7. LayoutInv
    BY <1>1, <1>3, <1>4, <1>5 DEF Init, LayoutInv, Within, Apart
  <1>8. HandleInv
    BY Bounds DEF Init, HandleInv
  <1> QED
    BY <1>6, <1>7, <1>8 DEF Inv

\* The steps that allocate at the tail and leave the handles alone.
LEMMA TailOnly ==
    ASSUME Inv, NEW size \in 0..Base, NEW alignment \in Nat \ {0},
           AllocateFromTail(size, alignment), phase # "finish",
           UNCHANGED <<phase, head, active, activations, temporaries, handles, newest>>
    PROVE  Inv'
  <1>1. temporaries = {}
    BY DEF Inv, LayoutInv
  <1>2. ArenaTypeOK'
    BY <1>1, TailStep DEF Inv, ArenaTypeOK
  <1>3. LayoutInv'
    BY <1>1, TailStep DEF Inv, LayoutInv
  <1>4. HandleInv'
    BY DEF Inv, HandleInv
  <1> QED
    BY <1>2, <1>3, <1>4 DEF Inv

\* A handle next to the newest one keeps the array.
LEMMA HandleStep ==
    ASSUME Inv, RequestScratchBufferInArena
    PROVE  Inv'
  <1> DEFINE a == HandleAlign
             n == Len(handles)
  <1>1. temporaries = {} /\ phase = "prepare" /\ UNCHANGED <<head, activations, temporaries, phase, active>>
    BY DEF Inv, LayoutInv, RequestScratchBufferInArena
  <1>2. HandleSize \in 0..Base /\ a \in Nat \ {0} /\ AllocateFromTail(HandleSize, a)
    BY Bounds DEF RequestScratchBufferInArena
  <1>3. /\ head' \in Nat /\ tail' \in Nat /\ persistent' \subseteq Regions
        /\ Bottom <= head' /\ head' <= tail' /\ tail' <= Top
        /\ Within(persistent', tail', Top) /\ Within(activations', Bottom, head')
        /\ Within(temporaries', head', tail')
        /\ Apart(persistent') /\ Apart(activations') /\ Apart(temporaries')
        /\ \E k \in Nat : tail' = k * a
    BY <1>1, <1>2, TailStep
  <1>4. newest' = tail' /\ handles' = Append(handles, tail') /\ handles \in Seq(Nat) /\ newest \in Nat
    BY DEF RequestScratchBufferInArena, Inv, ArenaTypeOK
  <1>5. ArenaTypeOK'
    BY <1>1, <1>3, <1>4 DEF Inv, ArenaTypeOK
  <1>6. LayoutInv'
    BY <1>1, <1>3 DEF Inv, LayoutInv
  <1>7. tail' > 0
    BY <1>3, Bounds
  <1>8. handles # <<>> => newest = tail /\ tail' = newest - HandleSize
    <2> SUFFICES ASSUME handles # <<>> PROVE newest = tail /\ tail' = newest - HandleSize
      OBVIOUS
    <2>1. newest = tail
      BY DEF RequestScratchBufferInArena, Inv, HandleInv
    <2>2. PICK k \in Nat : newest = k * a
      BY DEF Inv, HandleInv
    <2> DEFINE w == HandleSize \div a
    <2>3. w \in Nat /\ HandleSize = a * w
      BY Bounds, ArenaAssumption
    <2> HIDE DEF w
    <2>4. tail \in Nat /\ tail' \in Nat /\ tail' + HandleSize <= tail
      BY <1>1, <1>2, TailStep DEF Inv, ArenaTypeOK
    <2>5. a * w <= k * a /\ a \in Nat /\ a > 0
      <3>1. HandleSize <= tail
        <4>1. HandleSize \in Nat
          BY Bounds
        <4>2. \A x, y, z \in Nat : x + y <= z => y <= z
          OBVIOUS
        <4>3. tail' \in Nat /\ tail \in Nat /\ tail' + HandleSize <= tail
          BY <2>4
        <4> QED
          BY <4>1, <4>2, <4>3
      <3>2. a \in Nat /\ a > 0
        BY Bounds
      <3> QED
        BY <3>1, <3>2, <2>1, <2>2, <2>3
    <2>6. w <= k
      <3>1. SUFFICES ASSUME k + 1 <= w PROVE FALSE
        BY <2>3, <2>2
      <3>2. a * (k + 1) <= a * w
        BY <3>1, <2>3, <2>2, <2>5
      <3>3. a * (k + 1) = k * a + a /\ k * a \in Nat /\ a * w \in Nat
        BY <2>2, <2>3, <2>5
      <3> QED
        BY <3>2, <3>3, <2>5
    <2>7. k - w \in Nat /\ tail - HandleSize = (k - w) * a
      BY <2>1, <2>2, <2>3, <2>5, <2>6
    <2>8. AlignPointerDown(tail - HandleSize, a) = tail - HandleSize
      BY <2>7, <2>5, AlignExact
    <2> QED
      BY <2>1, <2>8, <1>2 DEF AllocateFromTail, FromTail
  <1>9. HandleInv'
    <2>1. n \in Nat /\ Len(handles') = n + 1
      BY <1>4
    <2>2. handles' # <<>>
      BY <1>4, <2>1
    <2>3. ASSUME NEW i \in 1..Len(handles')
          PROVE  handles'[i] = newest' + (Len(handles') - i) * HandleSize
      <3>1. CASE i = n + 1
        <4>1. handles'[i] = tail'
          BY <3>1, <1>4
        <4>2. (Len(handles') - i) * HandleSize = 0
          BY <3>1, <2>1, Bounds
        <4> QED
          BY <4>1, <4>2, <1>4, <1>3
      <3>2. CASE i \in 1..n
        <4>1. handles'[i] = handles[i] /\ handles # <<>>
          BY <3>2, <1>4, <2>1
        <4>2. handles[i] = newest + (n - i) * HandleSize
          BY <3>2 DEF Inv, HandleInv
        <4>3. newest = newest' + HandleSize
          BY <4>1, <1>8, <1>4, Bounds
        <4> DEFINE d == n - i
        <4>4. d \in Nat /\ Len(handles') - i = d + 1
          BY <3>2, <2>1
        <4> HIDE DEF d
        <4>5. (d + 1) * HandleSize = d * HandleSize + HandleSize /\ d * HandleSize \in Nat
          BY <4>4, Bounds
        <4>6. handles[i] = newest + d * HandleSize
          BY <4>2 DEF d
        <4>7. \A p \in Nat : (p + HandleSize) + d * HandleSize = p + (d * HandleSize + HandleSize)
          BY <4>5, Bounds
        <4>8. newest' \in Nat
          BY <1>3, <1>4
        <4>9. handles'[i] = newest' + (d + 1) * HandleSize
          BY <4>1, <4>3, <4>5, <4>6, <4>7, <4>8
        <4> QED
          BY <4>4, <4>9
      <3>3. i = n + 1 \/ i \in 1..n
        <4>1. i \in 1..(n + 1)
          BY <2>1
        <4> QED
          BY <4>1, <2>1
      <3> QED
        BY <3>1, <3>2, <3>3
    <2> QED
      BY <2>2, <2>3, <1>3, <1>4, <1>7 DEF HandleInv
  <1> QED
    BY <1>5, <1>6, <1>9 DEF Inv

\* The AllocationInfo array and the planner's memory share what is free.
LEMMA BeginPlanStep ==
    ASSUME Inv, BeginPlan
    PROVE  Inv'
  <1>1. UNCHANGED <<head, tail, active, persistent, activations, handles, newest>> /\ phase = "prepare"
    BY DEF BeginPlan
  <1>2. PICK size \in Sizes, alignment \in Alignments :
          IF TailHolds(size, alignment)
          THEN /\ temporaries' = {[lo |-> FromTail(size, alignment), hi |-> FromTail(size, alignment) + size],
                                  [lo |-> head, hi |-> FromTail(size, alignment)]}
               /\ phase' = "finish"
          ELSE phase' = "failed" /\ UNCHANGED temporaries
    BY DEF BeginPlan
  <1>3. HandleInv'
    BY <1>1 DEF Inv, HandleInv
  <1>4. CASE ~ TailHolds(size, alignment)
    <2>1. phase' = "failed" /\ temporaries' = temporaries /\ temporaries = {}
      BY <1>1, <1>2, <1>4 DEF Inv, LayoutInv
    <2> QED
      BY <1>1, <1>3, <2>1 DEF Inv, ArenaTypeOK, LayoutInv, Phases
  <1>5. CASE TailHolds(size, alignment)
    <2> DEFINE info == FromTail(size, alignment)
               array == [lo |-> info, hi |-> info + size]
               scratch == [lo |-> head, hi |-> info]
    <2>1. size \in 0..Base /\ alignment \in Nat \ {0}
      BY ArenaAssumption
    <2>2. info \in Nat /\ head <= info /\ info + size <= tail
      BY <2>1, <1>5, FromTailFits
    <2>3. head \in Nat /\ tail \in Nat /\ size \in Nat /\ head <= tail
      BY <2>1 DEF Inv, ArenaTypeOK, LayoutInv
    <2>4. temporaries' = {array, scratch} /\ phase' = "finish"
      BY <1>2, <1>5
    <2> HIDE DEF info
    <2>5. /\ array \in Regions /\ array.lo = info /\ array.hi = info + size
          /\ scratch \in Regions /\ scratch.lo = head /\ scratch.hi = info
      BY <2>2, <2>3 DEF Regions
    <2> HIDE DEF array, scratch
    <2>6. Within(temporaries', head, tail)
      BY <2>2, <2>3, <2>4, <2>5 DEF Within
    <2>7. Apart(temporaries')
      <3>1. Disjoint(array, scratch) /\ Disjoint(scratch, array)
        BY <2>2, <2>3, <2>5 DEF Disjoint
      <3> QED
        BY <3>1, <2>4 DEF Apart
    <2>8. ArenaTypeOK'
      BY <1>1, <2>4, <2>5 DEF Inv, ArenaTypeOK, Phases
    <2>9. LayoutInv'
      BY <1>1, <2>4, <2>6, <2>7 DEF Inv, LayoutInv
    <2> QED
      BY <1>3, <2>8, <2>9 DEF Inv
  <1> QED
    BY <1>4, <1>5

\* Activations follow each other at the head.
LEMMA CommitStep ==
    ASSUME Inv, CommitPlan
    PROVE  Inv'
  <1>1. UNCHANGED <<tail, active, persistent, handles, newest>> /\ temporaries' = {}
    BY DEF CommitPlan
  <1>2. HandleInv'
    BY <1>1 DEF Inv, HandleInv
  <1>3. CASE phase' = "failed" /\ UNCHANGED <<head, activations>>
    BY <1>1, <1>2, <1>3 DEF Inv, ArenaTypeOK, LayoutInv, Phases, Within, Apart
  <1>4. CASE phase' = "variables" /\ \E size \in Sizes : AllocateFromHead(size)
    <2>1. PICK size \in Sizes : AllocateFromHead(size)
      BY <1>4
    <2> DEFINE new == [lo |-> head, hi |-> head']
    <2>2. /\ head \in Nat /\ tail \in Nat /\ size \in Nat /\ Bottom \in Nat
          /\ Bottom <= head /\ activations \subseteq Regions
      BY Bounds, ArenaAssumption DEF Inv, ArenaTypeOK, LayoutInv
    <2>3. /\ head' = head + size /\ head' <= tail /\ head' \in Nat
          /\ activations' = activations \cup {new}
      BY <2>1, <2>2 DEF AllocateFromHead, GetAvailableMemory
    <2>4. new \in Regions /\ new.lo = head /\ new.hi = head'
      BY <2>2, <2>3 DEF Regions
    <2> HIDE DEF new
    <2>5. \A r \in activations : /\ r.lo \in Nat /\ r.hi \in Nat
                                 /\ Bottom <= r.lo /\ r.lo <= r.hi /\ r.hi <= head
      BY <2>2 DEF Inv, LayoutInv, Within, Regions
    <2>6. Within(activations', Bottom, head')
      <3>1. ASSUME NEW r \in activations' PROVE Bottom <= r.lo /\ r.lo <= r.hi /\ r.hi <= head'
        <4>1. CASE r \in activations
          BY <4>1, <2>2, <2>3, <2>5
        <4>2. CASE r = new
          BY <4>2, <2>2, <2>3, <2>4
        <4> QED
          BY <4>1, <4>2, <2>3
      <3> QED
        BY <3>1 DEF Within
    <2>7. Apart(activations')
      <3>1. ASSUME NEW r \in activations', NEW s \in activations', r # s PROVE Disjoint(r, s)
        <4>1. CASE r \in activations /\ s \in activations
          BY <4>1, <3>1 DEF Inv, LayoutInv, Apart
        <4>2. CASE r = new /\ s \in activations
          BY <4>2, <2>4, <2>5 DEF Disjoint
        <4>3. CASE r \in activations /\ s = new
          BY <4>3, <2>4, <2>5 DEF Disjoint
        <4> QED
          BY <4>1, <4>2, <4>3, <2>3, <3>1
      <3> QED
        BY <3>1 DEF Apart
    <2>8. ArenaTypeOK'
      BY <1>1, <1>4, <2>2, <2>3, <2>4 DEF Inv, ArenaTypeOK, Phases
    <2>9. Within(temporaries', head', tail') /\ Apart(temporaries')
      BY <1>1 DEF Within, Apart
    <2>10. Bottom <= head'
      BY <2>2, <2>3
    <2>11. LayoutInv'
      BY <1>1, <1>4, <2>3, <2>6, <2>7, <2>9, <2>10 DEF Inv, LayoutInv
    <2> QED
      BY <1>2, <2>8, <2>11 DEF Inv
  <1> QED
    BY <1>3, <1>4 DEF CommitPlan

LEMMA StepInv == Inv /\ [Next]_vars => Inv'
  <1> SUFFICES ASSUME Inv, [Next]_vars PROVE Inv'
    OBVIOUS
  <1>1. ASSUME NEW size \in Sizes PROVE size \in 0..Base
    BY ArenaAssumption
  <1>2. Alignments \subseteq Nat \ {0} /\ kBufferAlignment \in Nat \ {0}
    BY ArenaAssumption
  <1>3. CASE AllocateStructure
    BY <1>1, <1>2, <1>3, TailOnly DEF AllocateStructure
  <1>4. CASE AllocatePersistentBuffer
    BY <1>1, <1>2, <1>4, TailOnly DEF AllocatePersistentBuffer
  <1>5. CASE AllocateVariable
    BY <1>1, <1>2, <1>5, TailOnly DEF AllocateVariable
  <1>6. CASE RequestScratchBufferInArena
    BY <1>6, HandleStep
  <1>7. CASE BeginPlan
    BY <1>7, BeginPlanStep
  <1>8. CASE CommitPlan
    BY <1>8, CommitStep
  <1>9. CASE Constructed
    BY <1>9 DEF Constructed, Inv, ArenaTypeOK, LayoutInv, HandleInv, Phases, Within, Apart
  <1>10. CASE AllocateTensors
    BY <1>10 DEF AllocateTensors, Inv, ArenaTypeOK, LayoutInv, HandleInv, Phases, Within, Apart
  <1>11. CASE NextStage
    BY <1>11 DEF NextStage, Inv, ArenaTypeOK, LayoutInv, HandleInv, Phases, Within, Apart
  <1>12. CASE FinishTensorAllocation
    BY <1>12 DEF FinishTensorAllocation, Inv, ArenaTypeOK, LayoutInv, HandleInv, Phases, Within, Apart
  <1>13. CASE UNCHANGED vars
    BY <1>13 DEF vars, Inv, ArenaTypeOK, LayoutInv, HandleInv, Within, Apart
  <1> QED
    BY <1>3, <1>4, <1>5, <1>6, <1>7, <1>8, <1>9, <1>10, <1>11, <1>12, <1>13 DEF Next

THEOREM Invariance == Spec => []Inv
  BY InitInv, StepInv, PTL DEF Spec

-----------------------------------------------------------------------------
(* What it shows *)

\* The allocator's addresses are numbers, the regions lie in order: nothing
\* wrapped below zero (simple_memory_allocator.cc:54).
THEOREM ArenaTypeCorrect == Spec => []ArenaTypeOK
  <1>1. Inv => ArenaTypeOK
    BY DEF Inv
  <1> QED
    BY <1>1, Invariance, PTL

\* What was handed out at the two ends of the arena never overlaps and never
\* leaves the arena, however often AllocateTensors fails and is tried again.
THEOREM RegionsNeverOverlap == Spec => []RegionsApart
  <1>1. Inv => RegionsApart
    <2> SUFFICES ASSUME Inv PROVE RegionsApart
      OBVIOUS
    <2>1. /\ head \in Nat /\ tail \in Nat /\ Bottom \in Nat /\ Top \in Nat
          /\ Bottom <= head /\ head <= tail /\ tail <= Top
      BY Bounds DEF Inv, ArenaTypeOK, LayoutInv
    <2>2. \A r \in persistent : /\ r.lo \in Nat /\ r.hi \in Nat
                                /\ tail <= r.lo /\ r.lo <= r.hi /\ r.hi <= Top
      BY DEF Inv, ArenaTypeOK, LayoutInv, Within, Regions
    <2>3. \A r \in activations : /\ r.lo \in Nat /\ r.hi \in Nat
                                 /\ Bottom <= r.lo /\ r.lo <= r.hi /\ r.hi <= head
      BY DEF Inv, ArenaTypeOK, LayoutInv, Within, Regions
    <2>4. ASSUME NEW r \in persistent, NEW s \in activations
          PROVE  Disjoint(r, s) /\ Disjoint(s, r)
      BY <2>1, <2>2, <2>3 DEF Disjoint
    <2>5. ASSUME NEW r \in persistent \cup activations, NEW s \in persistent \cup activations, r # s
          PROVE  Disjoint(r, s)
      BY <2>4, <2>5 DEF Inv, LayoutInv, Apart
    <2>6. ASSUME NEW r \in persistent \cup activations
          PROVE  Bottom <= r.lo /\ r.lo <= r.hi /\ r.hi <= Top
      BY <2>1, <2>2, <2>3
    <2> QED
      BY <2>1, <2>5, <2>6 DEF RegionsApart
  <1> QED
    BY <1>1, Invariance, PTL

\* The planning's borrowed memory overlaps nothing that stays.
THEOREM TemporariesNeverOverlap == Spec => []TemporariesApart
  <1>1. Inv => TemporariesApart
    <2> SUFFICES ASSUME Inv PROVE TemporariesApart
      OBVIOUS
    <2>1. head \in Nat /\ tail \in Nat
      BY DEF Inv, ArenaTypeOK
    <2>2. \A t \in temporaries : /\ t.lo \in Nat /\ t.hi \in Nat /\ head <= t.lo /\ t.hi <= tail
      BY DEF Inv, ArenaTypeOK, LayoutInv, Within, Regions
    <2>3. \A r \in persistent : r.lo \in Nat /\ tail <= r.lo
      BY DEF Inv, ArenaTypeOK, LayoutInv, Within, Regions
    <2>4. \A r \in activations : r.hi \in Nat /\ r.hi <= head
      BY DEF Inv, ArenaTypeOK, LayoutInv, Within, Regions
    <2>5. ASSUME NEW t \in temporaries, NEW r \in persistent \cup activations
          PROVE  Disjoint(r, t)
      BY <2>1, <2>2, <2>3, <2>4 DEF Disjoint
    <2> QED
      BY <2>5 DEF TemporariesApart, Inv, LayoutInv, Apart
  <1> QED
    BY <1>1, Invariance, PTL

\* Every number that RequestScratchBufferInArena gave leads to its handle.
THEOREM HandlesAreIndexed == Spec => []HandlesIndexed
  <1>1. Inv => HandlesIndexed
    <2> SUFFICES ASSUME Inv, NEW i \in 0..Len(handles) - 1 PROVE GetScratchBuffer(i) = handles[i + 1]
      BY DEF HandlesIndexed
    <2>1. Len(handles) \in Nat
      BY DEF Inv, ArenaTypeOK
    <2>2. i + 1 \in 1..Len(handles) /\ Len(handles) - (i + 1) = Len(handles) - i - 1
      BY <2>1
    <2> QED
      BY <2>2 DEF Inv, HandleInv, GetScratchBuffer
  <1> QED
    BY <1>1, Invariance, PTL
=============================================================================
