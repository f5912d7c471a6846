-------------------------- MODULE RequestBody_proofs --------------------------
(***************************************************************************)
(* Proofs about the way of a text from the client to the guest, for every  *)
(* text, every limit and however the body is cut into reads: that decoding *)
(* undoes encodeURI, and what is left of a text the limit has cut.         *)
(***************************************************************************)
EXTENDS RequestBody, SequenceTheorems, WellFoundedInduction, TLAPS

Octets == 0..255
Ascii == 0..127

-----------------------------------------------------------------------------
(* Induction over the octets of a text: as induction over a set of numbers. *)

LEMMA Induct ==
    ASSUME NEW S, 0 \in S, \A n \in Nat : n \in S => n + 1 \in S
    PROVE  \A n \in Nat : n \in S
  <1> SUFFICES ASSUME Nat \ S # {} PROVE FALSE
    OBVIOUS
  <1>1. PICK m \in Nat \ S : \A k \in Nat \ S : ~(<<k, m>> \in OpToRel(<, Nat))
    BY NatLessThanWellFounded, WFMin
  <1>2. m # 0 /\ m - 1 \in Nat
    OBVIOUS
  <1>3. m - 1 \notin S
    <2>1. (m - 1) + 1 = m
      OBVIOUS
    <2> QED BY <1>2, <2>1
  <1>4. <<m - 1, m>> \in OpToRel(<, Nat)
    BY <1>2 DEF OpToRel
  <1> QED BY <1>1, <1>2, <1>3, <1>4

\* From the end of 1..n towards its beginning.
LEMMA InductFromTheEnd ==
    ASSUME NEW n \in Nat, NEW T,
           \A i \in 1..n : (\A j \in i + 1..n : j \in T) => i \in T
    PROVE  \A i \in 1..n : i \in T
  <1> DEFINE S == {k \in Nat : \A i \in 1..n : n - i < k => i \in T}
  <1>1. 0 \in S
    OBVIOUS
  <1>2. ASSUME NEW k \in Nat, k \in S PROVE k + 1 \in S
    <2> SUFFICES ASSUME NEW i \in 1..n, n - i < k + 1 PROVE i \in T
      OBVIOUS
    <2>1. \A j \in i + 1..n : j \in 1..n /\ n - j < k
      OBVIOUS
    <2>2. \A j \in i + 1..n : j \in T
      BY <1>2, <2>1
    <2> QED BY <2>2
  <1>3. n + 1 \in S
    <2> HIDE DEF S
    <2> QED BY <1>1, <1>2, Induct
  <1> QED BY <1>3

-----------------------------------------------------------------------------
(* The recursive functions satisfy their definitions. *)

\* step[i] gives the value at i of a function on 1..n from its values behind i.
LooksBehind(n, V, step) ==
    /\ step \in [1..n -> [[1..n -> V] -> V]]
    /\ \A i \in 1..n : \A f, g \in [1..n -> V] :
           (\A j \in i + 1..n : f[j] = g[j]) => step[i][f] = step[i][g]

Solves(f, n, step) == \A i \in 1..n : f[i] = step[i][f]

\* Such a function is built up from the end, one place at a time.
LEMMA FromTheEnd ==
    ASSUME NEW n \in Nat, NEW V, NEW v \in V, NEW step, LooksBehind(n, V, step)
    PROVE  \E f \in [1..n -> V] : Solves(f, n, step)
  <1> USE DEF LooksBehind, Solves
  <1> DEFINE P(k) == k <= n => \E f \in [1..n -> V] :
                                   \A i \in n - k + 1..n : f[i] = step[i][f]
             S == {k \in Nat : P(k)}
  <1>1. P(0)
    <2> DEFINE f == [i \in 1..n |-> v]
    <2>1. f \in [1..n -> V] /\ \A i \in n - 0 + 1..n : f[i] = step[i][f]
      OBVIOUS
    <2> QED BY <2>1
  <1>2. ASSUME NEW k \in Nat, P(k), k + 1 <= n PROVE P(k + 1)
    <2>1. PICK f \in [1..n -> V] : \A i \in n - k + 1..n : f[i] = step[i][f]
      BY <1>2
    <2> DEFINE m == n - k
               g == [f EXCEPT ![m] = step[m][f]]
    <2>2. m \in 1..n /\ n - (k + 1) + 1 = m /\ n - k + 1 = m + 1
      BY <1>2
    <2>3. step[m][f] \in V
      BY <2>2
    <2>4. /\ g \in [1..n -> V]
          /\ g[m] = step[m][f]
          /\ \A j \in 1..n : j # m => g[j] = f[j]
      BY <2>2, <2>3
    <2>5. ASSUME NEW i \in m..n PROVE step[i][g] = step[i][f]
      <3>1. i \in 1..n /\ \A j \in i + 1..n : j \in 1..n /\ j # m
        BY <2>2
      <3> HIDE DEF g, m
      <3>2. \A j \in i + 1..n : g[j] = f[j]
        BY <2>4, <3>1
      <3> QED BY <2>4, <3>1, <3>2
    <2>6. ASSUME NEW i \in m..n PROVE g[i] = step[i][g]
      <3>1. CASE i = m
        BY <3>1, <2>4, <2>5
      <3>2. CASE i # m
        <4>1. i \in m + 1..n /\ i \in 1..n
          BY <2>2, <3>2
        <4> HIDE DEF g, m
        <4> QED BY <2>1, <2>2, <2>4, <2>5, <3>2, <4>1
      <3> QED BY <3>1, <3>2
    <2> HIDE DEF g, m
    <2>7. \A i \in n - (k + 1) + 1..n : g[i] = step[i][g]
      BY <2>2, <2>6
    <2> QED BY <2>4, <2>7
  <1>3. \A k \in Nat : P(k) => P(k + 1)
    BY <1>2
  <1>4. P(n)
    <2> HIDE DEF P
    <2>1. 0 \in S /\ \A k \in Nat : k \in S => k + 1 \in S
      BY <1>1, <1>3
    <2> HIDE DEF S
    <2>2. n \in S
      BY <2>1, Induct
    <2> QED BY <2>2 DEF S
  <1>5. n - n + 1 = 1
    OBVIOUS
  <1> QED BY <1>4, <1>5

\* What DecodedFrom(s) says of octet i, given what is said of those behind.
DecodedAt(s, i, from) ==
    IF i > Len(s) THEN <<>>
    ELSE IF EscapeAt(s, i)
         THEN <<16 * HexValue(s[i + 1]) + HexValue(s[i + 2])>> \o from[i + 3]
         ELSE <<s[i]>> \o from[i + 1]

LEMMA HexValueType == ASSUME NEW b PROVE HexValue(b) \in 0..16
  BY DEF HexValue

LEMMA DecodedAtType ==
    ASSUME NEW s \in Seq(Octets), NEW i \in 1..Len(s) + 3,
           NEW from \in [1..Len(s) + 3 -> Seq(Octets)]
    PROVE  DecodedAt(s, i, from) \in Seq(Octets)
  <1>1. Len(s) \in Nat
    BY LenProperties
  <1>2. CASE i > Len(s)
    BY <1>2 DEF DecodedAt
  <1>3. CASE i <= Len(s) /\ EscapeAt(s, i)
    <2>1. HexValue(s[i + 1]) \in 0..15 /\ HexValue(s[i + 2]) \in 0..15
      BY <1>3, HexValueType DEF EscapeAt
    <2>2. 16 * HexValue(s[i + 1]) + HexValue(s[i + 2]) \in Octets
      <3>1. \A a, b \in 0..15 : 16 * a + b \in 0..255
        OBVIOUS
      <3> QED BY <2>1, <3>1 DEF Octets
    <2>3. <<16 * HexValue(s[i + 1]) + HexValue(s[i + 2])>> \in Seq(Octets)
      BY <2>2
    <2>4. from[i + 3] \in Seq(Octets)
      BY <1>1, <1>3
    <2>5. <<16 * HexValue(s[i + 1]) + HexValue(s[i + 2])>> \o from[i + 3] \in Seq(Octets)
      BY <2>3, <2>4, ConcatProperties
    <2> QED BY <1>1, <1>3, <2>5 DEF DecodedAt
  <1>4. CASE i <= Len(s) /\ ~EscapeAt(s, i)
    <2>1. s[i] \in Octets
      BY <1>4, <1>1, ElementOfSeq
    <2>2. <<s[i]>> \in Seq(Octets)
      BY <2>1
    <2>3. from[i + 1] \in Seq(Octets)
      BY <1>1, <1>4
    <2>4. <<s[i]>> \o from[i + 1] \in Seq(Octets)
      BY <2>2, <2>3, ConcatProperties
    <2> QED BY <1>1, <1>4, <2>4 DEF DecodedAt
  <1> QED BY <1>1, <1>2, <1>3, <1>4

LEMMA DecodedFromDef ==
    ASSUME NEW s \in Seq(Octets)
    PROVE  DecodedFrom(s) = [i \in 1..Len(s) + 3 |-> DecodedAt(s, i, DecodedFrom(s))]
  <1> DEFINE n == Len(s) + 3
             F == [1..n -> Seq(Octets)]
             step == [i \in 1..n |-> [f \in F |-> DecodedAt(s, i, f)]]
  <1>1. Len(s) \in Nat /\ n \in Nat
    BY LenProperties
  <1>2. step \in [1..n -> [F -> Seq(Octets)]]
    BY DecodedAtType
  <1>3. ASSUME NEW i \in 1..n, NEW f \in F, NEW g \in F, \A j \in i + 1..n : f[j] = g[j]
        PROVE  step[i][f] = step[i][g]
    <2>1. i <= Len(s) => i + 1 \in i + 1..n /\ i + 3 \in i + 1..n
      BY <1>1
    <2>2. i <= Len(s) => f[i + 1] = g[i + 1] /\ f[i + 3] = g[i + 3]
      BY <1>3, <2>1
    <2>3. DecodedAt(s, i, f) = DecodedAt(s, i, g)
      BY <1>1, <2>2 DEF DecodedAt
    <2> QED BY <2>3
  <1>4. LooksBehind(n, Seq(Octets), step)
    <2> HIDE DEF step, n
    <2> QED BY <1>2, <1>3 DEF LooksBehind
  <1>5. PICK f \in F : Solves(f, n, step)
    <2>1. <<>> \in Seq(Octets)
      OBVIOUS
    <2>2. n \in Nat
      BY <1>1
    <2> HIDE DEF step, n
    <2> QED BY <1>4, <2>1, <2>2, FromTheEnd
  <1>6. f = [i \in 1..n |-> DecodedAt(s, i, f)]
    BY <1>5 DEF Solves
  <1> QED BY <1>6 DEF DecodedFrom, DecodedAt

EncodedAt(t, i, from) == IF i > Len(t) THEN <<>> ELSE Encoded(t[i]) \o from[i + 1]

\* A character of a URI, or an escape: "%" and two digits, whose value it is.
LEMMA EncodedType ==
    ASSUME NEW b \in Octets
    PROVE  /\ Encoded(b) \in Seq(Ascii)
           /\ \/ Encoded(b) = <<b>> /\ b # Percent
              \/ \E v, w \in 0..15 : /\ b = 16 * v + w
                                     /\ Encoded(b) = <<Percent, HexDigit(v), HexDigit(w)>>
  <1>1. CASE b \in UriCharacters
    <2>1. b \in Ascii /\ b # Percent
      BY <1>1 DEF UriCharacters, Ascii, Percent
    <2>2. <<b>> \in Seq(Ascii)
      BY <2>1
    <2> QED BY <1>1, <2>1, <2>2 DEF Encoded
  <1>2. CASE b \notin UriCharacters
    <2> DEFINE v == b \div 16
               w == b % 16
    <2>1. v \in 0..15 /\ w \in 0..15 /\ b = 16 * v + w
      BY DEF Octets
    <2>2. \A x \in 0..15 : HexDigit(x) \in Ascii
      BY DEF HexDigit, Ascii
    <2>3. Encoded(b) = <<Percent, HexDigit(v), HexDigit(w)>>
      BY <1>2 DEF Encoded
    <2> HIDE DEF v, w
    <2>4. HexDigit(v) \in Ascii /\ HexDigit(w) \in Ascii /\ Percent \in Ascii
      BY <2>1, <2>2 DEF Percent, Ascii
    <2>5. <<Percent, HexDigit(v), HexDigit(w)>> \in Seq(Ascii)
      BY <2>4
    <2> QED BY <2>1, <2>3, <2>5
  <1> QED BY <1>1, <1>2

LEMMA EncodedFromDef ==
    ASSUME NEW t \in Seq(Octets)
    PROVE  EncodedFrom(t) = [i \in 1..Len(t) + 1 |-> EncodedAt(t, i, EncodedFrom(t))]
  <1> DEFINE n == Len(t) + 1
             F == [1..n -> Seq(Ascii)]
             step == [i \in 1..n |-> [f \in F |-> EncodedAt(t, i, f)]]
  <1>1. Len(t) \in Nat /\ n \in Nat
    BY LenProperties
  <1>2. step \in [1..n -> [F -> Seq(Ascii)]]
    <2> SUFFICES ASSUME NEW i \in 1..n, NEW f \in F PROVE EncodedAt(t, i, f) \in Seq(Ascii)
      OBVIOUS
    <2>1. CASE i > Len(t)
      BY <2>1 DEF EncodedAt
    <2>2. CASE i <= Len(t)
      <3>1. Encoded(t[i]) \in Seq(Ascii)
        BY <1>1, <2>2, ElementOfSeq, EncodedType
      <3>2. f[i + 1] \in Seq(Ascii)
        BY <1>1, <2>2
      <3>3. Encoded(t[i]) \o f[i + 1] \in Seq(Ascii)
        BY <3>1, <3>2, ConcatProperties
      <3> QED BY <1>1, <2>2, <3>3 DEF EncodedAt
    <2> QED BY <1>1, <2>1, <2>2
  <1>3. ASSUME NEW i \in 1..n, NEW f \in F, NEW g \in F, \A j \in i + 1..n : f[j] = g[j]
        PROVE  step[i][f] = step[i][g]
    <2>1. i <= Len(t) => f[i + 1] = g[i + 1]
      BY <1>1, <1>3
    <2>2. EncodedAt(t, i, f) = EncodedAt(t, i, g)
      BY <1>1, <2>1 DEF EncodedAt
    <2> QED BY <2>2
  <1>4. LooksBehind(n, Seq(Ascii), step)
    <2> HIDE DEF step, n
    <2> QED BY <1>2, <1>3 DEF LooksBehind
  <1>5. PICK f \in F : Solves(f, n, step)
    <2>1. <<>> \in Seq(Ascii)
      OBVIOUS
    <2>2. n \in Nat
      BY <1>1
    <2> HIDE DEF step, n
    <2> QED BY <1>4, <2>1, <2>2, FromTheEnd
  <1>6. f = [i \in 1..n |-> EncodedAt(t, i, f)]
    BY <1>5 DEF Solves
  <1> QED BY <1>6 DEF EncodedFrom, EncodedAt

Utf8At(s, i, from) ==
    \/ i = Len(s) + 1
    \/ \E j \in i..(IF i + 3 < Len(s) THEN i + 3 ELSE Len(s)) :
           Char(SubSeq(s, i, j)) /\ from[j + 1]

LEMMA Utf8FromDef ==
    ASSUME NEW s, Len(s) \in Nat
    PROVE  Utf8From(s) = [i \in 1..Len(s) + 1 |-> Utf8At(s, i, Utf8From(s))]
  <1> DEFINE n == Len(s) + 1
             F == [1..n -> BOOLEAN]
             step == [i \in 1..n |-> [f \in F |-> Utf8At(s, i, f)]]
  <1>1. n \in Nat
    OBVIOUS
  <1>2. step \in [1..n -> [F -> BOOLEAN]]
    <2>1. \A i \in 1..n : \A f \in F : Utf8At(s, i, f) \in BOOLEAN
      BY DEF Utf8At
    <2> QED BY <2>1
  <1>3. ASSUME NEW i \in 1..n, NEW f \in F, NEW g \in F, \A j \in i + 1..n : f[j] = g[j]
        PROVE  step[i][f] = step[i][g]
    <2>1. \A j \in i..(IF i + 3 < Len(s) THEN i + 3 ELSE Len(s)) : j + 1 \in i + 1..n
      OBVIOUS
    <2>2. \A j \in i..(IF i + 3 < Len(s) THEN i + 3 ELSE Len(s)) : f[j + 1] = g[j + 1]
      BY <1>3, <2>1
    <2>3. Utf8At(s, i, f) = Utf8At(s, i, g)
      BY <2>2, Zenon DEF Utf8At
    <2> QED BY <2>3
  <1>4. LooksBehind(n, BOOLEAN, step)
    <2> HIDE DEF step, n
    <2> QED BY <1>2, <1>3 DEF LooksBehind
  <1>5. PICK f \in F : Solves(f, n, step)
    <2>1. TRUE \in BOOLEAN
      OBVIOUS
    <2> HIDE DEF step, n
    <2> QED BY <1>1, <1>4, <2>1, FromTheEnd
  <1>6. f = [i \in 1..n |-> Utf8At(s, i, f)]
    BY <1>5 DEF Solves
  <1> QED BY <1>6 DEF Utf8From, Utf8At

-----------------------------------------------------------------------------
(* Decoding *)

LEMMA DecodedStep ==
    ASSUME NEW s \in Seq(Octets)
    PROVE  /\ \A i \in Len(s) + 1..Len(s) + 3 : DecodedFrom(s)[i] = <<>>
           /\ \A i \in 1..Len(s) :
                 /\ EscapeAt(s, i) =>
                        DecodedFrom(s)[i] = <<16 * HexValue(s[i + 1]) + HexValue(s[i + 2])>>
                                                \o DecodedFrom(s)[i + 3]
                 /\ ~EscapeAt(s, i) => DecodedFrom(s)[i] = <<s[i]>> \o DecodedFrom(s)[i + 1]
  <1>1. Len(s) \in Nat
    BY LenProperties
  <1>2. \A i \in 1..Len(s) + 3 : DecodedFrom(s)[i] = DecodedAt(s, i, DecodedFrom(s))
    <2> DEFINE D == DecodedFrom(s)
    <2>1. D = [i \in 1..Len(s) + 3 |-> DecodedAt(s, i, D)]
      BY DecodedFromDef
    <2> HIDE DEF D
    <2>2. \A i \in 1..Len(s) + 3 : D[i] = DecodedAt(s, i, D)
      BY <2>1
    <2> QED BY <2>2 DEF D
  <1>3. \A i \in Len(s) + 1..Len(s) + 3 : i \in 1..Len(s) + 3 /\ i > Len(s)
    BY <1>1
  <1>4. \A i \in 1..Len(s) : i \in 1..Len(s) + 3 /\ ~(i > Len(s))
    BY <1>1
  <1> QED BY <1>2, <1>3, <1>4 DEF DecodedAt

\* Decoding gives octets, and never more of them than there are.
LEMMA DecodedType ==
    ASSUME NEW s \in Seq(Octets)
    PROVE  \A i \in 1..Len(s) + 3 :
               /\ DecodedFrom(s)[i] \in Seq(Octets)
               /\ i <= Len(s) => Len(DecodedFrom(s)[i]) <= Len(s) + 1 - i
  <1> DEFINE n == Len(s) + 3
             D == DecodedFrom(s)
             Q(i) == /\ D[i] \in Seq(Octets)
                     /\ i <= Len(s) => Len(D[i]) <= Len(s) + 1 - i
             T == {i \in 1..n : Q(i)}
  <1>1. Len(s) \in Nat /\ n \in Nat
    BY LenProperties
  <1>2. ASSUME NEW i \in 1..n, \A j \in i + 1..n : Q(j) PROVE Q(i)
    <2>1. CASE i > Len(s)
      <3>1. D[i] = <<>>
        BY <1>1, <2>1, DecodedStep
      <3>2. <<>> \in Seq(Octets)
        OBVIOUS
      <3> QED BY <1>1, <2>1, <3>1, <3>2
    <2>2. ASSUME NEW b \in Octets, NEW j \in i + 1..n, D[i] = <<b>> \o D[j],
                 i <= Len(s), j <= Len(s) + 1
          PROVE  Q(i)
      <3>1. <<b>> \in Seq(Octets) /\ Len(<<b>>) = 1
        OBVIOUS
      <3>2. D[j] \in Seq(Octets) /\ Len(D[j]) \in Nat
        BY <1>2, <2>2, LenProperties
      <3>3. D[i] \in Seq(Octets) /\ Len(D[i]) = 1 + Len(D[j])
        BY <2>2, <3>1, <3>2, ConcatProperties
      <3>4. CASE j <= Len(s)
        <4>1. Len(D[j]) <= Len(s) + 1 - j
          BY <1>2, <2>2, <3>4
        <4> QED BY <1>1, <2>2, <3>2, <3>3, <3>4, <4>1
      <3>5. CASE j > Len(s)
        <4>1. Len(D[j]) = 0
          BY <1>1, <2>2, <3>5, DecodedStep
        <4> QED BY <1>1, <2>2, <3>3, <3>5, <4>1
      <3> QED BY <1>1, <3>4, <3>5
    <2>3. CASE i <= Len(s) /\ EscapeAt(s, i)
      <3>1. HexValue(s[i + 1]) \in 0..15 /\ HexValue(s[i + 2]) \in 0..15 /\ i + 2 <= Len(s)
        BY <2>3, HexValueType DEF EscapeAt
      <3>2. \A a, b \in 0..15 : 16 * a + b \in 0..255
        OBVIOUS
      <3>3. 16 * HexValue(s[i + 1]) + HexValue(s[i + 2]) \in Octets
        BY <3>1, <3>2 DEF Octets
      <3>4. D[i] = <<16 * HexValue(s[i + 1]) + HexValue(s[i + 2])>> \o D[i + 3]
        <4>1. i \in 1..Len(s)
          BY <1>1, <2>3
        <4> QED BY <2>3, <4>1, DecodedStep
      <3>5. i + 3 \in i + 1..n
        BY <1>1, <3>1
      <3>6. i + 3 <= Len(s) + 1
        BY <1>1, <3>1
      <3> HIDE DEF Q, D
      <3> QED BY <2>2, <2>3, <3>3, <3>4, <3>5, <3>6
    <2>4. CASE i <= Len(s) /\ ~EscapeAt(s, i)
      <3>1. s[i] \in Octets
        BY <1>1, <2>4, ElementOfSeq
      <3>2. D[i] = <<s[i]>> \o D[i + 1]
        <4>1. i \in 1..Len(s)
          BY <1>1, <2>4
        <4> QED BY <2>4, <4>1, DecodedStep
      <3>3. i + 1 \in i + 1..n /\ i + 1 <= Len(s) + 1
        BY <1>1, <2>4
      <3> HIDE DEF Q, D
      <3> QED BY <2>2, <2>4, <3>1, <3>2, <3>3
    <2> QED BY <1>1, <2>1, <2>3, <2>4
  <1>3. \A i \in 1..n : Q(i)
    <2> HIDE DEF Q, n
    <2>1. \A i \in 1..n : (\A j \in i + 1..n : j \in T) => i \in T
      BY <1>2
    <2>2. n \in Nat
      BY <1>1
    <2> HIDE DEF T
    <2>3. \A i \in 1..n : i \in T
      BY <2>1, <2>2, InductFromTheEnd
    <2> QED BY <2>3 DEF T
  <1> QED BY <1>3

\* Octets in front change nothing of what those behind stand for.
LEMMA DecodedBehind ==
    ASSUME NEW p \in Seq(Octets), NEW r \in Seq(Octets)
    PROVE  \A i \in 1..Len(r) + 3 : DecodedFrom(p \o r)[Len(p) + i] = DecodedFrom(r)[i]
  <1> DEFINE n == Len(r) + 3
             s == p \o r
             Q(i) == DecodedFrom(s)[Len(p) + i] = DecodedFrom(r)[i]
             T == {i \in 1..n : Q(i)}
  <1>1. Len(p) \in Nat /\ Len(r) \in Nat /\ n \in Nat
    BY LenProperties
  <1>2. s \in Seq(Octets) /\ Len(s) = Len(p) + Len(r)
    BY ConcatProperties
  <1>3. \A i \in 1..Len(r) : s[Len(p) + i] = r[i]
    <2> SUFFICES ASSUME NEW i \in 1..Len(r) PROVE s[Len(p) + i] = r[i]
      OBVIOUS
    <2>1. Len(p) + i \in 1..Len(p) + Len(r) /\ ~(Len(p) + i <= Len(p)) /\ (Len(p) + i) - Len(p) = i
      BY <1>1
    <2> QED BY <2>1, ConcatProperties
  <1> HIDE DEF s
  <1>4. ASSUME NEW i \in 1..n, \A j \in i + 1..n : Q(j) PROVE Q(i)
    <2>1. CASE i > Len(r)
      <3>1. Len(p) + i \in Len(s) + 1..Len(s) + 3
        BY <1>1, <1>2, <2>1
      <3>2. DecodedFrom(s)[Len(p) + i] = <<>>
        BY <1>2, <3>1, DecodedStep
      <3>3. DecodedFrom(r)[i] = <<>>
        BY <1>1, <2>1, DecodedStep
      <3> QED BY <3>2, <3>3
    <2>2. CASE i <= Len(r)
      <3> DEFINE k == Len(p) + i
      <3>1. k \in 1..Len(s) /\ s[k] = r[i]
        BY <1>1, <1>2, <1>3, <2>2
      <3>2. k + 2 <= Len(s) <=> i + 2 <= Len(r)
        BY <1>1, <1>2
      <3>3. i + 2 <= Len(r) => s[k + 1] = r[i + 1] /\ s[k + 2] = r[i + 2]
        <4> SUFFICES ASSUME i + 2 <= Len(r) PROVE s[k + 1] = r[i + 1] /\ s[k + 2] = r[i + 2]
          OBVIOUS
        <4>1. i + 1 \in 1..Len(r) /\ i + 2 \in 1..Len(r)
          BY <1>1, <2>2
        <4>2. k + 1 = Len(p) + (i + 1) /\ k + 2 = Len(p) + (i + 2)
          BY <1>1
        <4> QED BY <1>3, <4>1, <4>2
      <3>4. EscapeAt(s, k) <=> EscapeAt(r, i)
        BY <3>1, <3>2, <3>3 DEF EscapeAt
      <3>5. CASE EscapeAt(r, i)
        <4>1. i + 2 <= Len(r)
          BY <3>5 DEF EscapeAt
        <4>2. Q(i + 3) /\ k + 3 = Len(p) + (i + 3)
          BY <1>1, <1>4, <4>1
        <4>3. DecodedFrom(s)[k] = <<16 * HexValue(s[k + 1]) + HexValue(s[k + 2])>>
                                      \o DecodedFrom(s)[k + 3]
          BY <1>2, <3>1, <3>4, <3>5, DecodedStep
        <4>4. DecodedFrom(r)[i] = <<16 * HexValue(r[i + 1]) + HexValue(r[i + 2])>>
                                      \o DecodedFrom(r)[i + 3]
          <5>1. i \in 1..Len(r)
            BY <1>1, <2>2
          <5> QED BY <3>5, <5>1, DecodedStep
        <4> QED BY <3>3, <4>1, <4>2, <4>3, <4>4
      <3>6. CASE ~EscapeAt(r, i)
        <4>1. Q(i + 1) /\ k + 1 = Len(p) + (i + 1)
          BY <1>1, <1>4, <2>2
        <4>2. DecodedFrom(s)[k] = <<s[k]>> \o DecodedFrom(s)[k + 1]
          BY <1>2, <3>1, <3>4, <3>6, DecodedStep
        <4>3. DecodedFrom(r)[i] = <<r[i]>> \o DecodedFrom(r)[i + 1]
          <5>1. i \in 1..Len(r)
            BY <1>1, <2>2
          <5> QED BY <3>6, <5>1, DecodedStep
        <4> QED BY <3>1, <4>1, <4>2, <4>3
      <3> QED BY <3>5, <3>6
    <2> QED BY <1>1, <2>1, <2>2
  <1>5. \A i \in 1..n : Q(i)
    <2> HIDE DEF Q, n
    <2>1. \A i \in 1..n : (\A j \in i + 1..n : j \in T) => i \in T
      BY <1>4
    <2>2. n \in Nat
      BY <1>1
    <2> HIDE DEF T
    <2>3. \A i \in 1..n : i \in T
      BY <2>1, <2>2, InductFromTheEnd
    <2> QED BY <2>3 DEF T
  <1> QED BY <1>5 DEF s

-----------------------------------------------------------------------------
(* Encoding *)

LEMMA EncodedStep ==
    ASSUME NEW t \in Seq(Octets)
    PROVE  /\ EncodedFrom(t)[Len(t) + 1] = <<>>
           /\ \A i \in 1..Len(t) : EncodedFrom(t)[i] = Encoded(t[i]) \o EncodedFrom(t)[i + 1]
  <1>1. Len(t) \in Nat
    BY LenProperties
  <1>2. \A i \in 1..Len(t) + 1 : EncodedFrom(t)[i] = EncodedAt(t, i, EncodedFrom(t))
    <2> DEFINE E == EncodedFrom(t)
    <2>1. E = [i \in 1..Len(t) + 1 |-> EncodedAt(t, i, E)]
      BY EncodedFromDef
    <2> HIDE DEF E
    <2>2. \A i \in 1..Len(t) + 1 : E[i] = EncodedAt(t, i, E)
      BY <2>1
    <2> QED BY <2>2 DEF E
  <1>3. Len(t) + 1 \in 1..Len(t) + 1 /\ Len(t) + 1 > Len(t)
    BY <1>1
  <1>4. \A i \in 1..Len(t) : i \in 1..Len(t) + 1 /\ ~(i > Len(t))
    BY <1>1
  <1> QED BY <1>2, <1>3, <1>4 DEF EncodedAt

LEMMA AsciiOctets == \A s \in Seq(Ascii) : s \in Seq(Octets)
  <1>1. Ascii \subseteq Octets
    BY DEF Ascii, Octets
  <1> QED BY <1>1, SeqMonotonic

LEMMA EncodedAscii ==
    ASSUME NEW t \in Seq(Octets)
    PROVE  \A i \in 1..Len(t) + 1 : EncodedFrom(t)[i] \in Seq(Ascii)
  <1> DEFINE n == Len(t) + 1
             T == {i \in 1..n : EncodedFrom(t)[i] \in Seq(Ascii)}
  <1>1. Len(t) \in Nat /\ n \in Nat
    BY LenProperties
  <1>2. ASSUME NEW i \in 1..n, \A j \in i + 1..n : j \in T PROVE i \in T
    <2>1. CASE i = n
      <3>1. EncodedFrom(t)[i] = <<>>
        BY <2>1, EncodedStep
      <3>2. <<>> \in Seq(Ascii)
        OBVIOUS
      <3> QED BY <3>1, <3>2
    <2>2. CASE i # n
      <3>1. i \in 1..Len(t) /\ i + 1 \in i + 1..n
        BY <1>1, <2>2
      <3>2. EncodedFrom(t)[i + 1] \in Seq(Ascii)
        BY <1>2, <3>1
      <3>3. Encoded(t[i]) \in Seq(Ascii)
        BY <3>1, ElementOfSeq, EncodedType
      <3>4. Encoded(t[i]) \o EncodedFrom(t)[i + 1] \in Seq(Ascii)
        BY <3>2, <3>3, ConcatProperties
      <3>5. EncodedFrom(t)[i] = Encoded(t[i]) \o EncodedFrom(t)[i + 1]
        BY <3>1, EncodedStep
      <3> QED BY <3>4, <3>5
    <2> QED BY <2>1, <2>2
  <1>3. \A i \in 1..n : i \in T
    <2> HIDE DEF T, n
    <2> QED BY <1>1, <1>2, InductFromTheEnd
  <1> QED BY <1>3

\* Text of one-octet characters is UTF-8.
LEMMA AsciiIsUtf8 == ASSUME NEW s \in Seq(Ascii) PROVE Utf8(s)
  <1> DEFINE n == Len(s) + 1
             U == Utf8From(s)
             T == {i \in 1..n : U[i]}
  <1>1. Len(s) \in Nat /\ n \in Nat
    BY LenProperties
  <1>2. \A i \in 1..n : U[i] = Utf8At(s, i, U)
    <2>1. U = [i \in 1..Len(s) + 1 |-> Utf8At(s, i, U)]
      BY <1>1, Utf8FromDef
    <2> HIDE DEF U
    <2> QED BY <2>1
  <1>3. ASSUME NEW i \in 1..n, \A j \in i + 1..n : j \in T PROVE i \in T
    <2>1. CASE i = n
      BY <1>2, <2>1 DEF Utf8At
    <2>2. CASE i # n
      <3>1. i \in 1..Len(s) /\ i + 1 \in i + 1..n
        BY <1>1, <2>2
      <3>2. U[i + 1]
        BY <1>3, <3>1
      <3>3. Char(SubSeq(s, i, i))
        <4>1. s[i] \in Ascii
          BY <3>1, ElementOfSeq
        <4>2. /\ Len(SubSeq(s, i, i)) = 1
              /\ SubSeq(s, i, i)[1] = s[i]
          <5>1. i \in Int /\ \A k \in i..i : s[k] \in Ascii
            BY <3>1, <4>1
          <5>2. Len(SubSeq(s, i, i)) = i - i + 1 /\ \A k \in 1..i - i + 1 : SubSeq(s, i, i)[k] = s[i + k - 1]
            BY <5>1, SubSeqProperties
          <5>3. i - i + 1 = 1 /\ i + 1 - 1 = i /\ 1 \in 1..1
            BY <5>1
          <5> QED BY <5>2, <5>3
        <4> HIDE DEF U
        <4> QED BY <4>1, <4>2 DEF Char, Ascii
      <3>4. i \in i..(IF i + 3 < Len(s) THEN i + 3 ELSE Len(s))
        BY <3>1, <1>1
      <3>5. Utf8At(s, i, U)
        BY <3>2, <3>3, <3>4, Zenon DEF Utf8At
      <3>6. U[i]
        BY <1>2, <3>5
      <3> QED BY <3>6
    <2> QED BY <2>1, <2>2
  <1>4. 1 \in T
    <2>1. 1 \in 1..n
      BY <1>1
    <2> HIDE DEF T, n
    <2> QED BY <1>1, <1>3, <2>1, InductFromTheEnd
  <1> QED BY <1>4 DEF Utf8

LEMMA HexRoundTrip == \A v \in 0..15 : HexValue(HexDigit(v)) = v
  <1> SUFFICES ASSUME NEW v \in 0..15 PROVE HexValue(HexDigit(v)) = v
    OBVIOUS
  <1>1. CASE v < 10
    BY <1>1 DEF HexValue, HexDigit
  <1>2. CASE v >= 10
    BY <1>2 DEF HexValue, HexDigit
  <1> QED BY <1>1, <1>2

\* One octet encoded, and then decoded.
LEMMA OctetArrives ==
    ASSUME NEW b \in Octets, NEW r \in Seq(Octets)
    PROVE  PercentDecode(Encoded(b) \o r) = <<b>> \o PercentDecode(r)
  <1> DEFINE u == Encoded(b)
             s == u \o r
  <1>1. u \in Seq(Octets) /\ s \in Seq(Octets) /\ Len(s) = Len(u) + Len(r) /\ Len(r) \in Nat
    BY EncodedType, AsciiOctets, ConcatProperties, LenProperties
  <1>2. DecodedFrom(s)[Len(u) + 1] = DecodedFrom(r)[1]
    <2>1. 1 \in 1..Len(r) + 3
      BY <1>1
    <2> QED BY <1>1, <2>1, DecodedBehind
  <1>3. CASE u = <<b>> /\ b # Percent
    <2>1. Len(u) = 1 /\ 1 \in 1..Len(s) /\ s[1] = b
      <3>1. Len(u) = 1 /\ u[1] = b
        BY <1>3
      <3>2. 1 \in 1..Len(u) + Len(r) /\ 1 <= Len(u)
        BY <1>1, <3>1
      <3> HIDE DEF u
      <3> QED BY <1>1, <3>1, <3>2, ConcatProperties
    <2>2. ~EscapeAt(s, 1)
      BY <1>3, <2>1 DEF EscapeAt
    <2>3. DecodedFrom(s)[1] = <<s[1]>> \o DecodedFrom(s)[1 + 1]
      BY <1>1, <2>1, <2>2, DecodedStep
    <2> QED BY <1>2, <2>1, <2>3 DEF PercentDecode
  <1>4. ASSUME NEW v \in 0..15, NEW w \in 0..15, b = 16 * v + w,
               u = <<Percent, HexDigit(v), HexDigit(w)>>
        PROVE  DecodedFrom(s)[1] = <<b>> \o DecodedFrom(r)[1]
    <2>1. Len(u) = 3 /\ u[1] = Percent /\ u[2] = HexDigit(v) /\ u[3] = HexDigit(w)
      BY <1>4
    <2>2. Len(s) >= 3 /\ 1 \in 1..Len(s)
      BY <1>1, <2>1
    <2>3. s[1] = u[1] /\ s[2] = u[2] /\ s[3] = u[3]
      <3>1. \A i \in {1, 2, 3} : i \in 1..Len(u) + Len(r) /\ i <= Len(u)
        BY <1>1, <2>1
      <3> HIDE DEF u
      <3>2. \A i \in {1, 2, 3} : s[i] = u[i]
        BY <1>1, <3>1, ConcatProperties
      <3> QED BY <3>2
    <2>4. HexValue(s[1 + 1]) = v /\ HexValue(s[1 + 2]) = w
      <3>1. s[1 + 1] = HexDigit(v) /\ s[1 + 2] = HexDigit(w)
        <4>1. 1 + 1 = 2 /\ 1 + 2 = 3
          OBVIOUS
        <4> HIDE DEF s, u
        <4> QED BY <2>1, <2>3, <4>1
      <3> QED BY <3>1, HexRoundTrip
    <2>5. EscapeAt(s, 1)
      BY <2>1, <2>2, <2>3, <2>4 DEF EscapeAt
    <2>6. DecodedFrom(s)[1] = <<16 * HexValue(s[1 + 1]) + HexValue(s[1 + 2])>>
                                  \o DecodedFrom(s)[1 + 3]
      BY <1>1, <2>2, <2>5, DecodedStep
    <2>7. DecodedFrom(s)[1 + 3] = DecodedFrom(r)[1]
      BY <1>2, <2>1
    <2>8. 16 * HexValue(s[1 + 1]) + HexValue(s[1 + 2]) = b
      BY <2>4, <1>4
    <2> QED BY <2>6, <2>7, <2>8
  <1> QED BY <1>3, <1>4, EncodedType DEF PercentDecode

-----------------------------------------------------------------------------
(* There and back *)

\* decode_utf8 undoes encodeURI, whatever the text.
LEMMA TextArrives ==
    ASSUME NEW t \in Seq(Octets)
    PROVE  PercentDecode(EncodeURI(t)) = t
  <1> DEFINE n == Len(t) + 1
             T == {i \in 1..n : PercentDecode(EncodedFrom(t)[i]) = SubSeq(t, i, Len(t))}
  <1>1. Len(t) \in Nat /\ n \in Nat
    BY LenProperties
  <1>2. ASSUME NEW i \in 1..n, \A j \in i + 1..n : j \in T PROVE i \in T
    <2>1. CASE i = n
      <3>1. EncodedFrom(t)[i] = <<>>
        BY <2>1, EncodedStep
      <3>2. PercentDecode(<<>>) = <<>>
        <4>1. <<>> \in Seq(Octets) /\ Len(<<>>) = 0 /\ 1 \in Len(<<>>) + 1..Len(<<>>) + 3
          OBVIOUS
        <4> QED BY <4>1, DecodedStep DEF PercentDecode
      <3>3. SubSeq(t, i, Len(t)) = <<>>
        <4>1. i \in Int /\ Len(t) \in Int /\ Len(t) < i
          BY <1>1, <2>1
        <4> QED BY <4>1, SubSeqEmpty
      <3> QED BY <3>1, <3>2, <3>3
    <2>2. CASE i # n
      <3>1. i \in 1..Len(t) /\ i + 1 \in i + 1..n /\ i + 1 \in 1..n
        BY <1>1, <2>2
      <3>2. PercentDecode(EncodedFrom(t)[i + 1]) = SubSeq(t, i + 1, Len(t))
        BY <1>2, <3>1
      <3>3. t[i] \in Octets
        BY <3>1, ElementOfSeq
      <3>4. EncodedFrom(t)[i + 1] \in Seq(Octets)
        BY <3>1, EncodedAscii, AsciiOctets
      <3>5. EncodedFrom(t)[i] = Encoded(t[i]) \o EncodedFrom(t)[i + 1]
        BY <3>1, EncodedStep
      <3>6. PercentDecode(EncodedFrom(t)[i]) = <<t[i]>> \o SubSeq(t, i + 1, Len(t))
        BY <3>2, <3>3, <3>4, <3>5, OctetArrives
      <3>7. SubSeq(t, i, Len(t)) = <<t[i]>> \o SubSeq(t, i + 1, Len(t))
        <4>1. Len(t) \in i..Len(t)
          BY <1>1, <3>1
        <4> QED BY <3>1, <4>1, SubSeqRecursiveFirst
      <3> QED BY <3>6, <3>7
    <2> QED BY <2>1, <2>2
  <1>3. 1 \in T
    <2>1. 1 \in 1..n
      BY <1>1
    <2> HIDE DEF T, n
    <2> QED BY <1>1, <1>2, <2>1, InductFromTheEnd
  <1> QED BY <1>3, SubSeqFull DEF EncodeURI

\* The start of an escape that the limit cuts off stands for itself.
LEMMA CutOctet ==
    ASSUME NEW b \in Octets, NEW m \in Nat, m < Len(Encoded(b))
    PROVE  LET d == PercentDecode(SubSeq(Encoded(b), 1, m))
           IN  d \in Seq(Octets) /\ Len(d) \in 0..2 /\ (Len(d) > 0 => d[1] = Percent)
  <1> DEFINE u == Encoded(b)
             c == SubSeq(u, 1, m)
             d == PercentDecode(c)
  <1>1. u \in Seq(Octets) /\ Len(u) \in {1, 3} /\ (Len(u) = 3 => u[1] = Percent) /\ m < Len(u)
    <2>1. u \in Seq(Octets)
      BY EncodedType, AsciiOctets
    <2>2. \A v, w : Len(<<Percent, v, w>>) = 3 /\ <<Percent, v, w>>[1] = Percent
      OBVIOUS
    <2>3. Len(<<b>>) = 1
      OBVIOUS
    <2>4. \/ u = <<b>>
          \/ \E v, w : u = <<Percent, v, w>>
      BY EncodedType
    <2> HIDE DEF u
    <2>5. Len(u) \in {1, 3} /\ (Len(u) = 3 => u[1] = Percent)
      <3>1. CASE u = <<b>>
        <4>1. Len(u) = 1
          BY <2>3, <3>1, Zenon
        <4> QED BY ONLY <4>1
      <3>2. CASE \E v, w : u = <<Percent, v, w>>
        <4>1. Len(u) = 3 /\ u[1] = Percent
          BY <2>2, <3>2, Zenon
        <4> QED BY ONLY <4>1
      <3> QED BY ONLY <2>4, <3>1, <3>2
    <2> QED BY <2>1, <2>5 DEF u
  <1>2. c \in Seq(Octets) /\ Len(c) = m /\ (m >= 1 => c[1] = u[1])
    <2>1. \A i \in 1..m : i \in 1..Len(u)
      BY <1>1
    <2>2. \A i \in 1..m : u[i] \in Octets
      BY <1>1, <2>1, ElementOfSeq
    <2>3. /\ c \in Seq(Octets)
          /\ Len(c) = IF 1 <= m THEN m - 1 + 1 ELSE 0
          /\ \A i \in 1..m - 1 + 1 : c[i] = u[1 + i - 1]
      <3> HIDE DEF u
      <3>1. 1 \in Int /\ m \in Int
        OBVIOUS
      <3> QED BY <2>2, <3>1, SubSeqProperties
    <2>4. m >= 1 => 1 \in 1..m - 1 + 1 /\ 1 + 1 - 1 = 1
      OBVIOUS
    <2> HIDE DEF c, u
    <2> QED BY <2>3, <2>4
  <1> HIDE DEF u, c
  <1>3. d \in Seq(Octets) /\ (1 <= m => Len(d) <= m)
    <2>1. 1 \in 1..Len(c) + 3 /\ (1 <= m => 1 <= Len(c)) /\ Len(c) + 1 - 1 = m
      BY <1>2
    <2>2. /\ DecodedFrom(c)[1] \in Seq(Octets)
          /\ 1 <= Len(c) => Len(DecodedFrom(c)[1]) <= Len(c) + 1 - 1
      BY <1>2, <2>1, DecodedType
    <2> QED BY <2>1, <2>2 DEF PercentDecode
  <1>4. CASE m = 0
    <2>1. 1 \in Len(c) + 1..Len(c) + 3
      BY <1>2, <1>4
    <2>2. d = <<>>
      BY <1>2, <2>1, DecodedStep DEF PercentDecode
    <2>3. d \in Seq(Octets) /\ Len(d) = 0
      BY <2>2
    <2> HIDE DEF d
    <2>4. Len(d) \in 0..2 /\ ~(Len(d) > 0)
      BY <2>3
    <2> QED BY <2>3, <2>4 DEF d, c, u
  <1>5. CASE m >= 1
    <2>1. m \in {1, 2} /\ c[1] = Percent /\ 1 \in 1..Len(c)
      <3>1. Len(u) = 3
        <4>1. \A l \in {1, 3} : m < l => l = 3
          BY <1>5
        <4> QED BY ONLY <1>1, <4>1, Zenon
      <3> QED BY <1>1, <1>2, <1>5, <3>1
    <2>2. ~EscapeAt(c, 1)
      BY <1>2, <2>1 DEF EscapeAt
    <2>3. d = <<c[1]>> \o DecodedFrom(c)[1 + 1]
      BY <1>2, <2>1, <2>2, DecodedStep DEF PercentDecode
    <2>4. d[1] = Percent
      <3>1. <<Percent>> \in Seq(Octets) /\ Len(<<Percent>>) = 1 /\ <<Percent>>[1] = Percent
        BY DEF Percent, Octets
      <3>2. DecodedFrom(c)[1 + 1] \in Seq(Octets) /\ Len(DecodedFrom(c)[1 + 1]) \in Nat
        <4>1. 1 + 1 \in 1..Len(c) + 3
          BY <1>2
        <4> QED BY <1>2, <4>1, DecodedType, LenProperties
      <3>3. 1 \in 1..Len(<<Percent>>) + Len(DecodedFrom(c)[1 + 1]) /\ 1 <= Len(<<Percent>>)
        BY <3>1, <3>2
      <3>4. (<<Percent>> \o DecodedFrom(c)[1 + 1])[1] = <<Percent>>[1]
        BY <3>1, <3>2, <3>3, ConcatProperties
      <3> QED BY <2>1, <2>3, <3>1, <3>4
    <2>5. Len(d) \in Nat
      BY <1>3, LenProperties
    <2>6. Len(d) \in 0..2
      <3>1. Len(d) <= m /\ m <= 2
        BY <1>3, <1>5, <2>1
      <3>2. \A l \in Nat : l <= m => l \in 0..2
        BY <3>1
      <3> HIDE DEF d
      <3> QED BY ONLY <2>5, <3>1, <3>2, Zenon
    <2> QED BY <1>3, <2>4, <2>6 DEF d, c, u
  <1> QED BY <1>4, <1>5

LEMMA PrefixType ==
    ASSUME NEW S, NEW s \in Seq(S), NEW m \in 0..Len(s)
    PROVE  /\ SubSeq(s, 1, m) \in Seq(S)
           /\ Len(SubSeq(s, 1, m)) = m
           /\ \A i \in 1..m : SubSeq(s, 1, m)[i] = s[i]
  <1>1. Len(s) \in Nat
    BY LenProperties
  <1>2. \A i \in 1..m : i \in 1..Len(s)
    BY <1>1
  <1>3. \A i \in 1..m : s[i] \in S
    BY <1>2, ElementOfSeq
  <1>4. 1 \in Int /\ m \in Int /\ m - 1 + 1 = m /\ (IF 1 <= m THEN m - 1 + 1 ELSE 0) = m
    BY <1>1
  <1>5. /\ SubSeq(s, 1, m) \in Seq(S)
        /\ Len(SubSeq(s, 1, m)) = IF 1 <= m THEN m - 1 + 1 ELSE 0
        /\ \A i \in 1..m - 1 + 1 : SubSeq(s, 1, m)[i] = s[1 + i - 1]
    BY <1>3, <1>4, SubSeqProperties
  <1>6. \A i \in 1..m : 1 + i - 1 = i
    BY <1>1
  <1> QED BY <1>4, <1>5, <1>6

LEMMA PrefixOfConcat ==
    ASSUME NEW S, NEW p \in Seq(S), NEW r \in Seq(S), NEW m \in 0..Len(r)
    PROVE  SubSeq(p \o r, 1, Len(p) + m) = p \o SubSeq(r, 1, m)
  <1> DEFINE s == p \o r
             n == Len(p) + m
             c == SubSeq(r, 1, m)
  <1>1. Len(p) \in Nat /\ Len(r) \in Nat
    BY LenProperties
  <1>2. s \in Seq(S) /\ Len(s) = Len(p) + Len(r)
    BY ConcatProperties
  <1>3. n \in 0..Len(s)
    BY <1>1, <1>2
  <1>4. /\ SubSeq(s, 1, n) \in Seq(S)
        /\ Len(SubSeq(s, 1, n)) = n
        /\ \A i \in 1..n : SubSeq(s, 1, n)[i] = s[i]
    BY <1>2, <1>3, PrefixType
  <1>5. c \in Seq(S) /\ Len(c) = m /\ \A i \in 1..m : c[i] = r[i]
    BY PrefixType
  <1> HIDE DEF c
  <1>6. p \o c \in Seq(S) /\ Len(p \o c) = n
    BY <1>5, ConcatProperties
  <1>7. ASSUME NEW i \in 1..n PROVE s[i] = (p \o c)[i]
    <2>1. i \in 1..Len(p) + Len(r) /\ i \in 1..Len(p) + Len(c)
      BY <1>1, <1>5
    <2>2. s[i] = IF i <= Len(p) THEN p[i] ELSE r[i - Len(p)]
      BY <2>1, ConcatProperties
    <2>3. (p \o c)[i] = IF i <= Len(p) THEN p[i] ELSE c[i - Len(p)]
      BY <1>5, <2>1, ConcatProperties
    <2>4. ~(i <= Len(p)) => c[i - Len(p)] = r[i - Len(p)]
      <3>1. ~(i <= Len(p)) => i - Len(p) \in 1..m
        BY <1>1
      <3> QED BY <1>5, <3>1
    <2> HIDE DEF s
    <2> QED BY <2>2, <2>3, <2>4
  <1> HIDE DEF s, n
  <1>8. SubSeq(s, 1, n) = p \o c
    BY <1>4, <1>6, <1>7, SeqEqual
  <1> QED BY <1>8 DEF s, n, c

\* d is the first k octets of t from i on, and at most the first two characters
\* of an escape.
CutFrom(t, i, d, k) ==
    /\ d \in Seq(Octets)
    /\ Len(d) \in k..k + 2
    /\ \A j \in 1..k : d[j] = t[i + j - 1]
    /\ Len(d) > k => d[k + 1] = Percent

LEMMA CutArrives ==
    ASSUME NEW t \in Seq(Octets), NEW m \in 0..Len(EncodeURI(t))
    PROVE  \E k \in 0..Len(t) : CutFrom(t, 1, PercentDecode(SubSeq(EncodeURI(t), 1, m)), k)
  <1> DEFINE n == Len(t) + 1
             E == EncodedFrom(t)
             Q(i) == \A l \in 0..Len(E[i]) :
                         \E k \in 0..n - i : CutFrom(t, i, PercentDecode(SubSeq(E[i], 1, l)), k)
             T == {i \in 1..n : Q(i)}
  <1>1. Len(t) \in Nat /\ n \in Nat
    BY LenProperties
  <1>2. ASSUME NEW i \in 1..n, \A j \in i + 1..n : Q(j) PROVE Q(i)
    <2>1. CASE i = n
      <3> SUFFICES ASSUME NEW l \in 0..Len(E[i])
                   PROVE  \E k \in 0..n - i : CutFrom(t, i, PercentDecode(SubSeq(E[i], 1, l)), k)
        OBVIOUS
      <3>1. E[i] = <<>>
        BY <2>1, EncodedStep
      <3>2. SubSeq(E[i], 1, l) = <<>>
        <4>1. l = 0
          BY <3>1
        <4>2. 1 \in Int /\ 0 \in Int /\ 0 < 1
          OBVIOUS
        <4> QED BY <4>1, <4>2, SubSeqEmpty
      <3>3. PercentDecode(<<>>) = <<>>
        <4>1. <<>> \in Seq(Octets) /\ Len(<<>>) = 0 /\ 1 \in Len(<<>>) + 1..Len(<<>>) + 3
          OBVIOUS
        <4> QED BY <4>1, DecodedStep DEF PercentDecode
      <3>4. CutFrom(t, i, <<>>, 0)
        BY DEF CutFrom
      <3>5. 0 \in 0..n - i
        BY <1>1, <2>1
      <3> QED BY <3>2, <3>3, <3>4, <3>5
    <2>2. CASE i # n
      <3> DEFINE e == Encoded(t[i])
                 r == E[i + 1]
      <3>1. i \in 1..Len(t) /\ i + 1 \in i + 1..n /\ i + 1 \in 1..n
        BY <1>1, <2>2
      <3>2. t[i] \in Octets
        BY <3>1, ElementOfSeq
      <3>3. e \in Seq(Octets) /\ r \in Seq(Octets) /\ Len(e) \in Nat /\ Len(r) \in Nat
        <4>1. e \in Seq(Octets) /\ r \in Seq(Octets)
          BY <3>1, <3>2, EncodedType, EncodedAscii, AsciiOctets
        <4> QED BY <4>1, LenProperties
      <3>4. E[i] = e \o r
        BY <3>1, EncodedStep
      <3>5. Len(E[i]) = Len(e) + Len(r)
        BY <3>3, <3>4, ConcatProperties
      <3> HIDE DEF E, e, r
      <3> SUFFICES ASSUME NEW l \in 0..Len(e) + Len(r)
                   PROVE  \E k \in 0..n - i : CutFrom(t, i, PercentDecode(SubSeq(e \o r, 1, l)), k)
        BY <3>4, <3>5
      <3>6. CASE l < Len(e)
        <4> DEFINE d == PercentDecode(SubSeq(e, 1, l))
        <4>1. SubSeq(e \o r, 1, l) = SubSeq(e, 1, l)
          <5>1. CASE l = 0
            <6>1. 1 \in Int /\ l \in Int /\ l < 1
              BY <5>1
            <6> QED BY <6>1, SubSeqEmpty
          <5>2. CASE l # 0
            <6>1. 1 \in 1..Len(e) /\ l \in 1..Len(e)
              BY <3>3, <3>6, <5>2
            <6> QED BY <3>3, <6>1, SubSeqOfConcat1
          <5> QED BY <5>1, <5>2
        <4>2. d \in Seq(Octets) /\ Len(d) \in 0..2 /\ (Len(d) > 0 => d[1] = Percent)
          <5>1. l \in Nat
            BY <3>3
          <5> QED BY <3>2, <3>6, <5>1, CutOctet DEF e
        <4> HIDE DEF d
        <4>3. CutFrom(t, i, d, 0)
          BY <4>2 DEF CutFrom
        <4>4. 0 \in 0..n - i
          BY <1>1
        <4> QED BY <4>1, <4>3, <4>4 DEF d
      <3>7. CASE l >= Len(e)
        <4> DEFINE h == l - Len(e)
                   g == PercentDecode(SubSeq(r, 1, h))
                   d == PercentDecode(SubSeq(e \o r, 1, l))
        <4>1. h \in 0..Len(r) /\ l = Len(e) + h
          BY <3>3, <3>7
        <4>2. PICK k \in 0..n - (i + 1) : CutFrom(t, i + 1, g, k)
          <5>1. Q(i + 1)
            BY <1>2, <3>1
          <5> HIDE DEF h
          <5> QED BY <4>1, <5>1 DEF r
        <4>3. d = <<t[i]>> \o g
          <5> HIDE DEF h
          <5>1. SubSeq(e \o r, 1, l) = e \o SubSeq(r, 1, h)
            BY <3>3, <4>1, PrefixOfConcat
          <5>2. SubSeq(r, 1, h) \in Seq(Octets)
            BY <3>3, <4>1, PrefixType
          <5> QED BY <3>2, <5>1, <5>2, OctetArrives DEF e
        <4> HIDE DEF d, g, h
        <4>4. g \in Seq(Octets) /\ Len(g) \in k..k + 2 /\ (Len(g) > k => g[k + 1] = Percent)
          BY <4>2 DEF CutFrom
        <4>5. \A j \in 1..k : g[j] = t[(i + 1) + j - 1]
          BY <4>2 DEF CutFrom
        <4>6. <<t[i]>> \in Seq(Octets) /\ Len(<<t[i]>>) = 1 /\ <<t[i]>>[1] = t[i]
          BY <3>2
        <4>7. d \in Seq(Octets) /\ Len(d) = 1 + Len(g)
          BY <4>3, <4>4, <4>6, ConcatProperties
        <4>8. d[1] = t[i] /\ \A j \in 1..Len(g) : d[j + 1] = g[j]
          <5>1. \A j \in 1..1 + Len(g) : d[j] = IF j <= 1 THEN <<t[i]>>[j] ELSE g[j - 1]
            BY <4>3, <4>4, <4>6, ConcatProperties
          <5>2. 1 \in 1..1 + Len(g)
            BY <4>4
          <5>3. \A j \in 1..Len(g) : j + 1 \in 1..1 + Len(g) /\ ~(j + 1 <= 1) /\ (j + 1) - 1 = j
            BY <4>4
          <5>4. d[1] = <<t[i]>>[1]
            BY <5>1, <5>2
          <5>5. ASSUME NEW j \in 1..Len(g) PROVE d[j + 1] = g[j]
            <6>1. d[j + 1] = g[(j + 1) - 1]
              BY ONLY <5>1, <5>3, <5>5, Zenon
            <6> QED BY ONLY <5>3, <5>5, <6>1, Zenon
          <5> QED BY <4>6, <5>4, <5>5
        <4>9. CutFrom(t, i, d, k + 1)
          <5>1. Len(d) \in k + 1..k + 1 + 2
            BY <4>4, <4>7
          <5>2. ASSUME NEW j \in 1..k + 1 PROVE d[j] = t[i + j - 1]
            <6>1. CASE j = 1
              <7>1. i + 1 - 1 = i
                BY <1>1
              <7> QED BY <4>8, <6>1, <7>1
            <6>2. CASE j # 1
              <7>1. /\ j - 1 \in 1..k /\ j - 1 \in 1..Len(g)
                    /\ (j - 1) + 1 = j /\ (i + 1) + (j - 1) - 1 = i + j - 1
                BY <1>1, <4>4, <6>2
              <7>2. d[(j - 1) + 1] = g[j - 1]
                BY <4>8, <7>1
              <7>3. g[j - 1] = t[(i + 1) + (j - 1) - 1]
                BY <4>5, <7>1
              <7> QED BY <7>1, <7>2, <7>3
            <6> QED BY <6>1, <6>2
          <5>3. Len(d) > k + 1 => d[(k + 1) + 1] = Percent
            <6>1. Len(d) > k + 1 => Len(g) > k /\ k + 1 \in 1..Len(g)
              BY <4>4, <4>7
            <6> QED BY <4>4, <4>8, <6>1
          <5> QED BY <4>7, <5>1, <5>2, <5>3 DEF CutFrom
        <4>10. k + 1 \in 0..n - i
          BY <1>1
        <4> QED BY <4>9, <4>10 DEF d
      <3> QED BY <3>3, <3>6, <3>7
    <2> QED BY <2>1, <2>2
  <1>3. Q(1)
    <2> HIDE DEF Q, n
    <2>1. \A i \in 1..n : (\A j \in i + 1..n : j \in T) => i \in T
      BY <1>2
    <2>2. n \in Nat /\ 1 \in 1..n
      BY <1>1 DEF n
    <2> HIDE DEF T
    <2>3. 1 \in T
      BY <2>1, <2>2, InductFromTheEnd
    <2> QED BY <2>3 DEF T
  <1>4. n - 1 = Len(t)
    BY <1>1
  <1> QED BY <1>3, <1>4 DEF EncodeURI

-----------------------------------------------------------------------------
(* A text that nothing has encoded *)

LEMMA PlainTextArrives ==
    ASSUME NEW s \in Seq(Octets), \A i \in 1..Len(s) : ~EscapeAt(s, i)
    PROVE  PercentDecode(s) = s
  <1> DEFINE n == Len(s) + 1
             T == {i \in 1..n : DecodedFrom(s)[i] = SubSeq(s, i, Len(s))}
  <1>1. Len(s) \in Nat /\ n \in Nat
    BY LenProperties
  <1>2. ASSUME NEW i \in 1..n, \A j \in i + 1..n : j \in T PROVE i \in T
    <2>1. CASE i = n
      <3>1. i \in Len(s) + 1..Len(s) + 3 /\ i \in Int /\ Len(s) \in Int /\ Len(s) < i
        BY <1>1, <2>1
      <3>2. DecodedFrom(s)[i] = <<>>
        BY <3>1, DecodedStep
      <3>3. SubSeq(s, i, Len(s)) = <<>>
        BY <3>1, SubSeqEmpty
      <3> QED BY <3>2, <3>3
    <2>2. CASE i # n
      <3>1. i \in 1..Len(s) /\ i + 1 \in i + 1..n /\ Len(s) \in i..Len(s)
        BY <1>1, <2>2
      <3>2. DecodedFrom(s)[i] = <<s[i]>> \o DecodedFrom(s)[i + 1]
        BY <3>1, DecodedStep
      <3>3. DecodedFrom(s)[i + 1] = SubSeq(s, i + 1, Len(s))
        BY <1>2, <3>1
      <3>4. SubSeq(s, i, Len(s)) = <<s[i]>> \o SubSeq(s, i + 1, Len(s))
        BY <3>1, SubSeqRecursiveFirst
      <3> QED BY <3>2, <3>3, <3>4
    <2> QED BY <2>1, <2>2
  <1>3. 1 \in T
    <2>1. 1 \in 1..n
      BY <1>1
    <2> HIDE DEF T, n
    <2> QED BY <1>1, <1>2, <2>1, InductFromTheEnd
  <1> QED BY <1>3, SubSeqFull DEF PercentDecode

LEMMA PercentDecodeType ==
    ASSUME NEW s \in Seq(Octets)
    PROVE  PercentDecode(s) \in Seq(Octets) /\ Len(PercentDecode(s)) <= Len(s)
  <1>1. Len(s) \in Nat /\ 1 \in 1..Len(s) + 3 /\ Len(s) + 1 - 1 = Len(s)
    BY LenProperties
  <1>2. PercentDecode(s) \in Seq(Octets) /\ (1 <= Len(s) => Len(PercentDecode(s)) <= Len(s))
    BY <1>1, DecodedType DEF PercentDecode
  <1>3. Len(s) = 0 => PercentDecode(s) = <<>>
    <2>1. Len(s) = 0 => 1 \in Len(s) + 1..Len(s) + 3
      BY <1>1
    <2> QED BY <2>1, DecodedStep DEF PercentDecode
  <1>4. Len(s) = 0 => Len(PercentDecode(s)) = 0
    BY <1>3
  <1> HIDE DEF PercentDecode
  <1> QED BY <1>1, <1>2, <1>4

LEMMA ArgumentType ==
    ASSUME NEW s \in Seq(Octets)
    PROVE  /\ Argument(s).text = PercentDecode(s)
           /\ Argument(s).class \in {"bad_raw", "bad_text", "nul", "text"}
           /\ Argument(s).class # "bad_raw" <=> Utf8(s)
           /\ Utf8(s) /\ Utf8(PercentDecode(s)) =>
                  Argument(s).class = IF HasNul(PercentDecode(s)) THEN "nul" ELSE "text"
  <1> DEFINE text == PercentDecode(s)
  <1>1. Argument(s).text = text
    BY DEF Argument
  <1>2. CASE ~Utf8(s)
    <2>1. Argument(s).class = "bad_raw"
      BY <1>2 DEF Argument
    <2> QED BY <1>1, <1>2, <2>1
  <1>3. CASE Utf8(s) /\ ~Utf8(text)
    <2>1. Argument(s).class = "bad_text"
      BY <1>3 DEF Argument
    <2> QED BY <1>1, <1>3, <2>1
  <1>4. CASE Utf8(s) /\ Utf8(text)
    <2>1. Argument(s).class = IF HasNul(text) THEN "nul" ELSE "text"
      BY <1>4 DEF Argument, HasNul
    <2> QED BY <1>1, <1>4, <2>1
  <1> QED BY <1>2, <1>3, <1>4

-----------------------------------------------------------------------------
(* The reading of the body *)

\* What is read is a prefix of the body, however it is cut into reads; what a
\* handler looks at is the whole of it.
BodyInv ==
    /\ state # "typing" /\ client = "js" => Utf8(sent)
    /\ state = "typing" => buf = <<>>
    /\ Len(buf) <= Len(Body)
    /\ buf = SubSeq(Body, 1, Len(buf))
    /\ state # "read" => arg = NoArgument
    /\ state = "read" => buf = Body /\ arg = Argument(Body)

Inv == TypeOK /\ BodyInv

LEMMA WireType ==
    ASSUME NEW c, NEW text \in Seq(Octets)
    PROVE  /\ Wire(c, text) \in Seq(Octets)
           /\ c = "js" => Wire(c, text) \in Seq(Ascii)
  <1>1. EncodeURI(text) \in Seq(Ascii) /\ EncodeURI(text) \in Seq(Octets)
    <2>1. 1 \in 1..Len(text) + 1
      BY LenProperties
    <2> QED BY <2>1, EncodedAscii, AsciiOctets DEF EncodeURI
  <1> QED BY <1>1 DEF Wire

LEMMA SentType ==
    ASSUME TypeOK
    PROVE  /\ sent \in Seq(Octets)
           /\ Wire(client, sent) \in Seq(Octets)
           /\ client = "js" => Wire(client, sent) \in Seq(Ascii)
  <1>1. sent \in Seq(Octets)
    <2>1. Bytes \subseteq Octets
      BY BodyAssumption DEF Octets
    <2> QED BY <2>1, SeqMonotonic DEF TypeOK
  <1> QED BY <1>1, WireType

LEMMA TakeIsPrefix ==
    ASSUME NEW S, NEW s \in Seq(S), NEW n \in Nat
    PROVE  \E m \in 0..Len(s) : /\ Take(s, n) = SubSeq(s, 1, m)
                                /\ Len(s) <= n => m = Len(s)
  <1> DEFINE m == IF Len(s) < n THEN Len(s) ELSE n
  <1>1. Len(s) \in Nat
    BY LenProperties
  <1>2. m \in 0..Len(s) /\ (Len(s) <= n => m = Len(s))
    BY <1>1
  <1>3. Take(s, n) = SubSeq(s, 1, m)
    BY DEF Take
  <1> HIDE DEF m
  <1> QED BY <1>2, <1>3

\* The body is as it was sent, up to LIMIT.
LEMMA BodyType ==
    ASSUME TypeOK
    PROVE  /\ Body \in Seq(Octets) /\ Len(Body) \in Nat
           /\ client = "js" => Body \in Seq(Ascii)
           /\ Whole => Body = Wire(client, sent)
           /\ \E m \in 0..Len(Wire(client, sent)) : Body = SubSeq(Wire(client, sent), 1, m)
  <1> DEFINE w == Wire(client, sent)
  <1>1. w \in Seq(Octets) /\ (client = "js" => w \in Seq(Ascii)) /\ Len(w) \in Nat
    BY SentType, LenProperties
  <1> HIDE DEF w
  <1>2. PICK m \in 0..Len(w) : /\ Body = SubSeq(w, 1, m)
                               /\ Len(w) <= Limit => m = Len(w)
    <2>1. Body = Take(w, Limit) /\ Limit \in Nat
      BY BodyAssumption DEF Body, w
    <2>2. \E l \in 0..Len(w) : /\ Take(w, Limit) = SubSeq(w, 1, l)
                               /\ Len(w) <= Limit => l = Len(w)
      BY <1>1, <2>1, TakeIsPrefix
    <2> QED BY ONLY <2>1, <2>2, Zenon
  <1>3. Body \in Seq(Octets) /\ (client = "js" => Body \in Seq(Ascii))
    BY <1>1, <1>2, PrefixType
  <1>4. Whole => Body = w
    <2>1. Whole => m = Len(w)
      BY <1>1, <1>2, BodyAssumption DEF Whole, w
    <2> QED BY <1>1, <1>2, <2>1, SubSeqFull
  <1>5. Len(Body) \in Nat
    BY <1>3, LenProperties
  <1> QED BY <1>2, <1>3, <1>4, <1>5 DEF w

LEMMA BodyInit == Init => Inv
  <1> SUFFICES ASSUME Init PROVE Inv
    OBVIOUS
  <1>1. TypeOK
    BY DEF Init, TypeOK, NoArgument
  <1>2. buf = <<>> /\ Len(buf) = 0 /\ state = "typing" /\ arg = NoArgument
    BY DEF Init
  <1>3. SubSeq(Body, 1, 0) = <<>>
    <2>1. 1 \in Int /\ 0 \in Int /\ 0 < 1
      OBVIOUS
    <2> QED BY <2>1, SubSeqEmpty
  <1>4. 0 <= Len(Body)
    BY <1>1, BodyType
  <1> QED BY <1>1, <1>2, <1>3, <1>4 DEF Inv, BodyInv

LEMMA TypeInv ==
    ASSUME Inv, NEW b \in Bytes, Type(b)
    PROVE  Inv'
  <1>1. TypeOK'
    <2>1. sent' \in Seq(Bytes)
      BY AppendProperties DEF Inv, TypeOK, Type
    <2> QED BY <2>1 DEF Inv, TypeOK, Type
  <1>2. buf' = <<>> /\ Len(buf') = 0 /\ state' = "typing" /\ arg' = NoArgument
    BY DEF Inv, BodyInv, Type
  <1>3. SubSeq(Body', 1, 0) = <<>>
    <2>1. 1 \in Int /\ 0 \in Int /\ 0 < 1
      OBVIOUS
    <2> QED BY <2>1, SubSeqEmpty
  <1>4. 0 <= Len(Body')
    <2>1. sent' \in Seq(Octets)
      <3>1. Bytes \subseteq Octets
        BY BodyAssumption DEF Octets
      <3> QED BY <1>1, <3>1, SeqMonotonic DEF TypeOK
    <2>2. Wire(client', sent') \in Seq(Octets)
      BY <2>1, WireType
    <2>3. PICK m \in 0..Len(Wire(client', sent')) :
              Take(Wire(client', sent'), Limit) = SubSeq(Wire(client', sent'), 1, m)
      BY <2>2, TakeIsPrefix, BodyAssumption
    <2>4. Body' = SubSeq(Wire(client', sent'), 1, m)
      BY <2>3 DEF Body
    <2>5. Body' \in Seq(Octets)
      BY <2>2, <2>4, PrefixType
    <2> QED BY <2>5, LenProperties
  <1> QED BY <1>1, <1>2, <1>3, <1>4 DEF Inv, BodyInv

LEMMA BodyStep == Inv /\ [Next]_vars => Inv'
  <1> SUFFICES ASSUME Inv, [Next]_vars PROVE Inv'
    OBVIOUS
  <1>0. TypeOK /\ Body \in Seq(Octets) /\ Len(Body) \in Nat /\ Len(buf) \in Nat
    <2>1. TypeOK /\ Len(buf) \in Nat
      BY LenProperties DEF Inv, TypeOK
    <2> QED BY <2>1, BodyType
  <1>1. ASSUME NEW b \in Bytes, Type(b) PROVE Inv'
    BY <1>1, TypeInv
  <1>2. CASE Post
    <2>1. Body' = Body
      BY <1>2 DEF Post, Body
    <2> QED BY <1>2, <2>1 DEF Post, Inv, TypeOK, BodyInv
  <1>3. ASSUME NEW n \in 1..Limit, ReadChunk(n) PROVE Inv'
    <2> DEFINE k == Len(buf)
               c == SubSeq(Body, k + 1, k + n)
    <2>1. Body' = Body /\ n \in Nat \ {0} /\ k + n <= Len(Body)
      BY <1>3, BodyAssumption DEF ReadChunk, Body
    <2>2. buf = SubSeq(Body, 1, k) /\ buf' = buf \o c
      BY <1>3 DEF ReadChunk, Inv, BodyInv
    <2>3. buf' = SubSeq(Body, 1, k + n)
      <3>1. 1 \in 1..Len(Body) + 1 /\ k \in 1 - 1..Len(Body) /\ k + n \in k..Len(Body)
        BY <1>0, <2>1
      <3> HIDE DEF k
      <3>2. SubSeq(Body, 1, k) \o SubSeq(Body, k + 1, k + n) = SubSeq(Body, 1, k + n)
        BY <1>0, <3>1, ConcatAdjacentSubSeq
      <3> QED BY <2>2, <3>2 DEF k
    <2>4. buf' \in Seq(Octets) /\ Len(buf') = k + n
      <3>1. k + n \in 0..Len(Body)
        BY <1>0, <2>1
      <3> HIDE DEF k
      <3> QED BY <1>0, <2>3, <3>1, PrefixType
    <2>5. TypeOK'
      BY <1>3, <2>4 DEF ReadChunk, Inv, TypeOK, Octets
    <2> HIDE DEF k
    <2> QED BY <1>3, <2>1, <2>3, <2>4, <2>5 DEF ReadChunk, Inv, BodyInv
  <1>4. CASE FinishRead
    <2>1. Body' = Body /\ buf' = buf
      BY <1>4 DEF FinishRead, Body
    <2>2. buf = Body
      <3>1. buf = SubSeq(Body, 1, Len(Body))
        BY <1>4 DEF FinishRead, Inv, BodyInv
      <3> QED BY <1>0, <3>1, SubSeqFull
    <2>3. arg' = Argument(Body)
      BY <1>4, <2>2 DEF FinishRead
    <2>4. arg'.text \in Seq(Octets) /\ arg'.class \in {"none", "bad_raw", "bad_text", "nul", "text"}
      BY <1>0, <2>3, ArgumentType, PercentDecodeType
    <2>5. TypeOK'
      BY <1>4, <2>4 DEF FinishRead, Inv, TypeOK, Octets
    <2> QED BY <1>4, <2>1, <2>2, <2>3, <2>5 DEF FinishRead, Inv, BodyInv
  <1>5. CASE Disconnect
    <2>1. Body' = Body
      BY <1>5 DEF Disconnect, Body
    <2> QED BY <1>5, <2>1 DEF Disconnect, Inv, TypeOK, BodyInv
  <1>6. CASE UNCHANGED vars
    <2>1. Body' = Body
      BY <1>6 DEF vars, Body
    <2> QED BY <1>6, <2>1 DEF vars, Inv, TypeOK, BodyInv
  <1> QED BY <1>1, <1>2, <1>3, <1>4, <1>5, <1>6 DEF Next

\* What has been read is a beginning of the body, and what the argument is made of is
\* all of it.
THEOREM BodyInvariant == Spec => []Inv
  BY BodyInit, BodyStep, PTL DEF Spec

-----------------------------------------------------------------------------
(* The theorems *)

\* What the server reads and what it makes of it are octets and one of the
\* verdicts of a handler (StringCopy, the handlers of main.rs).
THEOREM BodyTypeCorrect == Spec => []TypeOK
  <1>1. Inv => TypeOK
    BY DEF Inv
  <1> QED BY BodyInvariant, <1>1, PTL

\* Whatever text a client passes to encodeURI, the guest gets that text, unless
\* the encoded body passes LIMIT; if it holds a NUL, it is refused.
THEOREM TheTextArrives == Spec => []EncodedTextArrives
  <1>1. Inv => EncodedTextArrives
    <2> SUFFICES ASSUME Inv, Read("js"), Whole
                 PROVE  /\ arg.text = sent
                        /\ arg.class = IF HasNul(sent) THEN "nul" ELSE "text"
      BY DEF EncodedTextArrives
    <2>1. TypeOK /\ client = "js" /\ arg = Argument(Body) /\ Utf8(sent)
      BY DEF Inv, BodyInv, Read
    <2>2. sent \in Seq(Octets) /\ Body = EncodeURI(sent) /\ Body \in Seq(Ascii) /\ Body \in Seq(Octets)
      BY <2>1, SentType, BodyType DEF Wire
    <2>3. PercentDecode(Body) = sent
      BY <2>2, TextArrives
    <2>4. Utf8(Body)
      BY <2>2, AsciiIsUtf8
    <2> QED BY <2>1, <2>2, <2>3, <2>4, ArgumentType
  <1> QED BY BodyInvariant, <1>1, PTL

\* Of a text that passes LIMIT the guest gets the beginning, and at most the
\* two octets that are left of an escape the limit split.
THEOREM TheCutIsAPrefix == Spec => []CutTextIsPrefix
  <1>1. Inv => CutTextIsPrefix
    <2> SUFFICES ASSUME Inv, Read("js")
                 PROVE  /\ arg.class # "bad_raw"
                        /\ \E k \in 0..Len(sent) :
                              /\ Take(arg.text, k) = Take(sent, k)
                              /\ Len(arg.text) \in k..k + 2
                              /\ Len(arg.text) > k => arg.text[k + 1] = Percent
      BY DEF CutTextIsPrefix
    <2>1. TypeOK /\ client = "js" /\ arg = Argument(Body)
      BY DEF Inv, BodyInv, Read
    <2>2. sent \in Seq(Octets) /\ Body \in Seq(Ascii) /\ Body \in Seq(Octets)
      BY <2>1, SentType, BodyType
    <2>3. arg.class # "bad_raw"
      BY <2>1, <2>2, AsciiIsUtf8, ArgumentType
    <2>4. PICK m \in 0..Len(EncodeURI(sent)) : Body = SubSeq(EncodeURI(sent), 1, m)
      BY <2>1, BodyType DEF Wire
    <2> DEFINE d == arg.text
    <2>5. PICK k \in 0..Len(sent) : CutFrom(sent, 1, d, k)
      <3>1. d = PercentDecode(Body)
        BY <2>1, <2>2, ArgumentType
      <3> HIDE DEF d
      <3> QED BY <2>2, <2>4, <3>1, CutArrives
    <2>6. /\ d \in Seq(Octets)
          /\ Len(d) \in k..k + 2
          /\ \A j \in 1..k : d[j] = sent[1 + j - 1]
          /\ Len(d) > k => d[k + 1] = Percent
      <3> HIDE DEF d
      <3> QED BY <2>5 DEF CutFrom
    <2> HIDE DEF d
    <2>7. Take(d, k) = Take(sent, k)
      <3>1. Len(d) \in Nat /\ Len(sent) \in Nat /\ k \in 0..Len(d) /\ k \in 0..Len(sent)
        BY <2>2, <2>6, LenProperties
      <3>2. Take(d, k) = SubSeq(d, 1, k) /\ Take(sent, k) = SubSeq(sent, 1, k)
        <4>1. ~(Len(d) < k) /\ ~(Len(sent) < k)
          BY <3>1
        <4> QED BY <4>1 DEF Take
      <3>3. /\ SubSeq(d, 1, k) \in Seq(Octets) /\ Len(SubSeq(d, 1, k)) = k
            /\ \A i \in 1..k : SubSeq(d, 1, k)[i] = d[i]
        BY <2>6, <3>1, PrefixType
      <3>4. /\ SubSeq(sent, 1, k) \in Seq(Octets) /\ Len(SubSeq(sent, 1, k)) = k
            /\ \A i \in 1..k : SubSeq(sent, 1, k)[i] = sent[i]
        BY <2>2, <3>1, PrefixType
      <3>5. \A i \in 1..k : d[i] = sent[i]
        <4>1. \A i \in 1..k : 1 + i - 1 = i
          BY <3>1
        <4> QED BY <2>6, <4>1
      <3>6. SubSeq(d, 1, k) = SubSeq(sent, 1, k)
        BY <3>3, <3>4, <3>5, SeqEqual
      <3> QED BY <3>2, <3>6
    <2> QED BY <2>3, <2>6, <2>7 DEF d
  <1> QED BY BodyInvariant, <1>1, PTL

\* A text sent as it is arrives as it is if it holds no escape, is never made
\* longer, and is refused before decoding exactly if it is no text.
THEOREM TheRawTextArrives == Spec => []RawTextArrives
  <1>1. Inv => RawTextArrives
    <2> SUFFICES ASSUME Inv, Read("lua"), Whole
                 PROVE  /\ arg.class # "bad_raw" <=> Utf8(sent)
                        /\ (\A i \in 1..Len(sent) : ~EscapeAt(sent, i)) => arg.text = sent
                        /\ Len(arg.text) <= Len(sent)
      BY DEF RawTextArrives
    <2>1. TypeOK /\ client = "lua" /\ arg = Argument(Body)
      BY DEF Inv, BodyInv, Read
    <2>2. sent \in Seq(Octets) /\ Body = sent
      BY <2>1, SentType, BodyType DEF Wire
    <2>3. arg.text = PercentDecode(sent) /\ (arg.class # "bad_raw" <=> Utf8(sent))
      BY <2>1, <2>2, ArgumentType
    <2> QED BY <2>2, <2>3, PlainTextArrives, PercentDecodeType
  <1> QED BY BodyInvariant, <1>1, PTL
=============================================================================
