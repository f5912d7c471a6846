--------------------------- MODULE Xml2Json_proofs ---------------------------
(***************************************************************************)
(* Proofs about the converter, for every document: the object of an        *)
(* element has never two members of one name, but where an attribute       *)
(* shares its key, so FindMember finds what the earlier children of a name *)
(* have left; and each top-level node's value is one the rules allow.      *)
(***************************************************************************)
EXTENDS Xml2Json, SequenceTheorems, WellFoundedInduction, TLAPS

Names(members) == {members[i].name : i \in 1..Len(members)}

\* The keys of the children that have become members, and the key of the next.
Placed(f) == {KeyOf(f.node.kids[i]) : i \in 1..f.at - 1}
Key(f) == KeyOf(f.node.kids[f.at])

IsSeq(s) == s \in Seq(Range(s))

IsFrame(f) ==
    /\ f = [node |-> f.node, looping |-> f.looping, at |-> f.at, count |-> f.count, value |-> f.value]
    /\ f.node \in Nodes
    /\ f.looping \in BOOLEAN
    /\ f.value = Obj(f.value.members)
    /\ IsSeq(f.value.members)

\* Of a loop over children: pending is whether the next child is under way.  A key
\* has been counted exactly if it has been placed, the pending child's once more.
LoopInv(f, pending) ==
    /\ ~IsText(f.node)
    /\ f.at \in 1..Len(f.node.kids) + 1
    /\ pending => f.at <= Len(f.node.kids)
    /\ f.count \in [Keys(f.node) -> Nat]
    /\ \A k \in Keys(f.node) :
          IF pending /\ k = Key(f) THEN f.count[k] > 0 /\ (f.count[k] > 1 <=> k \in Placed(f))
          ELSE f.count[k] > 0 <=> k \in Placed(f)

\* The members are the attributes and what was placed, each name once if no
\* attribute shares it.
MembersInv(f) ==
    /\ Names(f.value.members) = AttributeKeys(f.node) \cup Placed(f)
    /\ \A i, j \in 1..Len(f.value.members) :
          f.value.members[i].name = f.value.members[j].name =>
              i = j \/ Shared(f.node, f.value.members[i].name)

FrameInv(f, pending) ==
    /\ IsFrame(f)
    /\ ~f.looping => f = Call(f.node)
    /\ f.looping => LoopInv(f, pending) /\ MembersInv(f)

\* All calls but the innermost wait for a child.
StackInv ==
    /\ IsSeq(stack)
    /\ \A i \in 1..Len(stack) : FrameInv(stack[i], i < Len(stack) \/ result # NoResult)
    /\ \A i \in 1..Len(stack) : i < Len(stack) \/ result # NoResult => stack[i].looping

-----------------------------------------------------------------------------
(* Sequences, of whatever elements *)

LEMMA ElementsAreASeq ==
    ASSUME NEW S, NEW s \in Seq(S)
    PROVE  /\ IsSeq(s)
           /\ Len(s) \in Nat
           /\ DOMAIN s = 1..Len(s)
           /\ Range(s) = {s[i] : i \in 1..Len(s)}
           /\ s = [i \in 1..Len(s) |-> s[i]]
  <1>1. s \in [1..Len(s) -> S] /\ Len(s) \in Nat
    BY LenProperties
  <1>2. s \in [1..Len(s) -> Range(s)]
    BY <1>1 DEF Range
  <1>3. s \in Seq(Range(s))
    BY <1>1, <1>2, SeqDef
  <1> QED BY <1>1, <1>3 DEF IsSeq, Range

LEMMA Appended ==
    ASSUME NEW s, IsSeq(s), NEW e
    PROVE  /\ IsSeq(Append(s, e))
           /\ Len(Append(s, e)) = Len(s) + 1
           /\ \A i \in 1..Len(s) : Append(s, e)[i] = s[i]
           /\ Append(s, e)[Len(s) + 1] = e
  <1> DEFINE S == Range(s) \cup {e}
  <1>1. s \in Seq(S) /\ e \in S
    BY SeqMonotonic DEF IsSeq
  <1> HIDE DEF S
  <1>2. Append(s, e) \in Seq(S)
    BY <1>1, AppendProperties
  <1>3. IsSeq(Append(s, e))
    BY <1>2, ElementsAreASeq
  <1> QED BY <1>1, <1>3, AppendProperties

LEMMA FrontAndLast ==
    ASSUME NEW s, IsSeq(s), s # <<>>
    PROVE  /\ Len(s) \in Nat \ {0}
           /\ Last(s) = s[Len(s)]
           /\ IsSeq(Front(s))
           /\ Len(Front(s)) = Len(s) - 1
           /\ \A i \in 1..Len(s) - 1 : Front(s)[i] = s[i]
  <1>1. Len(s) \in Nat \ {0}
    BY EmptySeq, LenProperties DEF IsSeq
  <1>2. Last(s) = s[Len(s)]
    BY DEF Last
  <1>3. \A i \in 1..Len(s) - 1 : s[i] \in Range(s)
    BY <1>1, ElementOfSeq DEF IsSeq
  <1>4. /\ Front(s) \in Seq(Range(s))
        /\ Len(Front(s)) = Len(s) - 1
        /\ \A i \in 1..Len(s) - 1 : Front(s)[i] = s[i]
    <2> DEFINE n == Len(s) - 1
    <2>1. n \in Nat
      BY <1>1
    <2>2. \A i \in 1..n : s[i] \in Range(s)
      BY <1>3
    <2> HIDE DEF n
    <2>3. /\ SubSeq(s, 1, n) \in Seq(Range(s))
          /\ Len(SubSeq(s, 1, n)) = IF 1 <= n THEN n - 1 + 1 ELSE 0
          /\ \A i \in 1..n - 1 + 1 : SubSeq(s, 1, n)[i] = s[1 + i - 1]
      BY <2>1, <2>2, SubSeqProperties
    <2>4. Len(SubSeq(s, 1, n)) = n /\ \A i \in 1..n : SubSeq(s, 1, n)[i] = s[i]
      BY <2>1, <2>3
    <2> QED BY <2>3, <2>4 DEF Front, n
  <1> QED BY <1>1, <1>2, <1>4, ElementsAreASeq

LEMMA LastReplaced ==
    ASSUME NEW s, IsSeq(s), s # <<>>, NEW e
    PROVE  LET t == Append(Front(s), e)
           IN  /\ IsSeq(t)
               /\ Len(t) = Len(s)
               /\ \A i \in 1..Len(s) - 1 : t[i] = s[i]
               /\ t[Len(s)] = e
  BY FrontAndLast, Appended

-----------------------------------------------------------------------------
(* The members of an object *)

LEMMA MinIsAMember ==
    ASSUME NEW S \in SUBSET Nat, S # {}
    PROVE  Min(S) \in S
  <1>1. PICK m \in S : \A k \in S : ~(<<k, m>> \in OpToRel(<, Nat))
    BY NatLessThanWellFounded, WFMin
  <1>2. \A k \in S : m =< k
    <2> SUFFICES ASSUME NEW k \in S, k < m PROVE FALSE
      OBVIOUS
    <2> QED BY <1>1 DEF OpToRel
  <1> QED BY <1>2 DEF Min

LEMMA MemberFound ==
    ASSUME NEW obj, IsSeq(obj.members), NEW name \in Names(obj.members)
    PROVE  /\ FindMember(obj, name) \in 1..Len(obj.members)
           /\ obj.members[FindMember(obj, name)].name = name
  <1> DEFINE I == {i \in 1..Len(obj.members) : obj.members[i].name = name}
  <1>1. Len(obj.members) \in Nat
    BY ElementsAreASeq DEF IsSeq
  <1>2. I \in SUBSET Nat /\ I # {}
    BY <1>1 DEF Names
  <1>3. Min(I) \in I
    BY <1>2, MinIsAMember
  <1>4. FindMember(obj, name) = Min(I)
    BY <1>2 DEF FindMember, SelectInSeq
  <1> QED BY <1>3, <1>4

\* xml2json_to_array_form only moves names: the last member's and the one's that goes.
LEMMA ArrayFormSwaps ==
    ASSUME NEW obj, IsSeq(obj.members), NEW name \in Names(obj.members), NEW chd
    PROVE  LET n == Len(obj.members)
               m == FindMember(obj, name)
               t == ToArrayForm(obj, name, chd)
           IN  /\ m \in 1..n /\ n \in Nat
               /\ t = Obj(t.members)
               /\ IsSeq(t.members) /\ Len(t.members) = n
               /\ \A i \in 1..n - 1 : t.members[i] = obj.members[IF i = m THEN n ELSE i]
               /\ t.members[n] = Member(name, Grown(obj.members[m].value, chd))
               /\ \A i \in 1..n :
                     t.members[i].name = obj.members[IF i = n THEN m ELSE IF i = m THEN n ELSE i].name
  <1> DEFINE s == obj.members
             n == Len(s)
             m == FindMember(obj, name)
             r == [s EXCEPT ![m] = Last(s)]
             new == Member(name, Grown(s[m].value, chd))
  <1>1. n \in Nat /\ m \in 1..n /\ s[m].name = name
    BY MemberFound, ElementsAreASeq DEF IsSeq
  <1>2. Last(s) = s[n] /\ s[n] \in Range(s)
    BY <1>1, ElementOfSeq DEF IsSeq, Last
  <1>3. /\ IsSeq(r)
        /\ Len(r) = n
        /\ \A i \in 1..n : r[i] = IF i = m THEN s[n] ELSE s[i]
    <2>1. /\ r \in Seq(Range(s))
          /\ Len(r) = n
          /\ \A i \in 1..n : r[i] = IF i = m THEN s[n] ELSE s[i]
      BY <1>1, <1>2, ExceptSeq DEF IsSeq
    <2> QED BY <2>1, ElementsAreASeq
  <1> HIDE DEF r
  <1>4. r # <<>>
    BY <1>1, <1>3, EmptySeq
  <1>5. /\ IsSeq(Append(Front(r), new))
        /\ Len(Append(Front(r), new)) = n
        /\ \A i \in 1..n - 1 : Append(Front(r), new)[i] = r[i]
        /\ Append(Front(r), new)[n] = new
    BY <1>3, <1>4, LastReplaced
  <1>6. RemoveMember(obj, name) = Obj(Front(r))
    BY DEF RemoveMember, r
  <1>7. ToArrayForm(obj, name, chd) = Obj(Append(Front(r), new))
    BY <1>6 DEF ToArrayForm, AddMember, Obj
  <1> DEFINE t == Append(Front(r), new)
  <1>8. new.name = name
    BY DEF Member
  <1> HIDE DEF new
  <1>9. /\ \A i \in 1..n - 1 : t[i] = s[IF i = m THEN n ELSE i]
         /\ t[n] = new
    <2>1. \A i \in 1..n - 1 : i \in 1..n
      BY <1>1
    <2> QED BY <1>3, <1>5, <2>1
  <1>10. ASSUME NEW i \in 1..n
        PROVE  t[i].name = s[IF i = n THEN m ELSE IF i = m THEN n ELSE i].name
    <2>1. CASE i = n
      BY <1>1, <1>5, <1>8, <2>1
    <2>2. CASE i # n
      <3>1. i \in 1..n - 1
        BY <1>1, <2>2
      <3>2. t[i] = IF i = m THEN s[n] ELSE s[i]
        BY <1>3, <1>5, <3>1
      <3> QED BY <2>2, <3>2
    <2> QED BY <2>1, <2>2
  <1> HIDE DEF t
  <1>11. /\ Obj(t).members = t
         /\ Obj(t) = Obj(Obj(t).members)
    BY DEF Obj
  <1> QED BY <1>1, <1>5, <1>7, <1>9, <1>10, <1>11 DEF t, new

-----------------------------------------------------------------------------
(* Nodes and their keys *)

LEMMA NodeType ==
    ASSUME NEW n \in Nodes, ~IsText(n)
    PROVE  /\ Len(n.kids) \in Nat
           /\ \A i \in 1..Len(n.kids) : n.kids[i] \in Nodes
           /\ n.attrs \in Seq(Range(n.attrs)) /\ Len(n.attrs) \in Nat
           /\ \A i \in 1..Len(n.attrs) : IsSeq(n.attrs[i].name)
  <1>1. /\ n.kids \in Seq(Nodes) /\ n.attrs \in Seq(Range(n.attrs))
        /\ \A a \in Range(n.attrs) : IsSeq(a.name)
    BY DocsAssumption DEF IsSeq
  <1>2. \A i \in 1..Len(n.attrs) : n.attrs[i] \in Range(n.attrs)
    BY <1>1, ElementOfSeq
  <1> QED BY <1>1, <1>2, LenProperties, ElementOfSeq

\* The key of an attribute begins with "@", and the name follows.
LEMMA AttributeKeyForm ==
    ASSUME NEW name, IsSeq(name)
    PROVE  /\ AttributeKey(name) # TextKey
           /\ \A other : IsSeq(other) /\ AttributeKey(name) = AttributeKey(other) => name = other
  <1> DEFINE c == "@"
             at == <<c>>
  <1>1. ASSUME NEW s, IsSeq(s)
        PROVE  /\ Len(at \o s) = 1 + Len(s) /\ (at \o s)[1] = c
               /\ Len(s) \in Nat /\ s = [i \in 1..Len(s) |-> s[i]]
               /\ \A i \in 1..Len(s) : (at \o s)[1 + i] = s[i]
    <2> HIDE DEF c
    <2> DEFINE S == Range(s) \cup {c}
    <2>1. s \in Seq(S) /\ c \in S
      BY <1>1, SeqMonotonic DEF IsSeq
    <2> HIDE DEF S
    <2>2. at \in Seq(S) /\ Len(at) = 1 /\ at[1] = c
      BY <2>1
    <2> HIDE DEF at
    <2>3. /\ Len(at \o s) = Len(at) + Len(s) /\ Len(s) \in Nat
          /\ \A i \in 1..Len(at) + Len(s) :
                (at \o s)[i] = IF i <= Len(at) THEN at[i] ELSE s[i - Len(at)]
      BY <2>1, <2>2, ConcatProperties, LenProperties
    <2>4. /\ 1 \in 1..1 + Len(s)
          /\ \A i \in 1..Len(s) : 1 + i \in 1..1 + Len(s) /\ ~(1 + i <= 1) /\ (1 + i) - 1 = i
      BY <2>3
    <2>5. s = [i \in 1..Len(s) |-> s[i]]
      BY <2>1, ElementsAreASeq
    <2> QED BY <2>2, <2>3, <2>4, <2>5
  <1>2. AttributeKey(name) # TextKey
    <2>1. TextKey[1] = "#text" /\ "#text" # "@"
      BY DEF TextKey
    <2> HIDE DEF at
    <2> QED BY <1>1, <2>1 DEF AttributeKey, at
  <1>3. ASSUME NEW other, IsSeq(other), at \o name = at \o other
        PROVE  name = other
    <2> HIDE DEF at
    <2>1. Len(name) = Len(other)
      BY <1>1, <1>3
    <2>2. \A i \in 1..Len(name) : name[i] = other[i]
      BY <1>1, <1>3, <2>1
    <2>3. name = [i \in 1..Len(name) |-> name[i]] /\ other = [i \in 1..Len(other) |-> other[i]]
      BY <1>1, <1>3
    <2> QED BY <2>1, <2>2, <2>3
  <1> QED BY <1>2, <1>3 DEF AttributeKey

LEMMA NoAttributeIsText ==
    ASSUME NEW n \in Nodes, ~IsText(n)
    PROVE  TextKey \notin AttributeKeys(n)
  BY NodeType, AttributeKeyForm DEF AttributeKeys

-----------------------------------------------------------------------------
(* A call, from its start to its end *)

LEMMA CallFrame ==
    ASSUME NEW n \in Nodes
    PROVE  FrameInv(Call(n), FALSE) /\ ~Call(n).looping
  <1>1. Call(n).node = n /\ ~Call(n).looping /\ Call(n).value = Obj(<<>>)
    BY DEF Call
  <1>2. Obj(<<>>) = Obj(Obj(<<>>).members) /\ Obj(<<>>).members = <<>>
    BY DEF Obj
  <1>3. IsSeq(<<>>)
    BY EmptySeq DEF IsSeq
  <1>4. IsFrame(Call(n))
    BY <1>1, <1>2, <1>3 DEF IsFrame, Call
  <1> QED BY <1>1, <1>4 DEF FrameInv

LEMMA AttributesFollow ==
    ASSUME NEW n \in Nodes, ~IsText(n), NEW s, IsSeq(s)
    PROVE  LET members == AddAttributes(n, Obj(s)).members
           IN  /\ AddAttributes(n, Obj(s)) = Obj(members)
               /\ IsSeq(members)
               /\ Len(s) \in Nat /\ Len(members) = Len(s) + Len(n.attrs)
               /\ \A i \in 1..Len(s) : members[i] = s[i]
               /\ \A i \in 1..Len(n.attrs) :
                     members[Len(s) + i] = Member(AttributeKey(n.attrs[i].name), Str(n.attrs[i].text))
  <1> DEFINE k == Len(n.attrs)
             a == [i \in 1..k |-> Member(AttributeKey(n.attrs[i].name), Str(n.attrs[i].text))]
             S == Range(a) \cup Range(s)
  <1>1. k \in Nat
    BY NodeType
  <1>2. a \in Seq(S) /\ Len(a) = k
    <2>1. a \in [1..k -> S]
      BY DEF Range
    <2> HIDE DEF a, S
    <2>2. a \in Seq(S)
      BY <1>1, <2>1, SeqDef
    <2>3. DOMAIN a = 1..k /\ DOMAIN a = 1..Len(a) /\ Len(a) \in Nat
      BY <2>1, <2>2, LenProperties
    <2> HIDE DEF k
    <2> QED BY <1>1, <2>2, <2>3
  <1>3. \A i \in 1..k : a[i] = Member(AttributeKey(n.attrs[i].name), Str(n.attrs[i].text))
    OBVIOUS
  <1>4. AddAttributes(n, Obj(s)) = Obj(s \o a)
    BY DEF AddAttributes, Obj
  <1>5. s \in Seq(S)
    BY SeqMonotonic DEF IsSeq
  <1> HIDE DEF a, S, k
  <1>6. /\ s \o a \in Seq(S)
        /\ Len(s \o a) = Len(s) + k
        /\ \A i \in 1..Len(s) + k : (s \o a)[i] = IF i <= Len(s) THEN s[i] ELSE a[i - Len(s)]
    BY <1>2, <1>5, ConcatProperties
  <1>7. Len(s) \in Nat
    BY <1>5, LenProperties
  <1>8. IsSeq(s \o a)
    BY <1>6, ElementsAreASeq
  <1>9. /\ \A i \in 1..Len(s) : (s \o a)[i] = s[i]
        /\ \A i \in 1..k : (s \o a)[Len(s) + i] = a[i]
    <2>1. ASSUME NEW i \in 1..k
          PROVE  Len(s) + i \in 1..Len(s) + k /\ ~(Len(s) + i <= Len(s)) /\ (Len(s) + i) - Len(s) = i
      BY <1>1, <1>7
    <2>2. \A i \in 1..Len(s) : i \in 1..Len(s) + k /\ i <= Len(s)
      BY <1>1, <1>7
    <2> QED BY <1>6, <2>1, <2>2
  <1>10. Obj(s \o a).members = s \o a
    BY DEF Obj
  <1> QED BY <1>3, <1>4, <1>6, <1>7, <1>8, <1>9, <1>10 DEF k

LEMMA AttributesAdded ==
    ASSUME NEW n \in Nodes, ~IsText(n)
    PROVE  LET members == AddAttributes(n, Obj(<<>>)).members
           IN  /\ AddAttributes(n, Obj(<<>>)) = Obj(members)
               /\ IsSeq(members)
               /\ Len(members) = Len(n.attrs)
               /\ \A i \in 1..Len(n.attrs) :
                     members[i] = Member(AttributeKey(n.attrs[i].name), Str(n.attrs[i].text))
  <1> DEFINE s == <<>>
             members == AddAttributes(n, Obj(s)).members
  <1>1. IsSeq(s) /\ Len(s) = 0 /\ Len(n.attrs) \in Nat
    BY EmptySeq, NodeType DEF IsSeq
  <1> HIDE DEF s
  <1>2. /\ AddAttributes(n, Obj(s)) = Obj(members)
        /\ IsSeq(members)
        /\ Len(members) = Len(s) + Len(n.attrs)
        /\ \A i \in 1..Len(n.attrs) :
              members[Len(s) + i] = Member(AttributeKey(n.attrs[i].name), Str(n.attrs[i].text))
    BY <1>1, AttributesFollow
  <1> HIDE DEF members
  <1>3. /\ Len(members) = Len(n.attrs)
        /\ \A i \in 1..Len(n.attrs) :
              members[i] = Member(AttributeKey(n.attrs[i].name), Str(n.attrs[i].text))
    BY <1>1, <1>2
  <1> QED BY <1>2, <1>3 DEF members, s

LEMMA TwoFields ==
    ASSUME NEW f, NEW b, NEW i, NEW v,
           f = [node |-> f.node, looping |-> f.looping, at |-> f.at, count |-> f.count, value |-> f.value]
    PROVE  /\ [f EXCEPT !.looping = b, !.value = v] =
                  [node |-> f.node, looping |-> b, at |-> f.at, count |-> f.count, value |-> v]
           /\ [f EXCEPT !.at = i, !.value = v] =
                  [node |-> f.node, looping |-> f.looping, at |-> i, count |-> f.count, value |-> v]
  <1>1. /\ [f EXCEPT !.looping = b, !.value = v] = [[f EXCEPT !.looping = b] EXCEPT !.value = v]
        /\ [f EXCEPT !.at = i, !.value = v] = [[f EXCEPT !.at = i] EXCEPT !.value = v]
    OBVIOUS
  <1> DEFINE g == [node |-> f.node, looping |-> b, at |-> f.at, count |-> f.count, value |-> f.value]
             h == [node |-> f.node, looping |-> f.looping, at |-> i, count |-> f.count, value |-> f.value]
  <1>2. [f EXCEPT !.looping = b] = g
    OBVIOUS
  <1>3. [f EXCEPT !.at = i] = h
    OBVIOUS
  <1>4. [g EXCEPT !.value = v] = [node |-> f.node, looping |-> b, at |-> f.at, count |-> f.count, value |-> v]
    OBVIOUS
  <1>5. [h EXCEPT !.value = v] = [node |-> f.node, looping |-> f.looping, at |-> i, count |-> f.count, value |-> v]
    OBVIOUS
  <1> HIDE DEF g, h
  <1> QED BY <1>1, <1>2, <1>3, <1>4, <1>5

LEMMA EnterFrame ==
    ASSUME NEW f, FrameInv(f, FALSE), ~f.looping, ~IsText(f.node)
    PROVE  LET g == [f EXCEPT !.looping = TRUE, !.value = AddAttributes(f.node, @)]
           IN  FrameInv(g, FALSE)
  <1> DEFINE g == [f EXCEPT !.looping = TRUE, !.value = AddAttributes(f.node, @)]
             n == f.node
  <1>1. n \in Nodes /\ f = Call(n)
    BY DEF FrameInv, IsFrame
  <1>2. /\ g = [node |-> g.node, looping |-> g.looping, at |-> g.at, count |-> g.count, value |-> g.value]
        /\ g.node = n /\ g.looping /\ g.at = 1 /\ g.count = f.count
        /\ g.value = AddAttributes(n, Obj(<<>>))
    <2>1. f.node = n /\ f.at = 1 /\ f.value = Obj(<<>>)
      BY <1>1 DEF Call
    <2>2. f = [node |-> f.node, looping |-> f.looping, at |-> f.at, count |-> f.count, value |-> f.value]
      BY DEF FrameInv, IsFrame
    <2> DEFINE value == AddAttributes(f.node, f.value)
    <2>3. g = [node |-> f.node, looping |-> TRUE, at |-> f.at, count |-> f.count, value |-> value]
      BY <2>2, TwoFields
    <2> HIDE DEF g
    <2> QED BY <2>1, <2>3
  <1>3. f.count = [k \in Keys(n) |-> 0]
    BY <1>1 DEF Call, Keys
  <1> HIDE DEF g
  <1>4. IsFrame(g)
    BY <1>1, <1>2, AttributesAdded DEF IsFrame
  <1>5. Placed(g) = {}
    BY <1>2 DEF Placed
  <1>6. Len(n.kids) \in Nat
    BY <1>1, NodeType
  <1>7. LoopInv(g, FALSE)
    <2>1. g.at \in 1..Len(n.kids) + 1
      BY <1>2, <1>6
    <2>2. g.count \in [Keys(n) -> Nat]
      BY <1>2, <1>3
    <2>3. \A k \in Keys(n) : g.count[k] > 0 <=> k \in Placed(g)
      BY <1>2, <1>3, <1>5
    <2> QED BY <1>2, <2>1, <2>2, <2>3 DEF LoopInv
  <1>8. MembersInv(g)
    <2> DEFINE s == g.value.members
    <2>1. Len(s) = Len(n.attrs) /\ \A i \in 1..Len(n.attrs) : s[i].name = AttributeKey(n.attrs[i].name)
      <3>1. /\ s = AddAttributes(n, Obj(<<>>)).members
            /\ Len(s) = Len(n.attrs)
            /\ \A i \in 1..Len(n.attrs) : s[i] = Member(AttributeKey(n.attrs[i].name), Str(n.attrs[i].text))
        BY <1>1, <1>2, AttributesAdded
      <3> HIDE DEF s
      <3>2. \A name, value : Member(name, value).name = name
        BY DEF Member
      <3> QED BY <3>1, <3>2
    <2> HIDE DEF s
    <2>2. Names(s) = AttributeKeys(n)
      BY <2>1 DEF Names, AttributeKeys
    <2>3. ASSUME NEW i \in 1..Len(s), NEW j \in 1..Len(s), s[i].name = s[j].name, i # j
          PROVE  Shared(n, s[i].name)
      <3>1. AttributeKey(n.attrs[i].name) = AttributeKey(n.attrs[j].name)
        BY <2>1, <2>3
      <3>2. IsSeq(n.attrs[i].name) /\ IsSeq(n.attrs[j].name)
        BY <1>1, <2>1, NodeType
      <3>3. n.attrs[i].name = n.attrs[j].name
        BY <3>1, <3>2, AttributeKeyForm
      <3> QED BY <2>1, <2>3, <3>3 DEF Shared, Repeats
    <2> QED BY <1>2, <1>5, <2>2, <2>3 DEF MembersInv, s
  <1> QED BY <1>2, <1>4, <1>7, <1>8 DEF FrameInv, g

\* The next child is counted.
LEMMA VisitFrame ==
    ASSUME NEW f, FrameInv(f, FALSE), f.looping, f.at <= Len(f.node.kids)
    PROVE  LET g == [f EXCEPT !.count[Key(f)] = @ + 1]
           IN  FrameInv(g, TRUE) /\ g.looping
  <1> DEFINE g == [f EXCEPT !.count[Key(f)] = @ + 1]
  <1>1. IsFrame(f) /\ LoopInv(f, FALSE) /\ MembersInv(f)
    BY DEF FrameInv
  <1>2. /\ g = [node |-> g.node, looping |-> g.looping, at |-> g.at, count |-> g.count, value |-> g.value]
        /\ g.node = f.node /\ g.looping /\ g.at = f.at /\ g.value = f.value
        /\ g.count = [f.count EXCEPT ![Key(f)] = @ + 1]
    BY <1>1 DEF IsFrame
  <1> HIDE DEF g
  <1>3. IsFrame(g)
    BY <1>1, <1>2 DEF IsFrame
  <1>4. Key(f) \in Keys(f.node)
    <2>1. f.at \in 1..Len(f.node.kids)
      <3>1. f.node \in Nodes /\ ~IsText(f.node)
        BY <1>1 DEF IsFrame, LoopInv
      <3>2. Len(f.node.kids) \in Nat
        BY <3>1, NodeType
      <3> QED BY <1>1, <3>2 DEF LoopInv
    <2> QED BY <2>1 DEF Key, Keys
  <1>5. Placed(g) = Placed(f) /\ Key(g) = Key(f)
    BY <1>2 DEF Placed, Key
  <1>6. LoopInv(g, TRUE)
    <2>1. g.count \in [Keys(f.node) -> Nat]
      BY <1>1, <1>2, <1>4 DEF LoopInv
    <2>2. ASSUME NEW k \in Keys(f.node), k = Key(f)
          PROVE  g.count[k] > 0 /\ (g.count[k] > 1 <=> k \in Placed(f))
      <3>1. f.count[k] \in Nat /\ (f.count[k] > 0 <=> k \in Placed(f)) /\ g.count[k] = f.count[k] + 1
        BY <1>1, <1>2, <2>2 DEF LoopInv
      <3> QED BY <3>1
    <2>3. ASSUME NEW k \in Keys(f.node), k # Key(f)
          PROVE  g.count[k] > 0 <=> k \in Placed(f)
      BY <1>1, <1>2, <2>3 DEF LoopInv
    <2> QED BY <1>1, <1>2, <1>5, <2>1, <2>2, <2>3 DEF LoopInv
  <1>7. MembersInv(g)
    BY <1>1, <1>2, <1>5 DEF MembersInv
  <1> QED BY <1>2, <1>3, <1>6, <1>7 DEF FrameInv, g

\* The first child of a name becomes a member, a further one joins the member that
\* the earlier ones have become: the names gain the child's, and none comes twice.
LEMMA PlaceFrame ==
    ASSUME NEW f, FrameInv(f, TRUE), f.looping, NEW v
    PROVE  LET g == [f EXCEPT
                        !.at = @ + 1,
                        !.value = IF f.count[Key(f)] > 1 THEN ToArrayForm(@, Key(f), v)
                                  ELSE AddMember(@, Key(f), v)]
           IN  FrameInv(g, FALSE) /\ g.looping
  <1> DEFINE value == IF f.count[Key(f)] > 1 THEN ToArrayForm(f.value, Key(f), v)
                      ELSE AddMember(f.value, Key(f), v)
             g == [f EXCEPT !.at = @ + 1, !.value = value]
             s == f.value.members
             t == value.members
  <1>1. IsFrame(f) /\ LoopInv(f, TRUE) /\ MembersInv(f)
    BY DEF FrameInv
  <1>2. /\ g = [node |-> g.node, looping |-> g.looping, at |-> g.at, count |-> g.count, value |-> g.value]
        /\ g.node = f.node /\ g.looping /\ g.at = f.at + 1 /\ g.count = f.count /\ g.value = value
    <2>1. g = [node |-> f.node, looping |-> f.looping, at |-> f.at + 1, count |-> f.count, value |-> value]
      <3> HIDE DEF value
      <3> QED BY <1>1, TwoFields DEF IsFrame
    <2> HIDE DEF value, g
    <2> QED BY <2>1
  <1> HIDE DEF g
  <1>3. /\ f.at \in 1..Len(f.node.kids) /\ Len(f.node.kids) \in Nat
        /\ Key(f) \in Keys(f.node)
    <2>1. f.node \in Nodes /\ ~IsText(f.node)
      BY <1>1 DEF IsFrame, LoopInv
    <2>2. Len(f.node.kids) \in Nat
      BY <2>1, NodeType
    <2>3. f.at \in 1..Len(f.node.kids)
      BY <1>1, <2>2 DEF LoopInv
    <2> QED BY <2>2, <2>3 DEF Key, Keys
  <1>4. Placed(g) = Placed(f) \cup {Key(f)}
    <2>1. 1..g.at - 1 = (1..f.at - 1) \cup {f.at}
      BY <1>2, <1>3
    <2> QED BY <1>2, <2>1 DEF Placed, Key
  <1>5. /\ f.count[Key(f)] \in Nat
        /\ f.count[Key(f)] > 1 <=> Key(f) \in Placed(f)
    BY <1>1, <1>3 DEF LoopInv
  <1>7. LoopInv(g, FALSE)
    <2>1. g.at \in 1..Len(g.node.kids) + 1
      BY <1>2, <1>3
    <2>2. ASSUME NEW k \in Keys(f.node) PROVE f.count[k] > 0 <=> k \in Placed(g)
      BY <1>1, <1>4 DEF LoopInv
    <2> QED BY <1>1, <1>2, <2>1, <2>2 DEF LoopInv
  <1>8. IsSeq(s) /\ f.value = Obj(s) /\ Len(s) \in Nat
    BY <1>1, ElementsAreASeq DEF IsFrame, IsSeq
  <1>9. /\ value = Obj(t) /\ IsSeq(t)
        /\ Names(t) = AttributeKeys(f.node) \cup Placed(f) \cup {Key(f)}
        /\ \A i, j \in 1..Len(t) :
              t[i].name = t[j].name => i = j \/ Shared(f.node, t[i].name)
    <2>1. CASE f.count[Key(f)] > 1
      <3> DEFINE n == Len(s)
                 m == FindMember(f.value, Key(f))
                 from(i) == IF i = n THEN m ELSE IF i = m THEN n ELSE i
      <3>1. Key(f) \in Names(s) /\ Key(f) \in Placed(f)
        BY <1>1, <1>5, <2>1 DEF MembersInv
      <3>2. value = ToArrayForm(f.value, Key(f), v)
        BY <2>1
      <3>3. /\ m \in 1..n /\ value = Obj(t) /\ IsSeq(t) /\ Len(t) = n
            /\ \A i \in 1..n : t[i].name = s[from(i)].name
        <4> DEFINE u == ToArrayForm(f.value, Key(f), v)
        <4>1. /\ m \in 1..n /\ n \in Nat
              /\ u = Obj(u.members)
              /\ IsSeq(u.members) /\ Len(u.members) = n
              /\ \A i \in 1..n : u.members[i].name = s[IF i = n THEN m ELSE IF i = m THEN n ELSE i].name
          <5>1. IsSeq(f.value.members) /\ Key(f) \in Names(f.value.members)
            BY <1>8, <3>1
          <5> DEFINE obj == f.value
                     name == Key(f)
          <5>2. IsSeq(obj.members) /\ name \in Names(obj.members)
            BY <5>1
          <5> HIDE DEF obj, name
          <5>3. /\ FindMember(obj, name) \in 1..Len(obj.members)
                /\ Len(obj.members) \in Nat
                /\ ToArrayForm(obj, name, v) = Obj(ToArrayForm(obj, name, v).members)
                /\ IsSeq(ToArrayForm(obj, name, v).members)
                /\ Len(ToArrayForm(obj, name, v).members) = Len(obj.members)
            BY <5>2, ArrayFormSwaps
          <5>4. \A i \in 1..Len(obj.members) :
                   ToArrayForm(obj, name, v).members[i].name =
                       obj.members[IF i = Len(obj.members) THEN FindMember(obj, name)
                                   ELSE IF i = FindMember(obj, name) THEN Len(obj.members) ELSE i].name
            BY <5>2, ArrayFormSwaps
          <5> QED BY <5>3, <5>4 DEF obj, name
        <4> HIDE DEF value, u, s, n, m
        <4>2. t = u.members
          BY <3>2 DEF u
        <4> QED BY <3>2, <4>1, <4>2 DEF u
      <3> HIDE DEF value, m, n
      <3>4. \A i \in 1..n : from(i) \in 1..n /\ from(from(i)) = i
        BY <1>8, <3>3 DEF n
      <3> HIDE DEF from, t, s
      <3>5. Names(t) = Names(s)
        <4>1. ASSUME NEW i \in 1..n PROVE t[i].name \in Names(s) /\ s[i].name \in Names(t)
          <5>1. t[i].name = s[from(i)].name /\ t[from(i)].name = s[i].name
            BY <3>3, <3>4
          <5> QED BY <3>3, <3>4, <5>1 DEF Names, n
        <4> QED BY <3>3, <4>1 DEF Names, n
      <3>6. ASSUME NEW i \in 1..n, NEW j \in 1..n, t[i].name = t[j].name, i # j
            PROVE  Shared(f.node, t[i].name)
        <4>1. from(i) \in 1..n /\ from(j) \in 1..n /\ from(i) # from(j)
          BY <3>4, <3>6
        <4>2. s[from(i)].name = s[from(j)].name /\ t[i].name = s[from(i)].name
          BY <3>3, <3>6
        <4> QED BY <1>1, <4>1, <4>2 DEF MembersInv, n, s
      <3> QED BY <1>1, <3>1, <3>3, <3>5, <3>6 DEF MembersInv, s
    <2>2. CASE ~(f.count[Key(f)] > 1)
      <3> DEFINE new == Member(Key(f), v)
      <3>1. Key(f) \in Names(s) => Key(f) \in AttributeKeys(f.node) \cap Keys(f.node)
        BY <1>1, <1>3, <1>5, <2>2 DEF MembersInv
      <3>2. value = Obj(Append(s, new))
        BY <2>2 DEF AddMember
      <3>3. t = Append(s, new) /\ value = Obj(t)
        BY <3>2 DEF Obj
      <3>4. new.name = Key(f)
        BY DEF Member
      <3> HIDE DEF value, new
      <3>5. /\ IsSeq(t) /\ Len(t) = Len(s) + 1
            /\ \A i \in 1..Len(s) : t[i] = s[i]
            /\ t[Len(s) + 1] = new
        BY <1>8, <3>3, Appended
      <3> HIDE DEF t, s
      <3>6. 1..Len(t) = (1..Len(s)) \cup {Len(s) + 1}
        BY <1>8, <3>5
      <3>7. Names(t) = Names(s) \cup {Key(f)}
        BY <3>4, <3>5, <3>6 DEF Names
      <3>8. ASSUME NEW i \in 1..Len(t), NEW j \in 1..Len(t), t[i].name = t[j].name, i # j
            PROVE  Shared(f.node, t[i].name)
        <4>1. \A k \in 1..Len(s) : s[k].name = Key(f) => Shared(f.node, Key(f))
          BY <3>1 DEF Names, Shared
        <4>2. CASE i \in 1..Len(s) /\ j \in 1..Len(s)
          BY <1>1, <3>5, <3>8, <4>2 DEF MembersInv, s
        <4>3. CASE ~(i \in 1..Len(s) /\ j \in 1..Len(s))
          BY <3>4, <3>5, <3>6, <3>8, <4>1, <4>3
        <4> QED BY <4>2, <4>3
      <3> QED BY <1>1, <3>3, <3>5, <3>7, <3>8 DEF MembersInv, s
    <2> QED BY <2>1, <2>2
  <1> HIDE DEF value
  <1>10. IsFrame(g)
    BY <1>1, <1>2, <1>9 DEF IsFrame
  <1>11. MembersInv(g)
    BY <1>2, <1>4, <1>9 DEF MembersInv
  <1> QED BY <1>2, <1>7, <1>10, <1>11 DEF FrameInv, g, value

-----------------------------------------------------------------------------
(* The stack of calls *)

LEMMA InnermostCall ==
    ASSUME StackInv, stack # <<>>
    PROVE  /\ Len(stack) \in Nat \ {0}
           /\ Top = stack[Len(stack)]
           /\ FrameInv(Top, result # NoResult)
           /\ result # NoResult => Top.looping
  BY FrontAndLast DEF StackInv, Top

\* A call ends with a value, for which the call around it has waited.
LEMMA StackReturn ==
    ASSUME StackInv, stack # <<>>, NEW value, value # NoResult, Return(value)
    PROVE  StackInv'
  <1>1. stack' = Front(stack) /\ result' # NoResult
    BY DEF Return, NoResult
  <1>2. /\ Len(stack) \in Nat \ {0}
        /\ IsSeq(stack')
        /\ Len(stack') = Len(stack) - 1
        /\ \A i \in 1..Len(stack) - 1 : stack'[i] = stack[i]
    BY <1>1, FrontAndLast DEF StackInv
  <1>3. \A i \in 1..Len(stack') : i \in 1..Len(stack) /\ i < Len(stack)
    BY <1>2
  <1> QED BY <1>1, <1>2, <1>3 DEF StackInv

\* The innermost call goes on.
LEMMA StackGoesOn ==
    ASSUME StackInv, stack # <<>>, NEW f, stack' = Replaced(f),
           result' = NoResult, FrameInv(f, FALSE)
    PROVE  StackInv'
  <1>1. /\ Len(stack) \in Nat \ {0}
        /\ IsSeq(stack')
        /\ Len(stack') = Len(stack)
        /\ \A i \in 1..Len(stack) - 1 : stack'[i] = stack[i]
        /\ stack'[Len(stack)] = f
    BY FrontAndLast, LastReplaced DEF StackInv, Replaced
  <1>2. ASSUME NEW i \in 1..Len(stack')
        PROVE  /\ FrameInv(stack'[i], i < Len(stack'))
               /\ i < Len(stack') => stack'[i].looping
    <2>1. CASE i = Len(stack)
      BY <1>1, <2>1 DEF FrameInv, LoopInv
    <2>2. CASE i # Len(stack)
      <3>1. i \in 1..Len(stack) /\ i < Len(stack) /\ i \in 1..Len(stack) - 1
        BY <1>1, <2>2
      <3> QED BY <1>1, <3>1 DEF StackInv
    <2> QED BY <2>1, <2>2
  <1> QED BY <1>1, <1>2 DEF StackInv

LEMMA StackInit == Init => StackInv
  <1> SUFFICES ASSUME Init PROVE StackInv
    OBVIOUS
  <1>1. IsSeq(<<>>)
    BY EmptySeq DEF IsSeq
  <1> QED BY <1>1 DEF Init, StackInv

\* js_doc has the top-level nodes up to the one whose traversal is under way.
DocInv ==
    /\ doc \in Seq(Nodes)
    /\ js_doc = Obj(js_doc.members)
    /\ IsSeq(js_doc.members)
    /\ At \in 1..Len(doc) + 1
    /\ stack # <<>> \/ result # NoResult => At <= Len(doc)
    /\ \A i \in 1..At - 1 : js_doc.members[i].name = NameOf(doc[i])

LEMMA TopNodeType ==
    ASSUME DocInv, At <= Len(doc)
    PROVE  At \in 1..Len(doc) /\ Len(doc) \in Nat /\ doc[At] \in Nodes
  <1>1. Len(doc) \in Nat
    BY LenProperties DEF DocInv
  <1>2. At \in 1..Len(doc)
    BY <1>1 DEF DocInv
  <1> QED BY <1>1, <1>2, ElementOfSeq DEF DocInv

LEMMA MemberPlaced ==
    ASSUME DocInv, PlaceTop
    PROVE  /\ js_doc' = Obj(js_doc'.members) /\ IsSeq(js_doc'.members)
           /\ At \in 1..Len(doc) /\ At' = At + 1
           /\ \A i \in 1..At - 1 : js_doc'.members[i] = js_doc.members[i]
           /\ js_doc'.members[At].name = NameOf(doc[At])
           /\ js_doc'.members[At].value = result
  <1> DEFINE s == js_doc.members
             m == Member(NameOf(doc[At]), result)
             t == Append(s, m)
  <1>1. IsSeq(s) /\ Len(s) \in Nat
    BY ElementsAreASeq DEF DocInv, IsSeq
  <1>2. m.name = NameOf(doc[At]) /\ m.value = result
    BY DEF Member
  <1>3. js_doc' = Obj(t)
    BY DEF PlaceTop, AddMember
  <1> HIDE DEF m
  <1>4. /\ IsSeq(t) /\ Len(t) = Len(s) + 1
        /\ \A i \in 1..Len(s) : t[i] = s[i]
        /\ t[Len(s) + 1] = m
    BY <1>1, Appended
  <1> HIDE DEF t
  <1>5. js_doc'.members = t /\ js_doc' = Obj(js_doc'.members)
    BY <1>3 DEF Obj
  <1>6. At = Len(s) + 1 /\ At' = Len(t) + 1 /\ At - 1 = Len(s)
    BY <1>1, <1>5 DEF At
  <1>7. At \in 1..Len(doc)
    BY TopNodeType DEF PlaceTop, DocInv
  <1> QED BY <1>1, <1>2, <1>4, <1>5, <1>6, <1>7

LEMMA DocInit == Init => DocInv
  <1> SUFFICES ASSUME Init PROVE DocInv
    OBVIOUS
  <1>1. doc \in Seq(Nodes) /\ Len(doc) \in Nat
    BY DocsAssumption, LenProperties DEF Init
  <1>2. js_doc.members = <<>> /\ js_doc = Obj(<<>>) /\ IsSeq(<<>>) /\ Len(<<>>) = 0
    BY EmptySeq DEF Init, Obj, IsSeq
  <1>3. At = 1
    BY <1>2 DEF At
  <1>4. stack = <<>> /\ result = NoResult
    BY DEF Init
  <1> QED BY <1>1, <1>2, <1>3, <1>4 DEF DocInv

LEMMA DocStep == DocInv /\ [Next]_vars => DocInv'
  <1> SUFFICES ASSUME DocInv, [Next]_vars PROVE DocInv'
    OBVIOUS
  <1>1. CASE PlaceTop
    <2>1. doc' = doc /\ stack' = <<>> /\ result' = NoResult
      BY <1>1 DEF PlaceTop
    <2>2. At' \in 1..Len(doc) + 1 /\ At' - 1 = At /\ 1..At = (1..At - 1) \cup {At}
      <3>1. At \in 1..Len(doc) /\ At' = At + 1 /\ Len(doc) \in Nat
        BY <1>1, MemberPlaced, LenProperties DEF DocInv
      <3> HIDE DEF At
      <3> QED BY <3>1
    <2>3. \A i \in 1..At : js_doc'.members[i].name = NameOf(doc[i])
      BY <1>1, <2>2, MemberPlaced DEF DocInv
    <2>4. js_doc' = Obj(js_doc'.members) /\ IsSeq(js_doc'.members)
      BY <1>1, MemberPlaced
    <2> QED BY <2>1, <2>2, <2>3, <2>4 DEF DocInv
  <1>2. CASE VisitTop
    BY <1>2 DEF VisitTop, DocInv, At
  <1>3. ASSUME stack # <<>>, UNCHANGED <<doc, js_doc>>
        PROVE  DocInv'
    BY <1>3 DEF DocInv, At
  <1>4. \/ UNCHANGED vars
        \/ VisitTop \/ PlaceTop
        \/ stack # <<>> /\ UNCHANGED <<doc, js_doc>>
    BY DEF Next, vars, ReturnText, ReturnTextWithAttributes, ReturnNull, ReturnPureText,
           EnterLoop, VisitChild, PlaceChild, LeaveLoop, Entering, Looping
  <1>5. CASE UNCHANGED vars
    BY <1>5 DEF DocInv, At, vars
  <1> QED BY <1>1, <1>2, <1>3, <1>4, <1>5

\* The traversal of a top-level node begins, and its end leaves no call.
LEMMA StackBegins == ASSUME DocInv, VisitTop PROVE StackInv'
  <1> DEFINE call == Call(doc[At])
  <1>1. stack' = <<call>> /\ result' = NoResult
    BY DEF VisitTop
  <1>2. FrameInv(call, FALSE)
    BY TopNodeType, CallFrame DEF VisitTop
  <1> HIDE DEF call
  <1>3. stack' \in Seq({call}) /\ Len(stack') = 1 /\ stack'[1] = call
    BY <1>1
  <1>4. IsSeq(stack')
    BY <1>3, ElementsAreASeq
  <1>5. \A i \in 1..Len(stack') : i = 1
    BY <1>3
  <1>6. ~(1 < Len(stack') \/ result' # NoResult)
    BY <1>1, <1>3
  <1> QED BY <1>2, <1>3, <1>4, <1>5, <1>6 DEF StackInv

LEMMA StackEnds == ASSUME PlaceTop PROVE StackInv'
  <1>1. stack' = <<>> /\ Len(stack') = 0 /\ IsSeq(stack')
    BY EmptySeq DEF PlaceTop, IsSeq
  <1> QED BY <1>1 DEF StackInv

LEMMA StackStep == DocInv /\ StackInv /\ [Next]_vars => StackInv'
  <1> SUFFICES ASSUME DocInv, StackInv, [Next]_vars PROVE StackInv'
    OBVIOUS
  <1>1. \A text, members : /\ Str(text) # NoResult /\ Null # NoResult
                           /\ Obj(members) # NoResult
    BY DEF Str, Null, Obj, NoResult
  <1>2. \A n, obj : AddAttributes(n, obj) # NoResult
    BY <1>1 DEF AddAttributes
  <1>3. CASE ReturnText
    BY <1>1, <1>3, StackReturn DEF ReturnText, Entering
  <1>4. CASE ReturnTextWithAttributes
    BY <1>2, <1>4, StackReturn DEF ReturnTextWithAttributes, Entering
  <1>5. CASE ReturnNull
    BY <1>1, <1>5, StackReturn DEF ReturnNull, Entering
  <1>6. CASE ReturnPureText
    BY <1>1, <1>6, StackReturn DEF ReturnPureText, Entering
  <1>7. CASE EnterLoop
    <2> DEFINE g == [Top EXCEPT !.looping = TRUE, !.value = AddAttributes(Top.node, @)]
    <2>1. /\ stack # <<>> /\ ~Top.looping /\ ~IsText(Top.node)
          /\ result = NoResult /\ result' = NoResult /\ stack' = Replaced(g)
      BY <1>7 DEF EnterLoop, Entering
    <2>2. FrameInv(Top, FALSE)
      BY <2>1, InnermostCall
    <2>3. FrameInv(g, FALSE)
      BY <2>1, <2>2, EnterFrame
    <2> HIDE DEF g
    <2> QED BY <2>1, <2>3, StackGoesOn
  <1>8. CASE VisitChild
    <2> DEFINE g == [Top EXCEPT !.count[Key(Top)] = @ + 1]
               kid == Top.node.kids[Top.at]
               n == Len(stack)
    <2>1. /\ stack # <<>> /\ Top.looping /\ Top.at <= Len(Top.node.kids)
          /\ result = NoResult /\ result' = NoResult
          /\ stack' = Append(Replaced(g), Call(kid))
      BY <1>8 DEF VisitChild, Looping, Key
    <2>2. FrameInv(Top, FALSE) /\ n \in Nat \ {0}
      BY <2>1, InnermostCall
    <2>3. FrameInv(g, TRUE) /\ g.looping
      BY <2>1, <2>2, VisitFrame
    <2>4. kid \in Nodes
      <3>1. /\ Top.node \in Nodes /\ ~IsText(Top.node)
            /\ Top.at \in 1..Len(Top.node.kids) + 1
        BY <2>1, <2>2 DEF FrameInv, IsFrame, LoopInv
      <3>2. Len(Top.node.kids) \in Nat
        BY <3>1, NodeType
      <3>3. Top.at \in 1..Len(Top.node.kids)
        BY <2>1, <3>1, <3>2
      <3> QED BY <3>1, <3>3, NodeType
    <2>5. FrameInv(Call(kid), FALSE)
      BY <2>4, CallFrame
    <2> HIDE DEF g, kid
    <2>6. /\ IsSeq(Replaced(g)) /\ Len(Replaced(g)) = n
          /\ \A i \in 1..n - 1 : Replaced(g)[i] = stack[i]
          /\ Replaced(g)[n] = g
      <3>1. IsSeq(stack) /\ stack # <<>>
        BY <2>1 DEF StackInv
      <3>2. Replaced(g) = Append(Front(stack), g)
        BY DEF Replaced
      <3> QED BY <3>1, <3>2, LastReplaced
    <2>7. /\ IsSeq(stack') /\ Len(stack') = n + 1
          /\ \A i \in 1..n - 1 : stack'[i] = stack[i]
          /\ stack'[n] = g /\ stack'[n + 1] = Call(kid)
      <3>1. /\ IsSeq(stack') /\ Len(stack') = n + 1
            /\ \A i \in 1..n : stack'[i] = Replaced(g)[i]
            /\ stack'[n + 1] = Call(kid)
        BY <2>1, <2>6, Appended
      <3> QED BY <2>2, <2>6, <3>1
    <2>8. ASSUME NEW i \in 1..n + 1
          PROVE  /\ FrameInv(stack'[i], i < n + 1)
                 /\ i < n + 1 => stack'[i].looping
      <3>1. CASE i = n + 1
        BY <2>2, <2>5, <2>7, <3>1 DEF FrameInv, LoopInv
      <3>2. CASE i = n
        BY <2>2, <2>3, <2>7, <3>2 DEF FrameInv, LoopInv
      <3>3. CASE i # n /\ i # n + 1
        <4>1. i \in 1..n /\ i < n /\ i < n + 1 /\ i \in 1..n - 1
          BY <2>2, <3>3
        <4> QED BY <2>7, <4>1 DEF StackInv
      <3> QED BY <3>1, <3>2, <3>3
    <2> QED BY <2>1, <2>2, <2>7, <2>8 DEF StackInv
  <1>9. CASE PlaceChild
    <2> DEFINE g == [Top EXCEPT
                        !.at = @ + 1,
                        !.value = IF Top.count[Key(Top)] > 1 THEN ToArrayForm(@, Key(Top), result)
                                  ELSE AddMember(@, Key(Top), result)]
    <2>1. /\ stack # <<>> /\ Top.looping /\ result # NoResult
          /\ result' = NoResult /\ stack' = Replaced(g)
      BY <1>9 DEF PlaceChild, Looping, Key
    <2>2. FrameInv(Top, TRUE)
      BY <2>1, InnermostCall
    <2>3. FrameInv(g, FALSE)
      BY <2>1, <2>2, PlaceFrame
    <2> HIDE DEF g
    <2> QED BY <2>1, <2>3, StackGoesOn
  <1>10. CASE LeaveLoop
    <2>1. /\ stack # <<>> /\ Return(Top.value)
      BY <1>10 DEF LeaveLoop, Looping
    <2>2. Top.value = Obj(Top.value.members)
      BY <2>1, InnermostCall DEF FrameInv, IsFrame
    <2> QED BY <1>1, <2>1, <2>2, StackReturn
  <1>11. CASE UNCHANGED vars
    BY <1>11 DEF StackInv, vars
  <1>12. CASE VisitTop
    BY <1>12, StackBegins
  <1>13. CASE PlaceTop
    BY <1>13, StackEnds
  <1> QED BY <1>3, <1>4, <1>5, <1>6, <1>7, <1>8, <1>9, <1>10, <1>11, <1>12, <1>13 DEF Next

-----------------------------------------------------------------------------

\* In every state of every conversion the document and the calls have got as far as
\* DocInv and StackInv say.
THEOREM StackInvariant == Spec => [](DocInv /\ StackInv)
  <1>1. Init => DocInv /\ StackInv
    BY DocInit, StackInit
  <1>2. DocInv /\ StackInv /\ [Next]_vars => (DocInv /\ StackInv)'
    BY DocStep, StackStep
  <1> QED BY <1>1, <1>2, PTL DEF Spec

\* The object of an element, in whatever document, has never two members of one name,
\* but for a key that an attribute shares with another one or with a child:
\* xml2json_to_array_form finds what the earlier children of the name have become.
THEOREM NamesAreUnique == Spec => []NamesUnique
  <1>1. StackInv => NamesUnique
    <2> SUFFICES ASSUME StackInv, NEW f \in 1..Len(stack),
                        NEW i \in 1..Len(stack[f].value.members),
                        NEW j \in 1..Len(stack[f].value.members),
                        stack[f].value.members[i].name = stack[f].value.members[j].name, i # j
                 PROVE  Shared(stack[f].node, stack[f].value.members[i].name)
      BY DEF NamesUnique
    <2>1. PICK pending \in BOOLEAN : FrameInv(stack[f], pending)
      BY DEF StackInv
    <2>2. CASE stack[f].looping
      BY <2>1, <2>2 DEF FrameInv, MembersInv
    <2>3. CASE ~stack[f].looping
      <3>1. stack[f].value.members = <<>>
        BY <2>1, <2>3 DEF FrameInv, Call, Obj
      <3> QED BY <3>1
    <2> QED BY <2>2, <2>3
  <1> QED BY <1>1, StackInvariant, PTL

-----------------------------------------------------------------------------
(* What a node becomes, by the rules of xml2json's README: the smallest    *)
(* relation between nodes and values that obeys them.                      *)

\* A child has the key of an attribute: <@x/> in <e x="">.
Clashes(n) == AttributeKeys(n) \cap Keys(n) # {}

\* The children among the first k that have a key.
Same(n, k, key) == {i \in 1..k : KeyOf(n.kids[i]) = key}

\* e lists the places S in the order of the document.
Lists(e, k, S) ==
    /\ \A i, j \in 1..k : i < j => e[i] < e[j]
    /\ \A p \in S : \E i \in 1..k : e[i] = p

Gathered(e, k, vals) == IF k = 1 THEN vals[e[1]] ELSE Arr([i \in 1..k |-> vals[e[i]]])

\* v is what the children at the places S have become: the value of one as it is,
\* those of several in an array, in the order of the document.
Gathers(v, S, vals) ==
    \E k \in Nat \ {0} : \E e \in [1..k -> S] : Lists(e, k, S) /\ v = Gathered(e, k, vals)

AttributeMembers(n) ==
    {Member(AttributeKey(n.attrs[a].name), Str(n.attrs[a].text)) : a \in 1..Len(n.attrs)}

\* A member is an attribute of n, or what its first k children of one key have become.
MemberByRules(m, n, k, vals) ==
    \/ m \in AttributeMembers(n)
    \/ /\ m = Member(m.name, m.value)
       /\ m.name \notin AttributeKeys(n)
       /\ Gathers(m.value, Same(n, k, m.name), vals)

\* The members are n's attributes and, for each key of its first k children, what
\* those have become, in whatever order.
ObjectByRules(members, n, k, vals) ==
    /\ AttributeMembers(n) \subseteq {members[i] : i \in 1..Len(members)}
    /\ Names(members) = AttributeKeys(n) \cup {KeyOf(n.kids[p]) : p \in 1..k}
    /\ \A i, j \in 1..Len(members) :
          members[i].name = members[j].name => i = j \/ Repeats(n, members[i].name)
    /\ \A i \in 1..Len(members) : MemberByRules(members[i], n, k, vals)

\* The rules do not say what object an element with a clash becomes.
ObeysTheRules(R) ==
    \A n \in Nodes :
        /\ IsText(n) => <<n, Str(n.text)>> \in R
        /\ ~IsText(n) /\ n.attrs = <<>> /\ n.kids = <<>> => <<n, Null>> \in R
        /\ ~IsText(n) /\ n.attrs = <<>> /\ PureText(n) => <<n, Str(n.kids[1].text)>> \in R
        /\ ~IsText(n) /\ (n.attrs # <<>> \/ (n.kids # <<>> /\ ~PureText(n))) =>
              \A vals, members :
                  /\ IsSeq(members)
                  /\ \A p \in 1..Len(n.kids) : <<n.kids[p], vals[p]>> \in R
                  /\ ObjectByRules(members, n, Len(n.kids), vals)
                  => <<n, Obj(members)>> \in R
        /\ ~IsText(n) /\ Clashes(n) => \A members : <<n, Obj(members)>> \in R

\* The first k members of the document's object are its first k top-level nodes.
TopsByRules(k, R) ==
    \A i \in 1..k : /\ js_doc.members[i].name = NameOf(doc[i])
                    /\ <<doc[i], js_doc.members[i].value>> \in R

ConvertsByTheRules ==
    Finished => \A R : ObeysTheRules(R) => Len(js_doc.members) = Len(doc) /\ TopsByRules(Len(doc), R)

LEMMA SharedWithoutClash ==
    ASSUME NEW n, ~Clashes(n), NEW key, Shared(n, key)
    PROVE  Repeats(n, key)
  BY DEF Clashes, Shared

LEMMA KeyWithoutClash ==
    ASSUME NEW n, ~Clashes(n), NEW key \in Keys(n)
    PROVE  key \notin AttributeKeys(n)
  BY DEF Clashes

LEMMA PureTextHasNoClash ==
    ASSUME NEW n \in Nodes, ~IsText(n), PureText(n)
    PROVE  ~Clashes(n)
  <1>1. \A i \in 1..Len(n.kids) : i = 1
    BY DEF PureText
  <1>2. KeyOf(n.kids[1]) = TextKey
    BY DEF PureText, KeyOf, IsText
  <1>3. Keys(n) \subseteq {TextKey}
    BY <1>1, <1>2 DEF Keys
  <1> QED BY <1>3, NoAttributeIsText DEF Clashes

-----------------------------------------------------------------------------
(* Values of children, put together *)

IsArray(v) == v.type = "array"

LEMMA GathersFirst ==
    ASSUME NEW p \in Nat, NEW vals
    PROVE  Gathers(vals[p], {p}, vals)
  <1> DEFINE e == [i \in 1..1 |-> p]
  <1>1. e \in [1..1 -> {p}] /\ e[1] = p
    OBVIOUS
  <1>2. /\ \A i, j \in 1..1 : i < j => e[i] < e[j]
        /\ \A q \in {p} : \E i \in 1..1 : e[i] = q
    OBVIOUS
  <1> HIDE DEF e
  <1>3. Lists(e, 1, {p}) /\ Gathered(e, 1, vals) = vals[p] /\ 1 \in Nat \ {0}
    BY <1>1, <1>2 DEF Lists, Gathered
  <1> QED BY <1>1, <1>3 DEF Gathers

LEMMA GathersSame ==
    ASSUME NEW S, NEW vals, NEW new, \A p \in S : new[p] = vals[p], NEW v, Gathers(v, S, vals)
    PROVE  Gathers(v, S, new)
  <1>0. PICK k \in Nat \ {0} : \E e \in [1..k -> S] : Lists(e, k, S) /\ v = Gathered(e, k, vals)
    BY DEF Gathers
  <1>1. PICK e \in [1..k -> S] : Lists(e, k, S) /\ v = Gathered(e, k, vals)
    BY <1>0
  <1>2. \A i \in 1..k : new[e[i]] = vals[e[i]]
    OBVIOUS
  <1>3. [i \in 1..k |-> new[e[i]]] = [i \in 1..k |-> vals[e[i]]]
    BY <1>2
  <1>4. Gathered(e, k, new) = Gathered(e, k, vals)
    BY <1>2, <1>3 DEF Gathered
  <1> QED BY <1>1, <1>4 DEF Gathers

\* One child more: xml2json_to_array_form grows what the earlier ones have become.
LEMMA GathersNext ==
    ASSUME NEW S \in SUBSET Nat, NEW vals, NEW at \in Nat, \A p \in S : p < at,
           \A p \in S : ~IsArray(vals[p]), NEW v, Gathers(v, S, vals)
    PROVE  Gathers(Grown(v, vals[at]), S \cup {at}, vals)
  <1>0. PICK k \in Nat \ {0} : \E e \in [1..k -> S] : Lists(e, k, S) /\ v = Gathered(e, k, vals)
    BY DEF Gathers
  <1>1. PICK e \in [1..k -> S] : Lists(e, k, S) /\ v = Gathered(e, k, vals)
    BY <1>0
  <1> DEFINE next == [i \in 1..k + 1 |-> IF i = k + 1 THEN at ELSE e[i]]
             items == [i \in 1..k + 1 |-> vals[next[i]]]
  <1>2. /\ next \in [1..k + 1 -> S \cup {at}]
        /\ next[k + 1] = at
        /\ \A i \in 1..k : next[i] = e[i]
        /\ 1..k + 1 = (1..k) \cup {k + 1}
    OBVIOUS
  <1>3. \A i, j \in 1..k + 1 : i < j => next[i] < next[j]
    <2> SUFFICES ASSUME NEW i \in 1..k + 1, NEW j \in 1..k + 1, i < j PROVE next[i] < next[j]
      OBVIOUS
    <2>1. i \in 1..k /\ next[i] = e[i] /\ e[i] \in S
      BY <1>2
    <2>2. CASE j \in 1..k
      BY <1>1, <1>2, <2>1, <2>2 DEF Lists
    <2>3. CASE j = k + 1
      BY <1>2, <2>1, <2>3
    <2> QED BY <1>2, <2>2, <2>3
  <1>4. \A p \in S \cup {at} : \E i \in 1..k + 1 : next[i] = p
    <2>1. \A p \in S : \E i \in 1..k : next[i] = p
      BY <1>1, <1>2 DEF Lists
    <2> QED BY <1>2, <2>1
  <1>5. /\ \A i \in 1..k : items[i] = vals[e[i]]
        /\ items[k + 1] = vals[at]
    BY <1>2
  <1>6. Grown(v, vals[at]) = Arr(items)
    <2>1. CASE k = 1
      <3>1. v = vals[e[1]] /\ ~IsArray(v)
        <4>1. e[1] \in S
          BY <2>1
        <4>2. v = vals[e[1]]
          BY <1>1, <2>1 DEF Gathered
        <4> QED BY <4>1, <4>2
      <3>2. Grown(v, vals[at]) = Arr(<<v, vals[at]>>)
        BY <3>1 DEF Grown, IsArray
      <3>3. items = <<v, vals[at]>>
        <4>1. k + 1 = 2 /\ items[1] = v /\ items[2] = vals[at]
          BY <1>5, <2>1, <3>1
        <4>2. items = [i \in 1..2 |-> items[i]]
          BY <2>1
        <4> HIDE DEF items
        <4> QED BY <4>1, <4>2
      <3> QED BY <3>2, <3>3
    <2>2. CASE k # 1
      <3> DEFINE s == [i \in 1..k |-> vals[e[i]]]
      <3>1. v = Arr(s)
        BY <1>1, <2>2 DEF Gathered
      <3>2. Grown(v, vals[at]) = Arr(Append(s, vals[at]))
        BY <3>1 DEF Grown, Arr
      <3>3. s \in Seq(Range(s)) /\ Len(s) = k
        <4>1. s \in [1..k -> Range(s)]
          BY DEF Range
        <4> HIDE DEF s
        <4>2. s \in Seq(Range(s))
          BY <4>1, SeqDef
        <4>3. DOMAIN s = 1..k /\ DOMAIN s = 1..Len(s) /\ Len(s) \in Nat
          BY <4>1, <4>2, LenProperties
        <4> QED BY <4>2, <4>3
      <3>4. \A i \in 1..k : s[i] = vals[e[i]]
        OBVIOUS
      <3> HIDE DEF s
      <3>5. /\ IsSeq(Append(s, vals[at]))
            /\ Len(Append(s, vals[at])) = k + 1
            /\ \A i \in 1..k : Append(s, vals[at])[i] = vals[e[i]]
            /\ Append(s, vals[at])[k + 1] = vals[at]
        BY <3>3, <3>4, Appended DEF IsSeq
      <3>6. \A i \in 1..k + 1 : Append(s, vals[at])[i] = items[i]
        BY <1>2, <1>5, <3>5
      <3>7. Append(s, vals[at]) = [i \in 1..k + 1 |-> Append(s, vals[at])[i]]
        BY <3>5, ElementsAreASeq DEF IsSeq
      <3>8. Append(s, vals[at]) = items
        BY <3>6, <3>7
      <3> QED BY <3>2, <3>8
    <2> QED BY <2>1, <2>2
  <1>7. k + 1 \in Nat \ {0} /\ k + 1 # 1
    OBVIOUS
  <1> HIDE DEF next
  <1>8. Lists(next, k + 1, S \cup {at}) /\ Grown(v, vals[at]) = Gathered(next, k + 1, vals)
    BY <1>3, <1>4, <1>6, <1>7 DEF Lists, Gathered
  <1> QED BY <1>2, <1>7, <1>8 DEF Gathers

LEMMA SameOfKey ==
    ASSUME NEW n, NEW at \in Nat \ {0}, NEW key, KeyOf(n.kids[at]) = key
    PROVE  /\ Same(n, at, key) = Same(n, at - 1, key) \cup {at}
           /\ Same(n, at - 1, key) \in SUBSET Nat
           /\ \A p \in Same(n, at - 1, key) : p < at /\ p \in 1..at - 1
  <1>1. 1..at = (1..at - 1) \cup {at}
    OBVIOUS
  <1> QED BY <1>1 DEF Same

LEMMA SameOfOther ==
    ASSUME NEW n, NEW at \in Nat \ {0}, NEW key, KeyOf(n.kids[at]) # key
    PROVE  /\ Same(n, at, key) = Same(n, at - 1, key)
           /\ \A p \in Same(n, at - 1, key) : p \in 1..at - 1
  <1>1. 1..at = (1..at - 1) \cup {at}
    OBVIOUS
  <1> QED BY <1>1 DEF Same

LEMMA AttributeNames ==
    ASSUME NEW n, NEW m \in AttributeMembers(n)
    PROVE  m.name \in AttributeKeys(n)
  BY DEF AttributeMembers, AttributeKeys, Member

\* A child of another key leaves a member as it is.
LEMMA MemberStays ==
    ASSUME NEW n, NEW at \in Nat \ {0}, NEW vals, NEW new,
           \A p \in 1..at - 1 : new[p] = vals[p],
           NEW m, MemberByRules(m, n, at - 1, vals), m.name # KeyOf(n.kids[at])
    PROVE  MemberByRules(m, n, at, new)
  <1>1. CASE m \in AttributeMembers(n)
    BY <1>1 DEF MemberByRules
  <1>2. CASE m \notin AttributeMembers(n)
    <2> DEFINE S == Same(n, at - 1, m.name)
    <2>1. /\ m = Member(m.name, m.value)
          /\ m.name \notin AttributeKeys(n)
          /\ Gathers(m.value, S, vals)
      BY <1>2 DEF MemberByRules
    <2>2. Same(n, at, m.name) = S /\ \A p \in S : new[p] = vals[p]
      BY SameOfOther
    <2> HIDE DEF S
    <2>3. Gathers(m.value, S, new)
      BY <2>1, <2>2, GathersSame
    <2> QED BY <2>1, <2>2, <2>3 DEF MemberByRules
  <1> QED BY <1>1, <1>2

\* Of a loop over children: the members so far, if the children have become vals.
ValuesInv(f, vals) ==
    /\ AttributeMembers(f.node) \subseteq {f.value.members[i] : i \in 1..Len(f.value.members)}
    /\ \A i \in 1..Len(f.value.members) : MemberByRules(f.value.members[i], f.node, f.at - 1, vals)

\* The first child of a key.
LEMMA FirstOfAKey ==
    ASSUME NEW n, NEW at \in Nat \ {0}, NEW vals, NEW new,
           \A p \in 1..at - 1 : new[p] = vals[p],
           NEW s, IsSeq(s), AttributeMembers(n) \subseteq {s[i] : i \in 1..Len(s)},
           \A i \in 1..Len(s) : MemberByRules(s[i], n, at - 1, vals),
           KeyOf(n.kids[at]) \notin AttributeKeys(n), KeyOf(n.kids[at]) \notin Names(s), Same(n, at - 1, KeyOf(n.kids[at])) = {}
    PROVE  LET t == Append(s, Member(KeyOf(n.kids[at]), new[at]))
           IN  /\ AttributeMembers(n) \subseteq {t[i] : i \in 1..Len(t)}
               /\ \A i \in 1..Len(t) : MemberByRules(t[i], n, at, new)
  <1> DEFINE key == KeyOf(n.kids[at])
             m == Member(key, new[at])
             t == Append(s, m)
  <1>1. Len(s) \in Nat
    BY ElementsAreASeq DEF IsSeq
  <1>2. key \notin AttributeKeys(n)
    OBVIOUS
  <1>3. m = Member(m.name, m.value) /\ m.name = key /\ m.value = new[at]
    BY DEF Member
  <1> HIDE DEF m
  <1>4. /\ Len(t) = Len(s) + 1
        /\ \A i \in 1..Len(s) : t[i] = s[i]
        /\ t[Len(s) + 1] = m
    BY Appended
  <1>5. 1..Len(t) = (1..Len(s)) \cup {Len(s) + 1}
    BY <1>1, <1>4
  <1>6. MemberByRules(m, n, at, new)
    <2>1. Same(n, at, key) = {at}
      <3>1. KeyOf(n.kids[at]) = key /\ Same(n, at - 1, key) = {}
        OBVIOUS
      <3> HIDE DEF key
      <3>2. Same(n, at, key) = Same(n, at - 1, key) \cup {at}
        BY <3>1, SameOfKey
      <3> QED BY <3>1, <3>2
    <2>2. Gathers(new[at], {at}, new)
      BY GathersFirst
    <2> QED BY <1>2, <1>3, <2>1, <2>2 DEF MemberByRules
  <1>7. \A i \in 1..Len(s) : MemberByRules(s[i], n, at, new)
    <2> SUFFICES ASSUME NEW i \in 1..Len(s) PROVE MemberByRules(s[i], n, at, new)
      OBVIOUS
    <2>1. s[i].name # key
      BY DEF Names
    <2> QED BY <2>1, MemberStays
  <1> HIDE DEF t, key
  <1>8. \A i \in 1..Len(t) : MemberByRules(t[i], n, at, new)
    BY <1>4, <1>5, <1>6, <1>7
  <1>9. AttributeMembers(n) \subseteq {t[i] : i \in 1..Len(t)}
    BY <1>4, <1>5
  <1> QED BY <1>8, <1>9 DEF t, m, key

\* A further one: xml2json_to_array_form moves members and grows one of them.
LEMMA FurtherOfAKey ==
    ASSUME NEW n, NEW at \in Nat \ {0}, NEW vals, NEW new,
           \A p \in 1..at - 1 : new[p] = vals[p] /\ ~IsArray(vals[p]),
           NEW obj, IsSeq(obj.members),
           AttributeMembers(n) \subseteq {obj.members[i] : i \in 1..Len(obj.members)},
           \A i \in 1..Len(obj.members) : MemberByRules(obj.members[i], n, at - 1, vals),
           \A i, j \in 1..Len(obj.members) :
              obj.members[i].name = obj.members[j].name => i = j \/ Repeats(n, obj.members[i].name),
           KeyOf(n.kids[at]) \notin AttributeKeys(n), KeyOf(n.kids[at]) \in Names(obj.members)
    PROVE  LET t == ToArrayForm(obj, KeyOf(n.kids[at]), new[at]).members
           IN  /\ AttributeMembers(n) \subseteq {t[i] : i \in 1..Len(t)}
               /\ \A i \in 1..Len(t) : MemberByRules(t[i], n, at, new)
  <1> DEFINE key == KeyOf(n.kids[at])
             s == obj.members
             c == Len(s)
             m == FindMember(obj, key)
             t == ToArrayForm(obj, key, new[at]).members
             grown == Grown(s[m].value, new[at])
  <1>1. key \notin AttributeKeys(n) /\ KeyOf(n.kids[at]) = key /\ key \in Names(s)
    OBVIOUS
  <1> HIDE DEF key
  <1>2. m \in 1..c /\ c \in Nat /\ s[m].name = key
    <2>1. IsSeq(obj.members) /\ key \in Names(obj.members)
      BY <1>1
    <2> QED BY <2>1, MemberFound, ElementsAreASeq DEF IsSeq
  <1>3. /\ Len(t) = c
        /\ \A i \in 1..c - 1 : t[i] = s[IF i = m THEN c ELSE i]
        /\ t[c] = Member(key, grown)
    <2>1. IsSeq(obj.members) /\ key \in Names(obj.members)
      BY <1>1
    <2> DEFINE chd == new[at]
               u == ToArrayForm(obj, key, chd)
    <2> HIDE DEF chd, s, c, m, t, grown
    <2>2. /\ Len(u.members) = Len(obj.members)
          /\ \A i \in 1..Len(obj.members) - 1 :
                u.members[i] = obj.members[IF i = FindMember(obj, key) THEN Len(obj.members) ELSE i]
          /\ u.members[Len(obj.members)] =
                Member(key, Grown(obj.members[FindMember(obj, key)].value, chd))
      <3>1. Len(u.members) = Len(obj.members)
        BY <2>1, ArrayFormSwaps, SMTT(30)
      <3>2. \A i \in 1..Len(obj.members) - 1 :
               u.members[i] = obj.members[IF i = FindMember(obj, key) THEN Len(obj.members) ELSE i]
        BY <2>1, ArrayFormSwaps
      <3>3. u.members[Len(obj.members)] =
               Member(key, Grown(obj.members[FindMember(obj, key)].value, chd))
        BY <2>1, ArrayFormSwaps
      <3> QED BY <3>1, <3>2, <3>3
    <2> QED BY <2>2 DEF chd, s, c, m, t, grown
  <1>4. MemberByRules(Member(key, grown), n, at, new)
    <2> DEFINE S == Same(n, at - 1, key)
    <2>1. s[m] \notin AttributeMembers(n)
      BY <1>1, <1>2, AttributeNames
    <2>2. Gathers(s[m].value, S, vals)
      BY <1>2, <2>1 DEF MemberByRules
    <2>3. /\ Same(n, at, key) = S \cup {at}
          /\ S \in SUBSET Nat
          /\ \A p \in S : p < at /\ p \in 1..at - 1
      BY <1>1, SameOfKey
    <2> HIDE DEF S
    <2>4. /\ \A p \in S : p < at
          /\ \A p \in S : new[p] = vals[p] /\ ~IsArray(new[p])
      BY <2>3
    <2>5. Gathers(s[m].value, S, new)
      BY <2>2, <2>4, GathersSame
    <2>6. Gathers(grown, S \cup {at}, new)
      BY <2>3, <2>4, <2>5, GathersNext
    <2> DEFINE x == Member(key, grown)
    <2>7. x = Member(x.name, x.value) /\ x.name = key /\ x.value = grown
      BY DEF Member
    <2> HIDE DEF x, grown
    <2>8. MemberByRules(x, n, at, new)
      BY <1>1, <2>3, <2>6, <2>7 DEF MemberByRules
    <2> QED BY <2>8 DEF x
  <1> HIDE DEF t, m, grown
  <1>5. ASSUME NEW j \in 1..c, j # m
        PROVE  s[j].name # key
    <2> SUFFICES ASSUME s[j].name = key PROVE FALSE
      OBVIOUS
    <2>1. Repeats(n, key)
      BY <1>2, <1>5
    <2>2. key \in AttributeKeys(n)
      BY <2>1 DEF Repeats, AttributeKeys
    <2> QED BY <1>1, <2>2
  <1>6. ASSUME NEW j \in 1..c, j # m
        PROVE  MemberByRules(s[j], n, at, new)
    BY <1>1, <1>5, <1>6, MemberStays
  <1>7. ASSUME NEW i \in 1..Len(t)
        PROVE  MemberByRules(t[i], n, at, new)
    <2>1. CASE i = c
      BY <1>3, <1>4, <2>1
    <2>2. CASE i # c
      <3> DEFINE j == IF i = m THEN c ELSE i
      <3>1. i \in 1..c - 1 /\ j \in 1..c /\ j # m
        BY <1>2, <1>3, <2>2
      <3>2. t[i] = s[j]
        BY <1>3, <3>1
      <3> HIDE DEF j
      <3> QED BY <1>6, <3>1, <3>2
    <2> QED BY <2>1, <2>2
  <1>8. AttributeMembers(n) \subseteq {t[i] : i \in 1..Len(t)}
    <2> SUFFICES ASSUME NEW x \in AttributeMembers(n) PROVE \E i \in 1..Len(t) : t[i] = x
      OBVIOUS
    <2>1. PICK j \in 1..c : s[j] = x
      OBVIOUS
    <2>2. j # m
      BY <1>1, <1>2, <2>1, AttributeNames
    <2> DEFINE i == IF j = c THEN m ELSE j
    <2>3. i \in 1..c - 1 /\ j = IF i = m THEN c ELSE i
      BY <1>2, <2>2
    <2>4. t[i] = s[j] /\ i \in 1..Len(t)
      <3> HIDE DEF i
      <3> QED BY <1>2, <1>3, <2>3
    <2> QED BY <2>1, <2>4
  <1> QED BY <1>7, <1>8 DEF t, key

\* A call with attributes or children, not only a text: what its children have become
\* obeys the rules, and so do the members made of it so far, unless keys clash.
FrameRules(f, R) ==
    /\ f.node.attrs # <<>> \/ f.node.kids # <<>>
    /\ ~PureText(f.node)
    /\ \/ Clashes(f.node)
       \/ \E vals : /\ \A p \in 1..f.at - 1 : <<f.node.kids[p], vals[p]>> \in R /\ ~IsArray(vals[p])
                    /\ ValuesInv(f, vals)

LEMMA EnterRules ==
    ASSUME NEW f, FrameInv(f, FALSE), ~f.looping, ~IsText(f.node),
           f.node.attrs # <<>> \/ f.node.kids # <<>>, ~PureText(f.node), NEW R
    PROVE  LET g == [f EXCEPT !.looping = TRUE, !.value = AddAttributes(f.node, @)]
           IN  g.node = f.node /\ FrameRules(g, R)
  <1> DEFINE g == [f EXCEPT !.looping = TRUE, !.value = AddAttributes(f.node, @)]
             n == f.node
             s == AddAttributes(n, Obj(<<>>)).members
  <1>1. n \in Nodes /\ f = Call(n)
    BY DEF FrameInv, IsFrame
  <1>2. g.node = n /\ g.at = 1 /\ g.value.members = s
    <2>1. f.node = n /\ f.at = 1 /\ f.value = Obj(<<>>)
      BY <1>1 DEF Call
    <2>2. f = [node |-> f.node, looping |-> f.looping, at |-> f.at, count |-> f.count, value |-> f.value]
      BY DEF FrameInv, IsFrame
    <2> DEFINE value == AddAttributes(f.node, f.value)
    <2>3. g = [node |-> f.node, looping |-> TRUE, at |-> f.at, count |-> f.count, value |-> value]
      BY <2>2, TwoFields
    <2> HIDE DEF g
    <2> QED BY <2>1, <2>3
  <1> HIDE DEF g
  <1>3. /\ Len(s) = Len(n.attrs)
        /\ \A i \in 1..Len(n.attrs) : s[i] = Member(AttributeKey(n.attrs[i].name), Str(n.attrs[i].text))
    BY <1>1, AttributesAdded
  <1> HIDE DEF s
  <1>4. /\ AttributeMembers(n) \subseteq {s[i] : i \in 1..Len(s)}
        /\ \A i \in 1..Len(s) : s[i] \in AttributeMembers(n)
    BY <1>3 DEF AttributeMembers
  <1>5. ValuesInv(g, <<>>)
    BY <1>2, <1>4 DEF ValuesInv, MemberByRules
  <1>6. \A p \in 1..g.at - 1 : FALSE
    BY <1>2
  <1> QED BY <1>2, <1>5, <1>6 DEF FrameRules, g

LEMMA PlaceRules ==
    ASSUME NEW f, FrameInv(f, TRUE), f.looping, NEW v, NEW R, FrameRules(f, R),
           <<f.node.kids[f.at], v>> \in R, ~IsArray(v)
    PROVE  LET g == [f EXCEPT
                        !.at = @ + 1,
                        !.value = IF f.count[Key(f)] > 1 THEN ToArrayForm(@, Key(f), v)
                                  ELSE AddMember(@, Key(f), v)]
           IN  g.node = f.node /\ FrameRules(g, R)
  <1> DEFINE value == IF f.count[Key(f)] > 1 THEN ToArrayForm(f.value, Key(f), v)
                      ELSE AddMember(f.value, Key(f), v)
             g == [f EXCEPT !.at = @ + 1, !.value = value]
             s == f.value.members
             t == value.members
             n == f.node
             at == f.at
  <1>1. IsFrame(f) /\ LoopInv(f, TRUE) /\ MembersInv(f)
    BY DEF FrameInv
  <1>2. g.node = n /\ g.at = at + 1 /\ g.value = value
    <2>1. g = [node |-> f.node, looping |-> f.looping, at |-> f.at + 1, count |-> f.count, value |-> value]
      <3> HIDE DEF value
      <3> QED BY <1>1, TwoFields DEF IsFrame
    <2> HIDE DEF value, g
    <2> QED BY <2>1
  <1> HIDE DEF g
  <1>0. CASE Clashes(n)
    BY <1>0, <1>2 DEF FrameRules, g, value
  <1> SUFFICES ASSUME ~Clashes(n) PROVE g.node = n /\ FrameRules(g, R)
    BY <1>0 DEF g, value
  <1>3. /\ at \in Nat \ {0}
        /\ Key(f) \in Keys(n)
    <2>1. n \in Nodes /\ ~IsText(n)
      BY <1>1 DEF IsFrame, LoopInv
    <2>2. Len(n.kids) \in Nat
      BY <2>1, NodeType
    <2>3. at \in 1..Len(n.kids)
      BY <1>1, <2>2 DEF LoopInv
    <2> QED BY <2>2, <2>3 DEF Key, Keys
  <1>4. PICK vals : /\ \A p \in 1..at - 1 : <<n.kids[p], vals[p]>> \in R /\ ~IsArray(vals[p])
                    /\ ValuesInv(f, vals)
    BY DEF FrameRules
  <1> DEFINE new == [p \in 1..at |-> IF p = at THEN v ELSE vals[p]]
  <1>5. /\ new[at] = v
        /\ \A p \in 1..at - 1 : new[p] = vals[p]
        /\ 1..at = (1..at - 1) \cup {at}
    <2> HIDE DEF at
    <2> QED BY <1>3
  <1> HIDE DEF new
  <1>6. /\ AttributeMembers(n) \subseteq {s[i] : i \in 1..Len(s)}
        /\ \A i \in 1..Len(s) : MemberByRules(s[i], n, at - 1, vals)
    BY <1>4 DEF ValuesInv
  <1>7. IsSeq(s) /\ f.value = Obj(s)
    BY <1>1 DEF IsFrame
  <1>8. f.count[Key(f)] > 1 <=> Key(f) \in Placed(f)
    BY <1>1, <1>3 DEF LoopInv
  <1>9. /\ Names(s) = AttributeKeys(n) \cup Placed(f)
        /\ \A i, j \in 1..Len(s) : s[i].name = s[j].name => i = j \/ Repeats(n, s[i].name)
    BY <1>1, SharedWithoutClash DEF MembersInv
  <1>10. Key(f) = KeyOf(n.kids[at]) /\ KeyOf(n.kids[at]) \notin AttributeKeys(n)
    <2>1. Key(f) = KeyOf(n.kids[at])
      BY DEF Key
    <2>2. Key(f) \notin AttributeKeys(n)
      BY <1>3, KeyWithoutClash
    <2> QED BY <2>1, <2>2
  <1> HIDE DEF s, t, n, at
  <1>11. /\ AttributeMembers(n) \subseteq {t[i] : i \in 1..Len(t)}
         /\ \A i \in 1..Len(t) : MemberByRules(t[i], n, at, new)
    <2>1. CASE f.count[Key(f)] > 1
      <3> DEFINE obj == f.value
      <3>1. obj.members = s /\ value = ToArrayForm(obj, KeyOf(n.kids[at]), new[at])
        BY <1>5, <1>7, <1>10, <2>1 DEF s
      <3>2. KeyOf(n.kids[at]) \in Names(obj.members)
        BY <1>8, <1>9, <1>10, <2>1, <3>1
      <3>3. /\ IsSeq(obj.members)
            /\ \A p \in 1..at - 1 : new[p] = vals[p] /\ ~IsArray(vals[p])
            /\ AttributeMembers(n) \subseteq {obj.members[i] : i \in 1..Len(obj.members)}
            /\ \A i \in 1..Len(obj.members) : MemberByRules(obj.members[i], n, at - 1, vals)
            /\ \A i, j \in 1..Len(obj.members) :
                  obj.members[i].name = obj.members[j].name => i = j \/ Repeats(n, obj.members[i].name)
        BY <1>4, <1>5, <1>6, <1>7, <1>9, <3>1
      <3> HIDE DEF value, obj
      <3> DEFINE u == ToArrayForm(obj, KeyOf(n.kids[at]), new[at]).members
      <3>4. /\ AttributeMembers(n) \subseteq {u[i] : i \in 1..Len(u)}
            /\ \A i \in 1..Len(u) : MemberByRules(u[i], n, at, new)
        BY <1>3, <1>10, <3>2, <3>3, FurtherOfAKey
      <3> QED BY <3>1, <3>4 DEF t
    <2>2. CASE ~(f.count[Key(f)] > 1)
      <3>1. t = Append(s, Member(KeyOf(n.kids[at]), new[at]))
        BY <1>5, <1>7, <1>10, <2>2 DEF t, AddMember, Obj, s
      <3>2. KeyOf(n.kids[at]) \notin Placed(f)
        BY <1>8, <1>10, <2>2
      <3>3. KeyOf(n.kids[at]) \notin Names(s)
        BY <1>9, <1>10, <3>2
      <3>4. Same(n, at - 1, KeyOf(n.kids[at])) = {}
        BY <3>2 DEF Same, Placed, n, at
      <3> DEFINE u == Append(s, Member(KeyOf(n.kids[at]), new[at]))
      <3>5. /\ AttributeMembers(n) \subseteq {u[i] : i \in 1..Len(u)}
            /\ \A i \in 1..Len(u) : MemberByRules(u[i], n, at, new)
        BY <1>3, <1>5, <1>6, <1>7, <1>10, <3>3, <3>4, FirstOfAKey
      <3> QED BY <3>1, <3>5
    <2> QED BY <2>1, <2>2
  <1> HIDE DEF value
  <1>12. ValuesInv(g, new)
    <2>1. g.at - 1 = at
      BY <1>2, <1>3
    <2> QED BY <1>2, <1>11, <2>1 DEF ValuesInv, t
  <1>13. \A p \in 1..g.at - 1 : <<g.node.kids[p], new[p]>> \in R /\ ~IsArray(new[p])
    <2>1. g.at - 1 = at
      BY <1>2, <1>3
    <2> QED BY <1>2, <1>4, <1>5, <2>1 DEF n, at
  <1>14. (n.attrs # <<>> \/ n.kids # <<>>) /\ ~PureText(n)
    BY DEF FrameRules, n
  <1> QED BY <1>2, <1>12, <1>13, <1>14 DEF FrameRules, g, value, n

\* An element with attributes and a text.
LEMMA TextObject ==
    ASSUME NEW n \in Nodes, ~IsText(n), PureText(n)
    PROVE  LET text == Str(n.kids[1].text)
               members == AddAttributes(n, Obj(<<Member(TextKey, text)>>)).members
           IN  /\ AddAttributes(n, Obj(<<Member(TextKey, text)>>)) = Obj(members)
               /\ IsSeq(members)
               /\ ObjectByRules(members, n, 1, <<text>>)
  <1> DEFINE text == Str(n.kids[1].text)
             m == Member(TextKey, text)
             s == <<m>>
             c == Len(n.attrs)
             t == AddAttributes(n, Obj(s)).members
  <1>1. Len(s) = 1 /\ s[1] = m /\ IsSeq(s)
    <2>1. Len(s) = 1 /\ s[1] = m /\ s \in Seq({m})
      OBVIOUS
    <2> HIDE DEF s
    <2> QED BY <2>1, ElementsAreASeq
  <1>2. m = Member(m.name, m.value) /\ m.name = TextKey /\ m.value = text
    BY DEF Member
  <1>3. KeyOf(n.kids[1]) = TextKey
    BY DEF PureText, KeyOf, IsText
  <1>4. c \in Nat
    BY NodeType
  <1> HIDE DEF m, s
  <1>5. /\ AddAttributes(n, Obj(s)) = Obj(t)
        /\ IsSeq(t)
        /\ Len(t) = Len(s) + c
        /\ \A i \in 1..Len(s) : t[i] = s[i]
        /\ \A i \in 1..c : t[Len(s) + i] = Member(AttributeKey(n.attrs[i].name), Str(n.attrs[i].text))
    BY <1>1, AttributesFollow
  <1> HIDE DEF t, text
  <1>6. /\ Len(t) = 1 + c
        /\ t[1] = m
        /\ \A i \in 1..c : t[1 + i] = Member(AttributeKey(n.attrs[i].name), Str(n.attrs[i].text))
    BY <1>1, <1>5
  <1>7. 1..Len(t) = {1} \cup {1 + i : i \in 1..c}
    <2>1. ASSUME NEW j \in 1..1 + c, j # 1 PROVE \E i \in 1..c : j = 1 + i
      <3>1. j - 1 \in 1..c /\ j = 1 + (j - 1)
        BY <1>4, <2>1
      <3> QED BY <3>1
    <2>2. \A i \in 1..c : 1 + i \in 1..1 + c
      BY <1>4
    <2>3. 1 \in 1..1 + c
      BY <1>4
    <2> QED BY <1>6, <2>1, <2>2, <2>3
  <1>8. \A i \in 1..c : t[1 + i] \in AttributeMembers(n) /\ t[1 + i].name = AttributeKey(n.attrs[i].name)
    <2> SUFFICES ASSUME NEW i \in 1..c
                 PROVE  t[1 + i] \in AttributeMembers(n) /\ t[1 + i].name = AttributeKey(n.attrs[i].name)
      OBVIOUS
    <2>1. t[1 + i] = Member(AttributeKey(n.attrs[i].name), Str(n.attrs[i].text))
      BY <1>6
    <2>2. t[1 + i].name = AttributeKey(n.attrs[i].name)
      BY <2>1 DEF Member
    <2> QED BY <2>1, <2>2 DEF AttributeMembers
  <1>9. AttributeMembers(n) \subseteq {t[i] : i \in 1..Len(t)}
    BY <1>6, <1>7 DEF AttributeMembers
  <1>10. Names(t) = AttributeKeys(n) \cup {KeyOf(n.kids[p]) : p \in 1..1}
    <2>1. Names(t) = {t[1].name} \cup {t[1 + i].name : i \in 1..c}
      BY <1>7 DEF Names
    <2>2. {t[1 + i].name : i \in 1..c} = AttributeKeys(n)
      BY <1>8 DEF AttributeKeys
    <2> QED BY <1>2, <1>3, <1>6, <2>1, <2>2
  <1>11. TextKey \notin AttributeKeys(n)
    BY NoAttributeIsText
  <1>12. ASSUME NEW i \in 1..Len(t), NEW j \in 1..Len(t), t[i].name = t[j].name, i # j
         PROVE  Repeats(n, t[i].name)
    <2>1. ASSUME NEW k \in 1..Len(t), k # 1
          PROVE  k - 1 \in 1..c /\ t[k].name = AttributeKey(n.attrs[k - 1].name)
                 /\ t[k].name \in AttributeKeys(n)
      <3>1. PICK a \in 1..c : k = 1 + a
        BY <1>7, <2>1
      <3>2. k - 1 = a
        BY <1>4, <3>1
      <3> QED BY <1>8, <3>1, <3>2 DEF AttributeKeys
    <2>2. i # 1 /\ j # 1
      BY <1>2, <1>6, <1>11, <1>12, <2>1
    <2>3. n.attrs[i - 1].name = n.attrs[j - 1].name
      <3>1. i - 1 \in 1..c /\ j - 1 \in 1..c
        BY <2>1, <2>2
      <3>2. IsSeq(n.attrs[i - 1].name) /\ IsSeq(n.attrs[j - 1].name)
        BY <3>1, NodeType
      <3>3. AttributeKey(n.attrs[i - 1].name) = AttributeKey(n.attrs[j - 1].name)
        BY <1>12, <2>1, <2>2
      <3> QED BY <3>2, <3>3, AttributeKeyForm
    <2>4. i - 1 # j - 1
      BY <1>4, <1>6, <1>12
    <2> QED BY <2>1, <2>2, <2>3, <2>4 DEF Repeats
  <1>13. MemberByRules(m, n, 1, <<text>>)
    <2>1. Same(n, 1, TextKey) = {1}
      BY <1>3 DEF Same
    <2>2. Gathers(text, {1}, <<text>>)
      <3> DEFINE vals == <<text>>
      <3>1. vals[1] = text
        OBVIOUS
      <3> HIDE DEF vals
      <3>2. Gathers(vals[1], {1}, vals)
        BY GathersFirst
      <3> QED BY <3>1, <3>2 DEF vals
    <2> QED BY <1>2, <1>11, <2>1, <2>2 DEF MemberByRules
  <1>14. \A i \in 1..Len(t) : MemberByRules(t[i], n, 1, <<text>>)
    BY <1>6, <1>7, <1>8, <1>13 DEF MemberByRules
  <1>15. ObjectByRules(t, n, 1, <<text>>)
    BY <1>9, <1>10, <1>12, <1>14 DEF ObjectByRules
  <1> QED BY <1>5, <1>15 DEF t, text, s, m

-----------------------------------------------------------------------------
(* The rules hold for every call that has ended, and all that is under way. *)

\* The node that the value just returned stands for.
Converted == IF stack = <<>> THEN doc[At] ELSE Top.node.kids[Top.at]

RulesInv(R) ==
    /\ TopsByRules(At - 1, R)
    /\ stack # <<>> => stack[1].node = doc[At]
    /\ \A i \in 1..Len(stack) - 1 : stack[i + 1].node = stack[i].node.kids[stack[i].at]
    /\ \A i \in 1..Len(stack) : stack[i].looping => FrameRules(stack[i], R)
    /\ result # NoResult => <<Converted, result>> \in R /\ ~IsArray(result)

LEMMA RulesReturn ==
    ASSUME StackInv, stack # <<>>, UNCHANGED <<doc, js_doc>>, NEW value, value # NoResult, Return(value),
           NEW R, RulesInv(R), <<Top.node, value>> \in R, ~IsArray(value)
    PROVE  RulesInv(R)'
  <1> DEFINE n == Len(stack)
  <1>1. stack' = Front(stack) /\ result' = value /\ result' # NoResult
    BY DEF Return, NoResult
  <1>2. /\ n \in Nat \ {0}
        /\ IsSeq(stack')
        /\ Len(stack') = n - 1
        /\ \A i \in 1..n - 1 : stack'[i] = stack[i]
        /\ Top = stack[n]
    BY <1>1, FrontAndLast, InnermostCall DEF StackInv
  <1>0. doc' = doc /\ At' = At /\ TopsByRules(At - 1, R)'
    BY DEF RulesInv, At, TopsByRules
  <1>3. stack' # <<>> => stack'[1].node = doc[At]
    <2> SUFFICES ASSUME stack' # <<>> PROVE stack'[1].node = doc[At]
      OBVIOUS
    <2>1. Len(stack') # 0
      BY <1>2, EmptySeq DEF IsSeq
    <2>2. 1 \in 1..n - 1
      BY <1>2, <2>1
    <2> QED BY <1>2, <2>2 DEF RulesInv
  <1>4. \A i \in 1..Len(stack') - 1 : stack'[i + 1].node = stack'[i].node.kids[stack'[i].at]
    <2> SUFFICES ASSUME NEW i \in 1..Len(stack') - 1
                 PROVE  stack'[i + 1].node = stack'[i].node.kids[stack'[i].at]
      OBVIOUS
    <2>1. i \in 1..n - 1 /\ i + 1 \in 1..n - 1
      BY <1>2
    <2> QED BY <1>2, <2>1 DEF RulesInv
  <1>5. \A i \in 1..Len(stack') : stack'[i].looping => FrameRules(stack'[i], R)
    <2>1. \A i \in 1..Len(stack') : i \in 1..n - 1 /\ i \in 1..n
      BY <1>2
    <2> QED BY <1>2, <2>1 DEF RulesInv
  <1>6. Converted' = Top.node
    <2>1. CASE stack' = <<>>
      <3>1. n - 1 = 0 /\ n \in Nat
        BY <1>2, <2>1
      <3> HIDE DEF n
      <3>2. n = 1
        BY <3>1
      <3> QED BY <1>0, <1>2, <2>1, <3>2 DEF RulesInv, Converted
    <2>2. CASE stack' # <<>>
      <3>1. Len(stack') \in Nat \ {0} /\ Last(stack') = stack'[Len(stack')]
        BY <1>2, <2>2, FrontAndLast
      <3>2. n - 1 \in 1..n - 1 /\ (n - 1) + 1 = n
        BY <1>2, <3>1
      <3>3. Top' = stack[n - 1]
        BY <1>2, <3>1, <3>2 DEF Top
      <3>4. stack[n].node = stack[n - 1].node.kids[stack[n - 1].at]
        BY <3>2 DEF RulesInv
      <3> QED BY <1>2, <2>2, <3>3, <3>4 DEF Converted
    <2> QED BY <2>1, <2>2
  <1> QED BY <1>0, <1>1, <1>3, <1>4, <1>5, <1>6 DEF RulesInv

LEMMA RulesGoOn ==
    ASSUME StackInv, stack # <<>>, UNCHANGED <<doc, js_doc>>, NEW f, stack' = Replaced(f), result' = NoResult,
           NEW R, RulesInv(R), f.node = Top.node, FrameRules(f, R)
    PROVE  RulesInv(R)'
  <1> DEFINE n == Len(stack)
  <1>1. /\ n \in Nat \ {0}
        /\ IsSeq(stack')
        /\ Len(stack') = n
        /\ \A i \in 1..n - 1 : stack'[i] = stack[i]
        /\ stack'[n] = f
        /\ Top = stack[n]
    <2>1. n \in Nat \ {0} /\ Top = stack[n] /\ IsSeq(stack)
      BY InnermostCall DEF StackInv
    <2>2. /\ IsSeq(stack')
          /\ Len(stack') = n
          /\ \A i \in 1..n - 1 : stack'[i] = stack[i]
          /\ stack'[n] = f
      BY <2>1, LastReplaced DEF Replaced
    <2> QED BY <2>1, <2>2
  <1>2. stack' # <<>>
    BY <1>1
  <1>3. \A i \in 1..n : stack'[i].node = stack[i].node
    <2> SUFFICES ASSUME NEW i \in 1..n PROVE stack'[i].node = stack[i].node
      OBVIOUS
    <2>1. i = n \/ i \in 1..n - 1
      BY <1>1
    <2> QED BY <1>1, <2>1
  <1>0. doc' = doc /\ At' = At /\ TopsByRules(At - 1, R)'
    BY DEF RulesInv, At, TopsByRules
  <1>4. stack'[1].node = doc[At]
    <2>1. 1 \in 1..n
      BY <1>1
    <2> QED BY <1>3, <2>1 DEF RulesInv
  <1>5. \A i \in 1..n - 1 : stack'[i + 1].node = stack'[i].node.kids[stack'[i].at]
    <2> SUFFICES ASSUME NEW i \in 1..n - 1
                 PROVE  stack'[i + 1].node = stack'[i].node.kids[stack'[i].at]
      OBVIOUS
    <2>1. i + 1 \in 1..n
      BY <1>1
    <2> QED BY <1>1, <1>3, <2>1 DEF RulesInv
  <1>6. \A i \in 1..n : stack'[i].looping => FrameRules(stack'[i], R)
    <2> SUFFICES ASSUME NEW i \in 1..n, stack'[i].looping PROVE FrameRules(stack'[i], R)
      OBVIOUS
    <2>1. i = n \/ i \in 1..n - 1
      BY <1>1
    <2> QED BY <1>1, <2>1 DEF RulesInv
  <1> QED BY <1>0, <1>1, <1>2, <1>4, <1>5, <1>6 DEF RulesInv

LEMMA RulesVisit ==
    ASSUME StackInv, VisitChild, NEW R, RulesInv(R)
    PROVE  RulesInv(R)'
  <1> DEFINE g == [Top EXCEPT !.count[Key(Top)] = @ + 1]
             kid == Top.node.kids[Top.at]
             n == Len(stack)
  <1>1. /\ stack # <<>> /\ Top.looping
        /\ result' = NoResult /\ UNCHANGED <<doc, js_doc>>
        /\ stack' = Append(Replaced(g), Call(kid))
    BY DEF VisitChild, Looping, Key
  <1>0. doc' = doc /\ At' = At /\ TopsByRules(At - 1, R)'
    BY <1>1 DEF RulesInv, At, TopsByRules
  <1>2. n \in Nat \ {0} /\ Top = stack[n] /\ IsSeq(stack)
    BY <1>1, InnermostCall DEF StackInv
  <1>3. g.node = Top.node /\ g.at = Top.at /\ g.value = Top.value /\ g.looping
    <2>1. Top = [node |-> Top.node, looping |-> Top.looping, at |-> Top.at,
                 count |-> Top.count, value |-> Top.value]
      BY <1>1, InnermostCall DEF FrameInv, IsFrame
    <2> QED BY <1>1, <2>1
  <1>4. Call(kid).node = kid /\ ~Call(kid).looping
    BY DEF Call
  <1> HIDE DEF g, kid
  <1>5. /\ IsSeq(Replaced(g)) /\ Len(Replaced(g)) = n
        /\ \A i \in 1..n - 1 : Replaced(g)[i] = stack[i]
        /\ Replaced(g)[n] = g
    BY <1>1, <1>2, LastReplaced DEF Replaced
  <1>6. /\ Len(stack') = n + 1
        /\ \A i \in 1..n - 1 : stack'[i] = stack[i]
        /\ stack'[n] = g /\ stack'[n + 1] = Call(kid)
    <2>1. /\ Len(stack') = n + 1
          /\ \A i \in 1..n : stack'[i] = Replaced(g)[i]
          /\ stack'[n + 1] = Call(kid)
      BY <1>1, <1>5, Appended
    <2> QED BY <1>2, <1>5, <2>1
  <1>7. FrameRules(g, R)
    <2>1. FrameRules(Top, R)
      BY <1>1, <1>2 DEF RulesInv
    <2> QED BY <1>3, <2>1 DEF FrameRules, ValuesInv
  <1>8. stack' # <<>>
    BY <1>2, <1>6
  <1>9. \A i \in 1..n : stack'[i].node = stack[i].node /\ stack'[i].at = stack[i].at
    <2> SUFFICES ASSUME NEW i \in 1..n PROVE stack'[i].node = stack[i].node /\ stack'[i].at = stack[i].at
      OBVIOUS
    <2>1. i = n \/ i \in 1..n - 1
      BY <1>2
    <2> QED BY <1>2, <1>3, <1>6, <2>1
  <1>10. stack'[1].node = doc[At]
    <2>1. 1 \in 1..n
      BY <1>2
    <2> QED BY <1>9, <2>1 DEF RulesInv
  <1>11. \A i \in 1..n : stack'[i + 1].node = stack'[i].node.kids[stack'[i].at]
    <2> SUFFICES ASSUME NEW i \in 1..n
                 PROVE  stack'[i + 1].node = stack'[i].node.kids[stack'[i].at]
      OBVIOUS
    <2>1. CASE i = n
      BY <1>2, <1>3, <1>4, <1>6, <2>1 DEF kid
    <2>2. CASE i # n
      <3>1. i \in 1..n - 1 /\ i + 1 \in 1..n
        BY <1>2, <2>2
      <3> QED BY <1>9, <3>1 DEF RulesInv
    <2> QED BY <2>1, <2>2
  <1>12. \A i \in 1..n + 1 : stack'[i].looping => FrameRules(stack'[i], R)
    <2> SUFFICES ASSUME NEW i \in 1..n + 1, stack'[i].looping PROVE FrameRules(stack'[i], R)
      OBVIOUS
    <2>1. i = n + 1 \/ i = n \/ (i \in 1..n - 1 /\ i \in 1..n)
      BY <1>2
    <2> QED BY <1>4, <1>6, <1>7, <2>1 DEF RulesInv
  <1>13. Len(stack') - 1 = n
    BY <1>2, <1>6
  <1>14. stack' # <<>> => stack'[1].node = doc'[At']
    BY <1>0, <1>10
  <1>15. \A i \in 1..Len(stack') - 1 : stack'[i + 1].node = stack'[i].node.kids[stack'[i].at]
    BY <1>11, <1>13
  <1>16. \A i \in 1..Len(stack') : stack'[i].looping => FrameRules(stack'[i], R)
    BY <1>6, <1>12
  <1>17. result' = NoResult
    BY <1>1
  <1> QED BY <1>0, <1>14, <1>15, <1>16, <1>17 DEF RulesInv

LEMMA RulesInit == ASSUME Init, NEW R PROVE RulesInv(R)
  <1>1. stack = <<>> /\ result = NoResult /\ Len(stack) = 0
    BY DEF Init
  <1>2. At = 1
    BY DEF Init, At, Obj
  <1> QED BY <1>1, <1>2 DEF RulesInv, TopsByRules

LEMMA RulesBegin ==
    ASSUME VisitTop, NEW R, RulesInv(R)
    PROVE  RulesInv(R)'
  <1>1. /\ stack' = <<Call(doc[At])>> /\ result' = NoResult
        /\ doc' = doc /\ js_doc' = js_doc
    BY DEF VisitTop
  <1>2. At' = At /\ TopsByRules(At - 1, R)'
    BY <1>1 DEF RulesInv, At, TopsByRules
  <1>3. Call(doc[At]).node = doc[At] /\ ~Call(doc[At]).looping
    BY DEF Call
  <1> DEFINE call == Call(doc[At])
  <1>4. call.node = doc[At] /\ ~call.looping /\ stack' = <<call>>
    BY <1>1, <1>3
  <1> HIDE DEF call
  <1>5. Len(stack') = 1 /\ stack'[1] = call /\ stack' # <<>>
    BY <1>4
  <1> QED BY <1>1, <1>2, <1>4, <1>5 DEF RulesInv

LEMMA RulesEnd ==
    ASSUME DocInv, PlaceTop, NEW R, RulesInv(R)
    PROVE  RulesInv(R)'
  <1>1. stack = <<>> /\ stack' = <<>> /\ result # NoResult /\ result' = NoResult /\ doc' = doc
    BY DEF PlaceTop
  <1>2. <<doc[At], result>> \in R /\ TopsByRules(At - 1, R)
    BY <1>1 DEF RulesInv, Converted
  <1> DEFINE k == At
  <1>3. k \in Nat \ {0} /\ 1..k = (1..k - 1) \cup {k}
    <2>1. k \in 1..Len(doc) /\ Len(doc) \in Nat
      BY MemberPlaced, LenProperties DEF DocInv
    <2> HIDE DEF k
    <2> QED BY <2>1
  <1>4. /\ At' = k + 1
        /\ \A i \in 1..k - 1 : js_doc'.members[i] = js_doc.members[i]
        /\ js_doc'.members[k].name = NameOf(doc[k]) /\ js_doc'.members[k].value = result
    BY MemberPlaced
  <1>5. \A i \in 1..k : /\ js_doc'.members[i].name = NameOf(doc[i])
                        /\ <<doc[i], js_doc'.members[i].value>> \in R
    BY <1>2, <1>3, <1>4 DEF TopsByRules
  <1> HIDE DEF k
  <1>6. At' - 1 = k
    BY <1>3, <1>4
  <1>7. TopsByRules(At - 1, R)'
    BY <1>1, <1>5, <1>6 DEF TopsByRules
  <1>8. Len(stack') = 0
    BY <1>1
  <1> QED BY <1>1, <1>7, <1>8 DEF RulesInv

LEMMA RulesStep ==
    ASSUME DocInv, StackInv, [Next]_vars, NEW R, ObeysTheRules(R), RulesInv(R)
    PROVE  RulesInv(R)'
  <1> DEFINE n == Top.node
  <1>1. \A text, members : /\ Str(text) # NoResult /\ Null # NoResult /\ Obj(members) # NoResult
                           /\ ~IsArray(Str(text)) /\ ~IsArray(Null) /\ ~IsArray(Obj(members))
    BY DEF Str, Null, Obj, NoResult, IsArray
  <1>2. Entering => stack # <<>> /\ n \in Nodes /\ ~Top.looping /\ FrameInv(Top, FALSE)
    BY InnermostCall DEF Entering, FrameInv, IsFrame
  <1>3. CASE ReturnText
    <2>1. Entering /\ IsText(n) /\ Return(Str(n.text)) /\ UNCHANGED <<doc, js_doc>>
      BY <1>3 DEF ReturnText
    <2>2. <<n, Str(n.text)>> \in R
      BY <1>2, <2>1 DEF ObeysTheRules
    <2> QED BY <1>1, <1>2, <2>1, <2>2, RulesReturn
  <1>4. CASE ReturnTextWithAttributes
    <2> DEFINE text == Str(n.kids[1].text)
               value == AddAttributes(n, Obj(<<Member(TextKey, text)>>))
               members == value.members
    <2>1. Entering /\ ~IsText(n) /\ n.attrs # <<>> /\ PureText(n) /\ Return(value) /\ UNCHANGED <<doc, js_doc>>
      BY <1>4 DEF ReturnTextWithAttributes
    <2>2. value = Obj(members) /\ IsSeq(members) /\ ObjectByRules(members, n, 1, <<text>>)
      BY <1>2, <2>1, TextObject
    <2>3. Len(n.kids) = 1 /\ IsText(n.kids[1]) /\ n.kids[1] \in Nodes
      <3>1. Len(n.kids) = 1 /\ IsText(n.kids[1])
        BY <2>1 DEF PureText, IsText
      <3>2. 1 \in 1..Len(n.kids)
        BY <3>1
      <3> QED BY <1>2, <2>1, <3>1, <3>2, NodeType
    <2>4. <<n.kids[1], text>> \in R
      BY <2>3 DEF ObeysTheRules
    <2> DEFINE vals == <<text>>
    <2>5. vals[1] = text
      OBVIOUS
    <2> HIDE DEF value, text, members, vals
    <2>6. \A p \in 1..Len(n.kids) : <<n.kids[p], vals[p]>> \in R
      BY <2>3, <2>4, <2>5
    <2>7. ObjectByRules(members, n, Len(n.kids), vals)
      BY <2>2, <2>3 DEF vals
    <2>8. <<n, Obj(members)>> \in R
      BY <1>2, <2>1, <2>2, <2>6, <2>7 DEF ObeysTheRules
    <2> QED BY <1>1, <1>2, <2>1, <2>2, <2>8, RulesReturn
  <1>5. CASE ReturnNull
    <2>1. Entering /\ ~IsText(n) /\ n.attrs = <<>> /\ n.kids = <<>> /\ Return(Null) /\ UNCHANGED <<doc, js_doc>>
      BY <1>5 DEF ReturnNull
    <2>2. <<n, Null>> \in R
      BY <1>2, <2>1 DEF ObeysTheRules
    <2> QED BY <1>1, <1>2, <2>1, <2>2, RulesReturn
  <1>6. CASE ReturnPureText
    <2>1. Entering /\ ~IsText(n) /\ n.attrs = <<>> /\ PureText(n) /\ Return(Str(n.kids[1].text)) /\ UNCHANGED <<doc, js_doc>>
      BY <1>6 DEF ReturnPureText
    <2>2. <<n, Str(n.kids[1].text)>> \in R
      BY <1>2, <2>1 DEF ObeysTheRules
    <2> QED BY <1>1, <1>2, <2>1, <2>2, RulesReturn
  <1>7. CASE EnterLoop
    <2> DEFINE g == [Top EXCEPT !.looping = TRUE, !.value = AddAttributes(Top.node, @)]
    <2>1. /\ Entering /\ ~IsText(n) /\ ~PureText(n) /\ (n.attrs # <<>> \/ n.kids # <<>>)
          /\ result' = NoResult /\ UNCHANGED <<doc, js_doc>> /\ stack' = Replaced(g)
      BY <1>7 DEF EnterLoop, Entering
    <2>2. g.node = n /\ FrameRules(g, R)
      BY <1>2, <2>1, EnterRules
    <2> HIDE DEF g
    <2> QED BY <1>2, <2>1, <2>2, RulesGoOn
  <1>8. CASE VisitChild
    BY <1>8, RulesVisit
  <1>9. CASE PlaceChild
    <2> DEFINE g == [Top EXCEPT
                        !.at = @ + 1,
                        !.value = IF Top.count[Key(Top)] > 1 THEN ToArrayForm(@, Key(Top), result)
                                  ELSE AddMember(@, Key(Top), result)]
    <2>1. /\ stack # <<>> /\ Top.looping /\ result # NoResult
          /\ result' = NoResult /\ UNCHANGED <<doc, js_doc>> /\ stack' = Replaced(g)
      BY <1>9 DEF PlaceChild, Looping, Key
    <2>2. FrameInv(Top, TRUE) /\ FrameRules(Top, R)
      <3>1. FrameInv(Top, TRUE) /\ Top = stack[Len(stack)] /\ Len(stack) \in Nat \ {0}
        BY <2>1, InnermostCall
      <3>2. Len(stack) \in 1..Len(stack)
        BY <3>1
      <3>3. FrameRules(Top, R)
        BY <2>1, <3>1, <3>2 DEF RulesInv
      <3> QED BY <3>1, <3>3
    <2>3. <<n.kids[Top.at], result>> \in R /\ ~IsArray(result)
      BY <2>1 DEF RulesInv, Converted
    <2>4. g.node = n /\ FrameRules(g, R)
      BY <2>1, <2>2, <2>3, PlaceRules
    <2> HIDE DEF g
    <2> QED BY <2>1, <2>4, RulesGoOn
  <1>10. CASE LeaveLoop
    <2> DEFINE members == Top.value.members
               k == Len(n.kids)
    <2>1. /\ stack # <<>> /\ Top.looping /\ result = NoResult /\ Top.at > k
          /\ Return(Top.value) /\ UNCHANGED <<doc, js_doc>>
      BY <1>10 DEF LeaveLoop, Looping
    <2>2. FrameInv(Top, FALSE) /\ FrameRules(Top, R)
      <3>1. FrameInv(Top, FALSE) /\ Top = stack[Len(stack)] /\ Len(stack) \in Nat \ {0}
        BY <2>1, InnermostCall
      <3>2. Len(stack) \in 1..Len(stack)
        BY <3>1
      <3>3. FrameRules(Top, R)
        BY <2>1, <3>1, <3>2 DEF RulesInv
      <3> QED BY <3>1, <3>3
    <2>3. IsFrame(Top) /\ LoopInv(Top, FALSE) /\ MembersInv(Top)
      BY <2>1, <2>2 DEF FrameInv
    <2>4. n \in Nodes /\ ~IsText(n) /\ Top.value = Obj(members) /\ IsSeq(members)
      BY <2>3 DEF IsFrame, LoopInv
    <2>5. Top.at - 1 = k
      <3>1. k \in Nat /\ Top.at \in 1..k + 1
        BY <2>3, <2>4, NodeType DEF LoopInv
      <3> QED BY <2>1, <3>1
    <2>6. (n.attrs # <<>> \/ n.kids # <<>>) /\ ~PureText(n)
      BY <2>2 DEF FrameRules
    <2>7. Clashes(n) => <<n, Obj(members)>> \in R
      <3> HIDE DEF members
      <3> QED BY <2>4 DEF ObeysTheRules
    <2>8. ASSUME ~Clashes(n) PROVE <<n, Obj(members)>> \in R
      <3>1. PICK vals : /\ \A p \in 1..k : <<n.kids[p], vals[p]>> \in R
                        /\ ValuesInv(Top, vals)
        BY <2>2, <2>5, <2>8 DEF FrameRules
      <3>2. ObjectByRules(members, n, k, vals)
        BY <2>3, <2>5, <2>8, <3>1, SharedWithoutClash DEF ObjectByRules, ValuesInv, MembersInv, Placed
      <3> HIDE DEF members
      <3> QED BY <2>4, <2>6, <3>1, <3>2 DEF ObeysTheRules
    <2>9. <<n, Obj(members)>> \in R
      BY <2>7, <2>8
    <2> HIDE DEF members
    <2> QED BY <1>1, <2>1, <2>4, <2>9, RulesReturn
  <1>11. CASE UNCHANGED vars
    BY <1>11 DEF RulesInv, Converted, TopsByRules, At, Top, vars
  <1>12. CASE VisitTop
    BY <1>12, RulesBegin
  <1>13. CASE PlaceTop
    BY <1>13, RulesEnd
  <1> QED BY <1>3, <1>4, <1>5, <1>6, <1>7, <1>8, <1>9, <1>10, <1>11, <1>12, <1>13 DEF Next

\* The object of every converted document has a member for each top-level node, in
\* their order and with its name, and its value is what the rules of xml2json's
\* README say of the node: each child's value is in the object of its element, alone
\* under its key or in the array of its key, in the order of the document, however
\* members were moved to make it.  Only of an element with a child <@x/> beside an
\* attribute x do the rules say nothing.
THEOREM ConversionsFollowTheRules == Spec => []ConvertsByTheRules
  <1> DEFINE Inv == \A R : ObeysTheRules(R) => RulesInv(R)
  <1>1. Init => Inv
    BY RulesInit
  <1>2. DocInv /\ StackInv /\ Inv /\ [Next]_vars => Inv'
    BY RulesStep DEF ObeysTheRules
  <1>3. DocInv /\ Inv => ConvertsByTheRules
    <2> SUFFICES ASSUME DocInv, Inv, Finished, NEW R, ObeysTheRules(R)
                 PROVE  Len(js_doc.members) = Len(doc) /\ TopsByRules(Len(doc), R)
      BY DEF ConvertsByTheRules
    <2>1. TopsByRules(At - 1, R)
      BY DEF RulesInv
    <2>2. Len(doc) \in Nat /\ Len(js_doc.members) \in Nat
      BY LenProperties DEF DocInv, IsSeq
    <2>3. Len(js_doc.members) = Len(doc) /\ At - 1 = Len(doc)
      BY <2>2 DEF Finished, DocInv, At
    <2> QED BY <2>1, <2>3
  <1> HIDE DEF Inv
  <1> QED BY <1>1, <1>2, <1>3, StackInvariant, PTL DEF Spec
=============================================================================
