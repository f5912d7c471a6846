--------------------------- MODULE Template_proofs ---------------------------
(***************************************************************************)
(* Proofs about the template engine, for every template and all values:    *)
(* sections nest, rendering stays inside the section it is in, each loop   *)
(* has a variable of its own that goes when the loop ends, and what is     *)
(* written is what the template stands for.                                *)
(***************************************************************************)
EXTENDS Template, SequenceTheorems, WellFoundedInduction, TLAPS

IsOpening(i) == source[i].kind \in Loops \cup {"if"}
OpenSections == {open[k] : k \in 1..Len(open)}
Closed(i) == i \in DOMAIN sections \ OpenSections

\* The sections that have been read, and those that are still open: each in the one
\* before it.
SectionsType ==
    /\ source \in Sources
    /\ pos \in 1..Len(source) + 1
    /\ DOMAIN sections = {i \in 1..pos - 1 : IsOpening(i)}
    /\ sections = [i \in DOMAIN sections |-> [end |-> sections[i].end, loopEnd |-> sections[i].loopEnd]]
    /\ open \in Seq(DOMAIN sections)
    /\ \A k, l \in 1..Len(open) : k < l => open[k] < open[l]

\* Two sections lie in one another or one behind the other.
SectionsNest ==
    /\ \A i \in DOMAIN sections : Closed(i) => sections[i].end \in i + 1..pos - 1
    /\ \A i, j \in DOMAIN sections :
          i < j /\ Closed(i) =>
              \/ sections[i].end < j
              \/ Closed(j) /\ sections[j].end < sections[i].end

\* The calls of render that are under way, each inside its section; only the first
\* is of the root.
Frame == [section : Nat, at : Nat, turn : Nat]

FrameInv(f) ==
    /\ f.section \in DOMAIN sections \cup {0}
    /\ f.at \in f.section + 1..End(f.section)

FramesInv(fs) ==
    /\ fs \in Seq(Frame) /\ fs # <<>>
    /\ \A k \in 1..Len(fs) : FrameInv(fs[k]) /\ (fs[k].section = 0 <=> k = 1)

RenderInv == pos = Len(source) + 1 /\ open = <<>> /\ FramesInv(frames)

\* A loop's variable is its own while it is rendered.
IsLoop(f) == f.section # 0 /\ source[f.section].kind \in Loops
Variable(f) == source[f.section].var

Scoped(fs, map) ==
    /\ \A i \in 1..Len(fs) : IsLoop(fs[i]) => Variable(fs[i]) \notin DOMAIN given
    /\ \A i, j \in 1..Len(fs) :
          IsLoop(fs[i]) /\ IsLoop(fs[j]) /\ i # j => Variable(fs[i]) # Variable(fs[j])
    /\ DOMAIN map = DOMAIN given \cup {Variable(fs[i]) : i \in {k \in 1..Len(fs) : IsLoop(fs[k])}}
    /\ \A name \in DOMAIN given : map[name] = given[name]

TemplateInv ==
    /\ SectionsType
    /\ SectionsNest
    /\ phase = "read" => frames = <<>> /\ valueByName = given
    /\ phase = "render" => RenderInv
    /\ Scoped(frames, valueByName)

-----------------------------------------------------------------------------
(* eatSection *)

LEMMA LenOfSource == TemplateInv => Len(source) \in Nat /\ pos \in 1..Len(source) + 1
  BY SourcesAssumption, LenProperties DEF TemplateInv, SectionsType

\* One token has been read that is no section's begin or end.
LEMMA StructureAfterCode ==
    ASSUME TemplateInv, EatCode
    PROVE  SectionsType' /\ SectionsNest'
  <1>1. Len(source) \in Nat /\ pos \in 1..Len(source) + 1
    BY LenOfSource
  <1>2. /\ source' = source /\ open' = open /\ sections' = sections
        /\ pos' = pos + 1 /\ pos <= Len(source) /\ ~IsOpening(pos)
    BY DEF EatCode, At, IsOpening, Loops
  <1>3. 1..pos' - 1 = (1..pos - 1) \cup {pos}
    BY <1>1, <1>2
  <1>4. {i \in 1..pos' - 1 : IsOpening(i)'} = {i \in 1..pos - 1 : IsOpening(i)}
    BY <1>2, <1>3 DEF IsOpening
  <1>5. SectionsType'
    BY <1>1, <1>2, <1>4 DEF TemplateInv, SectionsType
  <1>6. \A i : Closed(i)' <=> Closed(i)
    BY <1>2 DEF Closed, OpenSections
  <1>7. SectionsNest'
    <2>1. ASSUME NEW i \in DOMAIN sections, Closed(i) PROVE sections[i].end \in i + 1..pos' - 1
      <3>1. i \in 1..pos - 1 /\ sections[i].end \in i + 1..pos - 1
        BY <2>1 DEF TemplateInv, SectionsType, SectionsNest
      <3> QED BY <1>1, <1>2, <3>1
    <2>2. \A i, j \in DOMAIN sections :
             i < j /\ Closed(i) =>
                 \/ sections[i].end < j
                 \/ Closed(j) /\ sections[j].end < sections[i].end
      BY DEF TemplateInv, SectionsNest
    <2> QED BY <1>2, <1>6, <2>1, <2>2 DEF SectionsNest
  <1> QED BY <1>5, <1>7

\* A section begins inside those that are open.
LEMMA StructureAfterOpening ==
    ASSUME TemplateInv, EatOpening
    PROVE  /\ SectionsType' /\ SectionsNest'
           /\ Len(open) \in Nat /\ Len(open') = Len(open) + 1
           /\ \A k \in 1..Len(open) : open'[k] = open[k]
           /\ open'[Len(open) + 1] = pos
           /\ DOMAIN sections' = DOMAIN sections \cup {pos}
           /\ \A i \in DOMAIN sections : sections'[i] = sections[i]
           /\ sections'[pos].loopEnd = LoopEnd(source[pos])
           /\ \A i : Closed(i)' <=> Closed(i)
  <1> DEFINE new == [end |-> 0, loopEnd |-> LoopEnd(source[pos])]
  <1>1. Len(source) \in Nat /\ pos \in 1..Len(source) + 1
    BY LenOfSource
  <1>2. /\ source' = source /\ pos' = pos + 1 /\ pos <= Len(source) /\ IsOpening(pos)
        /\ open' = Append(open, pos)
        /\ sections' = Bind(sections, pos, new)
    BY DEF EatOpening, At, IsOpening
  <1>3. pos \notin DOMAIN sections /\ \A i \in DOMAIN sections : i \in Nat /\ i < pos
    BY <1>1 DEF TemplateInv, SectionsType
  <1>4. /\ DOMAIN sections' = DOMAIN sections \cup {pos}
        /\ \A i \in DOMAIN sections : sections'[i] = sections[i]
        /\ sections'[pos] = new
        /\ sections' = [i \in DOMAIN sections' |-> sections'[i]]
    <2> HIDE DEF new
    <2> QED BY <1>2, <1>3 DEF Bind
  <1>5. /\ Len(open) \in Nat
        /\ open' \in Seq(DOMAIN sections') /\ Len(open') = Len(open) + 1
        /\ \A k \in 1..Len(open) : open'[k] = open[k] /\ open[k] \in DOMAIN sections
        /\ open'[Len(open) + 1] = pos
    <2>1. open \in Seq(DOMAIN sections)
      BY DEF TemplateInv, SectionsType
    <2>2. open \in Seq(DOMAIN sections') /\ pos \in DOMAIN sections'
      BY <1>4, <2>1, SeqMonotonic
    <2> QED BY <1>2, <2>1, <2>2, AppendProperties, LenProperties, ElementOfSeq
  <1>6. 1..Len(open') = (1..Len(open)) \cup {Len(open) + 1}
    BY <1>5
  <1>7. SectionsType'
    <2>1. 1..pos' - 1 = (1..pos - 1) \cup {pos}
      BY <1>1, <1>2
    <2>2. DOMAIN sections' = {i \in 1..pos' - 1 : IsOpening(i)'}
      BY <1>2, <1>4, <2>1 DEF TemplateInv, SectionsType, IsOpening
    <2>3. \A i \in DOMAIN sections' :
             sections'[i] = [end |-> sections'[i].end, loopEnd |-> sections'[i].loopEnd]
      BY <1>4 DEF TemplateInv, SectionsType
    <2>4. \A k, l \in 1..Len(open') : k < l => open'[k] < open'[l]
      BY <1>3, <1>5, <1>6 DEF TemplateInv, SectionsType
    <2>5. source' \in Sources /\ pos' \in 1..Len(source') + 1
      BY <1>1, <1>2 DEF TemplateInv, SectionsType
    <2> QED BY <1>4, <1>5, <2>2, <2>3, <2>4, <2>5 DEF SectionsType
  <1>8. OpenSections' = OpenSections \cup {pos}
    BY <1>5, <1>6 DEF OpenSections
  <1>9. \A i : Closed(i)' <=> Closed(i)
    BY <1>3, <1>4, <1>8 DEF Closed
  <1>10. SectionsNest'
    <2>1. ASSUME NEW i \in DOMAIN sections', Closed(i)'
          PROVE  /\ i \in DOMAIN sections /\ Closed(i)
                 /\ sections'[i].end = sections[i].end /\ sections[i].end \in i + 1..pos - 1
      BY <1>4, <1>9, <2>1 DEF TemplateInv, SectionsNest, Closed
    <2>2. ASSUME NEW i \in DOMAIN sections', Closed(i)'
          PROVE  sections'[i].end \in i + 1..pos' - 1 /\ sections'[i].end < pos
      BY <1>1, <1>2, <1>3, <2>1, <2>2
    <2>3. ASSUME NEW i \in DOMAIN sections', NEW j \in DOMAIN sections', i < j, Closed(i)'
          PROVE  \/ sections'[i].end < j
                 \/ Closed(j)' /\ sections'[j].end < sections'[i].end
      <3>1. CASE j = pos
        BY <2>2, <2>3, <3>1
      <3>2. CASE j \in DOMAIN sections
        BY <1>4, <1>9, <2>1, <2>3, <3>2 DEF TemplateInv, SectionsNest
      <3> QED BY <1>4, <3>1, <3>2
    <2> QED BY <2>2, <2>3 DEF SectionsNest
  <1> QED BY <1>4, <1>5, <1>7, <1>9, <1>10

LEMMA FrontAndLast ==
    ASSUME NEW S, NEW s \in Seq(S), s # <<>>
    PROVE  /\ Len(s) \in Nat \ {0}
           /\ Last(s) = s[Len(s)] /\ Last(s) \in S
           /\ Front(s) \in Seq(S) /\ Len(Front(s)) = Len(s) - 1
           /\ \A i \in 1..Len(s) - 1 : Front(s)[i] = s[i]
  <1>1. Len(s) \in Nat \ {0}
    BY EmptySeq
  <1>2. Last(s) = s[Len(s)] /\ s[Len(s)] \in S
    BY <1>1, ElementOfSeq DEF Last
  <1> DEFINE n == Len(s) - 1
  <1>3. n \in Nat /\ \A i \in 1..n : s[i] \in S
    BY <1>1, ElementOfSeq
  <1> HIDE DEF n
  <1>4. /\ SubSeq(s, 1, n) \in Seq(S)
        /\ Len(SubSeq(s, 1, n)) = IF 1 <= n THEN n - 1 + 1 ELSE 0
        /\ \A i \in 1..n - 1 + 1 : SubSeq(s, 1, n)[i] = s[1 + i - 1]
    BY <1>3, SubSeqProperties
  <1>5. Len(SubSeq(s, 1, n)) = n /\ \A i \in 1..n : SubSeq(s, 1, n)[i] = s[i]
    BY <1>3, <1>4
  <1> QED BY <1>1, <1>2, <1>4, <1>5 DEF Front, n

\* The innermost of the open sections ends: the others go around it.
LEMMA StructureAfterEnd ==
    ASSUME TemplateInv, EatEnd
    PROVE  /\ SectionsType' /\ SectionsNest'
           /\ Len(open) \in Nat \ {0} /\ Len(open') = Len(open) - 1
           /\ \A k \in 1..Len(open) - 1 : open'[k] = open[k]
           /\ open[Len(open)] \in DOMAIN sections /\ Last(open) = open[Len(open)]
           /\ DOMAIN sections' = DOMAIN sections
           /\ \A i \in DOMAIN sections : i # open[Len(open)] => sections'[i] = sections[i]
           /\ sections'[open[Len(open)]] = [end |-> pos, loopEnd |-> sections[open[Len(open)]].loopEnd]
           /\ \A i : Closed(i)' <=> Closed(i) \/ i = open[Len(open)]
  <1> DEFINE n == Len(open)
             last == open[n]
  <1>1. Len(source) \in Nat /\ pos \in 1..Len(source) + 1
    BY LenOfSource
  <1>2. /\ source' = source /\ pos' = pos + 1 /\ pos <= Len(source) /\ ~IsOpening(pos)
        /\ open # <<>> /\ open' = Front(open)
        /\ sections' = [sections EXCEPT ![Last(open)].end = pos]
    BY DEF EatEnd, At, IsOpening, Loops
  <1>3. \A i \in DOMAIN sections : i \in Nat /\ i < pos
    BY <1>1 DEF TemplateInv, SectionsType
  <1>4. /\ n \in Nat \ {0} /\ Last(open) = last /\ last \in DOMAIN sections
        /\ open' \in Seq(DOMAIN sections) /\ Len(open') = n - 1
        /\ \A k \in 1..n - 1 : open'[k] = open[k]
        /\ \A k \in 1..n : open[k] \in DOMAIN sections
    <2>1. open \in Seq(DOMAIN sections)
      BY DEF TemplateInv, SectionsType
    <2> QED BY <1>2, <2>1, FrontAndLast, ElementOfSeq
  <1>5. /\ DOMAIN sections' = DOMAIN sections
        /\ \A i \in DOMAIN sections : i # last => sections'[i] = sections[i]
        /\ sections'[last] = [end |-> pos, loopEnd |-> sections[last].loopEnd]
        /\ sections' = [i \in DOMAIN sections |-> sections'[i]]
    <2>1. sections = [i \in DOMAIN sections |-> sections[i]]
      BY DEF TemplateInv, SectionsType
    <2>2. sections[last] = [end |-> sections[last].end, loopEnd |-> sections[last].loopEnd]
      BY <1>4 DEF TemplateInv, SectionsType
    <2>3. sections' = [sections EXCEPT ![last] = [sections[last] EXCEPT !.end = pos]]
      BY <1>2, <1>4
    <2>4. [sections[last] EXCEPT !.end = pos] = [end |-> pos, loopEnd |-> sections[last].loopEnd]
      BY <2>2
    <2> HIDE DEF last
    <2> QED BY <1>4, <2>1, <2>3, <2>4
  <1> HIDE DEF last
  <1>6. \A k \in 1..n - 1 : open[k] < last
    <2>1. \A k \in 1..n - 1 : k \in 1..n /\ n \in 1..n /\ k < n
      BY <1>4
    <2> QED BY <2>1 DEF TemplateInv, SectionsType, last
  <1>7. SectionsType'
    <2>1. 1..pos' - 1 = (1..pos - 1) \cup {pos}
      BY <1>1, <1>2
    <2>2. DOMAIN sections' = {i \in 1..pos' - 1 : IsOpening(i)'}
      BY <1>2, <1>5, <2>1 DEF TemplateInv, SectionsType, IsOpening
    <2>3. \A i \in DOMAIN sections' :
             sections'[i] = [end |-> sections'[i].end, loopEnd |-> sections'[i].loopEnd]
      <3>1. \A i \in DOMAIN sections :
               sections[i] = [end |-> sections[i].end, loopEnd |-> sections[i].loopEnd]
        BY DEF TemplateInv, SectionsType
      <3>2. sections'[last] = [end |-> sections'[last].end, loopEnd |-> sections'[last].loopEnd]
        BY <1>5
      <3> QED BY <1>5, <3>1, <3>2
    <2>4. \A k, l \in 1..Len(open') : k < l => open'[k] < open'[l]
      <3>1. \A k \in 1..n - 1 : k \in 1..n
        BY <1>4
      <3> QED BY <1>4, <3>1 DEF TemplateInv, SectionsType
    <2>5. source' \in Sources /\ pos' \in 1..Len(source') + 1
      BY <1>1, <1>2 DEF TemplateInv, SectionsType
    <2>6. sections' = [i \in DOMAIN sections' |->
                          [end |-> sections'[i].end, loopEnd |-> sections'[i].loopEnd]]
      BY <1>5, <2>3
    <2> QED BY <1>4, <1>5, <2>2, <2>4, <2>5, <2>6 DEF SectionsType
  <1>8. OpenSections' = OpenSections \ {last}
    <2>1. 1..n = (1..n - 1) \cup {n}
      BY <1>4
    <2>2. last \notin {open[k] : k \in 1..n - 1}
      BY <1>3, <1>4, <1>6
    <2> QED BY <1>4, <2>1, <2>2 DEF OpenSections, last
  <1>9. \A i : Closed(i)' <=> Closed(i) \/ i = last
    BY <1>4, <1>5, <1>8 DEF Closed
  <1>10. ASSUME NEW j \in DOMAIN sections, last < j PROVE Closed(j)
    <2>1. \A k \in 1..n : k = n \/ k \in 1..n - 1
      BY <1>4
    <2>2. \A k \in 1..n : open[k] <= last
      BY <1>3, <1>4, <1>6, <2>1 DEF last
    <2> QED BY <1>3, <1>4, <1>10, <2>2 DEF Closed, OpenSections
  <1>11. ~Closed(last)
    BY <1>4 DEF Closed, OpenSections, last
  <1>12. SectionsNest'
    <2>1. ASSUME NEW i \in DOMAIN sections, Closed(i)
          PROVE  /\ sections[i].end \in i + 1..pos - 1
                 /\ sections[i].end < pos
                 /\ sections'[i].end = sections[i].end
      <3>1. sections[i].end \in i + 1..pos - 1
        BY <2>1 DEF TemplateInv, SectionsNest
      <3> QED BY <1>1, <1>3, <1>5, <1>11, <2>1, <3>1
    <2>2. sections'[last].end = pos
      BY <1>5
    <2>3. ASSUME NEW i \in DOMAIN sections, Closed(i)'
          PROVE  sections'[i].end \in i + 1..pos' - 1
      BY <1>1, <1>2, <1>3, <1>9, <2>1, <2>2, <2>3
    <2>4. ASSUME NEW i \in DOMAIN sections, NEW j \in DOMAIN sections, i < j, Closed(i)'
          PROVE  \/ sections'[i].end < j
                 \/ Closed(j)' /\ sections'[j].end < sections'[i].end
      <3>1. CASE i = last
        BY <1>9, <1>10, <2>1, <2>2, <2>4, <3>1
      <3>2. CASE i # last
        <4>1. Closed(i)
          BY <1>9, <2>4, <3>2
        <4>2. \/ sections[i].end < j
              \/ Closed(j) /\ sections[j].end < sections[i].end
          BY <2>4, <4>1 DEF TemplateInv, SectionsNest
        <4> QED BY <1>9, <2>1, <4>1, <4>2
      <3> QED BY <3>1, <3>2
    <2> QED BY <1>5, <2>3, <2>4 DEF SectionsNest
  <1> QED BY <1>4, <1>5, <1>7, <1>9, <1>12 DEF last

-----------------------------------------------------------------------------
(* render *)

\* Reading is over once rendering has begun.
LEMMA RenderingStructure ==
    ASSUME TemplateInv, phase = "render"
    PROVE  /\ Len(source) \in Nat
           /\ DOMAIN sections = {i \in 1..Len(source) : IsOpening(i)}
           /\ \A i \in DOMAIN sections : End(i) = sections[i].end /\ End(i) \in i + 1..Len(source)
           /\ End(0) = Len(source) + 1
           /\ \A i, j \in DOMAIN sections : i < j => End(i) < j \/ End(j) < End(i)
  <1>1. Len(source) \in Nat /\ pos = Len(source) + 1 /\ pos - 1 = Len(source) /\ open = <<>>
    BY LenOfSource DEF TemplateInv, RenderInv
  <1>2. DOMAIN sections = {i \in 1..Len(source) : IsOpening(i)}
    BY <1>1 DEF TemplateInv, SectionsType
  <1>3. OpenSections = {}
    BY <1>1 DEF OpenSections
  <1>4. \A i \in DOMAIN sections : Closed(i) /\ i # 0
    BY <1>1, <1>2, <1>3 DEF Closed
  <1>5. \A i \in DOMAIN sections : End(i) = sections[i].end
    BY <1>4 DEF End
  <1>6. \A i \in DOMAIN sections : sections[i].end \in i + 1..Len(source)
    BY <1>1, <1>4 DEF TemplateInv, SectionsNest
  <1>7. \A i, j \in DOMAIN sections : i < j => sections[i].end < j \/ sections[j].end < sections[i].end
    BY <1>4 DEF TemplateInv, SectionsNest
  <1> QED BY <1>1, <1>2, <1>5, <1>6, <1>7 DEF End

LEMMA InnermostSection ==
    ASSUME TemplateInv, phase = "render"
    PROVE  /\ Len(frames) \in Nat \ {0}
           /\ Top = frames[Len(frames)] /\ Top \in Frame /\ FrameInv(Top)
           /\ Top.section = 0 <=> Len(frames) = 1
  <1>1. frames \in Seq(Frame) /\ frames # <<>>
    BY DEF TemplateInv, RenderInv, FramesInv
  <1>2. Len(frames) \in Nat \ {0} /\ Top = frames[Len(frames)] /\ Top \in Frame
    BY <1>1, FrontAndLast DEF Top
  <1>3. Len(frames) \in 1..Len(frames)
    BY <1>2
  <1>4. \A k \in 1..Len(frames) : FrameInv(frames[k]) /\ (frames[k].section = 0 <=> k = 1)
    BY DEF TemplateInv, RenderInv, FramesInv
  <1> QED BY <1>2, <1>3, <1>4

\* The next token of a section is inside the source, and if it begins a section
\* that one ends before the section does.
LEMMA InsideTheSection ==
    ASSUME TemplateInv, phase = "render", ~AtEnd
    PROVE  /\ Top.at \in 1..Len(source)
           /\ Top.at + 1 \in Top.section + 1..End(Top.section)
           /\ IsOpening(Top.at) =>
                 /\ Top.at \in DOMAIN sections
                 /\ End(Top.at) + 1 \in Top.section + 1..End(Top.section)
                 /\ Top.at + 1 \in Top.at + 1..End(Top.at)
  <1>1. FrameInv(Top)
    BY InnermostSection
  <1>2. Top.section \in Nat /\ End(Top.section) \in Nat /\ End(Top.section) <= Len(source) + 1
    BY <1>1, RenderingStructure DEF FrameInv
  <1>3. Top.at \in Nat /\ Top.section < Top.at /\ Top.at < End(Top.section)
    BY <1>1, <1>2 DEF FrameInv, AtEnd
  <1>4. Len(source) \in Nat /\ Top.at \in 1..Len(source)
    BY <1>2, <1>3, RenderingStructure
  <1>5. ASSUME IsOpening(Top.at)
        PROVE  /\ Top.at \in DOMAIN sections
               /\ End(Top.at) \in Top.at + 1..Len(source)
               /\ End(Top.at) < End(Top.section)
    <2>1. Top.at \in DOMAIN sections /\ End(Top.at) \in Top.at + 1..Len(source)
      BY <1>4, <1>5, RenderingStructure
    <2>2. CASE Top.section = 0
      BY <1>4, <2>1, <2>2, RenderingStructure
    <2>3. CASE Top.section # 0
      <3>1. Top.section \in DOMAIN sections
        BY <1>1, <2>3 DEF FrameInv
      <3>2. End(Top.section) < Top.at \/ End(Top.at) < End(Top.section)
        BY <1>3, <2>1, <3>1, RenderingStructure
      <3> QED BY <1>2, <1>3, <2>1, <3>2
    <2> QED BY <2>1, <2>2, <2>3
  <1> QED BY <1>2, <1>3, <1>4, <1>5

-----------------------------------------------------------------------------
(* The stack of rendered sections *)

LEMMA FramePushed ==
    ASSUME NEW fs, FramesInv(fs), NEW f \in Frame, FrameInv(f), f.section # 0
    PROVE  /\ FramesInv(Append(fs, f))
           /\ Len(Append(fs, f)) = Len(fs) + 1
           /\ \A i \in 1..Len(fs) : Append(fs, f)[i] = fs[i]
           /\ Append(fs, f)[Len(fs) + 1] = f
  <1> DEFINE gs == Append(fs, f)
  <1>1. /\ Len(fs) \in Nat \ {0}
        /\ gs \in Seq(Frame) /\ gs # <<>> /\ Len(gs) = Len(fs) + 1
        /\ \A i \in 1..Len(fs) : gs[i] = fs[i]
        /\ gs[Len(fs) + 1] = f
    BY AppendProperties, EmptySeq DEF FramesInv
  <1> HIDE DEF gs
  <1>2. ASSUME NEW k \in 1..Len(gs) PROVE FrameInv(gs[k]) /\ (gs[k].section = 0 <=> k = 1)
    <2>1. CASE k = Len(fs) + 1
      BY <1>1, <2>1
    <2>2. CASE k # Len(fs) + 1
      <3>1. k \in 1..Len(fs)
        BY <1>1, <2>2
      <3> QED BY <1>1, <3>1 DEF FramesInv
    <2> QED BY <2>1, <2>2
  <1> QED BY <1>1, <1>2 DEF FramesInv, gs

LEMMA FrameReplaced ==
    ASSUME NEW fs, FramesInv(fs), NEW f \in Frame, FrameInv(f), f.section = Last(fs).section
    PROVE  LET gs == Append(Front(fs), f)
           IN  /\ FramesInv(gs)
               /\ Len(gs) = Len(fs)
               /\ \A i \in 1..Len(fs) : gs[i].section = fs[i].section
  <1> DEFINE gs == Append(Front(fs), f)
             n == Len(fs)
  <1>1. fs \in Seq(Frame) /\ fs # <<>>
    BY DEF FramesInv
  <1>2. /\ n \in Nat \ {0} /\ Last(fs) = fs[n]
        /\ Front(fs) \in Seq(Frame) /\ Len(Front(fs)) = n - 1
        /\ \A i \in 1..n - 1 : Front(fs)[i] = fs[i]
    BY <1>1, FrontAndLast
  <1>3. /\ gs \in Seq(Frame) /\ gs # <<>> /\ Len(gs) = n - 1 + 1
        /\ \A i \in 1..n - 1 : gs[i] = Front(fs)[i]
        /\ gs[n - 1 + 1] = f
    BY <1>2, AppendProperties
  <1> HIDE DEF gs
  <1>4. Len(gs) = n /\ gs[n] = f /\ \A i \in 1..n - 1 : gs[i] = fs[i]
    BY <1>2, <1>3
  <1>5. ASSUME NEW k \in 1..n
        PROVE  FrameInv(gs[k]) /\ (gs[k].section = 0 <=> k = 1) /\ gs[k].section = fs[k].section
    <2>1. FrameInv(fs[k]) /\ (fs[k].section = 0 <=> k = 1)
      BY DEF FramesInv
    <2>2. CASE k = n
      BY <1>2, <1>4, <2>1, <2>2
    <2>3. CASE k # n
      <3>1. k \in 1..n - 1
        BY <1>2, <2>3
      <3> QED BY <1>4, <2>1, <3>1
    <2> QED BY <2>2, <2>3
  <1> QED BY <1>3, <1>4, <1>5 DEF FramesInv, gs

LEMMA FramePopped ==
    ASSUME NEW fs, FramesInv(fs), Last(fs).section # 0
    PROVE  /\ FramesInv(Front(fs))
           /\ Len(Front(fs)) = Len(fs) - 1
           /\ \A i \in 1..Len(fs) - 1 : Front(fs)[i] = fs[i]
  <1>1. fs \in Seq(Frame) /\ fs # <<>>
    BY DEF FramesInv
  <1>2. /\ Len(fs) \in Nat \ {0} /\ Last(fs) = fs[Len(fs)]
        /\ Front(fs) \in Seq(Frame) /\ Len(Front(fs)) = Len(fs) - 1
        /\ \A i \in 1..Len(fs) - 1 : Front(fs)[i] = fs[i]
    BY <1>1, FrontAndLast
  <1>3. Len(fs) # 1
    BY <1>2 DEF FramesInv
  <1>4. Front(fs) # <<>>
    BY <1>2, <1>3, EmptySeq
  <1>5. ASSUME NEW k \in 1..Len(Front(fs))
        PROVE  FrameInv(Front(fs)[k]) /\ (Front(fs)[k].section = 0 <=> k = 1)
    <2>1. k \in 1..Len(fs) /\ Front(fs)[k] = fs[k]
      BY <1>2
    <2> QED BY <2>1 DEF FramesInv
  <1> QED BY <1>2, <1>4, <1>5 DEF FramesInv

-----------------------------------------------------------------------------
(* The variables of the loops *)

\* Where a section is within itself does not matter.
LEMMA ScopedSame ==
    ASSUME NEW fs, NEW gs, NEW map, Len(gs) = Len(fs),
           \A i \in 1..Len(fs) : gs[i].section = fs[i].section, Scoped(fs, map)
    PROVE  Scoped(gs, map)
  <1>1. \A i \in 1..Len(fs) : IsLoop(gs[i]) = IsLoop(fs[i]) /\ Variable(gs[i]) = Variable(fs[i])
    BY DEF IsLoop, Variable
  <1>2. {Variable(gs[i]) : i \in {k \in 1..Len(gs) : IsLoop(gs[k])}} =
            {Variable(fs[i]) : i \in {k \in 1..Len(fs) : IsLoop(fs[k])}}
    BY <1>1
  <1> QED BY <1>1, <1>2 DEF Scoped

\* One section more: an if section has no variable, a loop's was not there before.
LEMMA ScopedPushed ==
    ASSUME NEW fs, NEW gs, NEW map, Len(fs) \in Nat, Len(gs) = Len(fs) + 1,
           \A i \in 1..Len(fs) : gs[i].section = fs[i].section, Scoped(fs, map)
    PROVE  LET f == gs[Len(gs)]
           IN  /\ ~IsLoop(f) => Scoped(gs, map)
               /\ IsLoop(f) /\ Variable(f) \notin DOMAIN map =>
                     \A v : Scoped(gs, Bind(map, Variable(f), v))
  <1> DEFINE n == Len(fs)
             f == gs[Len(gs)]
             names(hs) == {Variable(hs[i]) : i \in {k \in 1..Len(hs) : IsLoop(hs[k])}}
  <1>1. /\ \A i \in 1..n : IsLoop(gs[i]) = IsLoop(fs[i]) /\ Variable(gs[i]) = Variable(fs[i])
        /\ 1..Len(gs) = (1..n) \cup {n + 1} /\ n + 1 \notin 1..n /\ gs[n + 1] = f
    BY DEF IsLoop, Variable
  <1> HIDE DEF f, n
  <1>2. CASE ~IsLoop(f)
    <2>1. names(gs) = names(fs)
      BY <1>1, <1>2 DEF n
    <2> QED BY <1>1, <1>2, <2>1 DEF Scoped, n, f
  <1>3. ASSUME IsLoop(f), Variable(f) \notin DOMAIN map, NEW v
        PROVE  Scoped(gs, Bind(map, Variable(f), v))
    <2> DEFINE new == Bind(map, Variable(f), v)
    <2>1. names(gs) = names(fs) \cup {Variable(f)}
      BY <1>1, <1>3 DEF n
    <2>2. /\ DOMAIN new = DOMAIN map \cup {Variable(f)}
          /\ \A name \in DOMAIN map : new[name] = map[name]
      BY <1>3 DEF Bind
    <2>3. DOMAIN map = DOMAIN given \cup names(fs)
      BY DEF Scoped
    <2>4. \A i \in 1..n : IsLoop(fs[i]) => Variable(fs[i]) \in DOMAIN map
      BY <2>3 DEF n
    <2>5. \A i \in 1..Len(gs) : IsLoop(gs[i]) => Variable(gs[i]) \notin DOMAIN given
      BY <1>1, <1>3, <2>3 DEF Scoped, n
    <2>6. \A i, j \in 1..Len(gs) :
             IsLoop(gs[i]) /\ IsLoop(gs[j]) /\ i # j => Variable(gs[i]) # Variable(gs[j])
      BY <1>1, <1>3, <2>4 DEF Scoped, n
    <2>7. \A name \in DOMAIN given : new[name] = given[name]
      BY <2>2, <2>3 DEF Scoped
    <2> HIDE DEF new
    <2> QED BY <2>1, <2>2, <2>3, <2>5, <2>6, <2>7 DEF Scoped, new
  <1> QED BY <1>2, <1>3 DEF f

\* The innermost section ends: a loop's variable goes with it.
LEMMA ScopedPopped ==
    ASSUME NEW fs, NEW gs, NEW map, Len(fs) \in Nat \ {0}, Len(gs) = Len(fs) - 1,
           \A i \in 1..Len(gs) : gs[i] = fs[i], Scoped(fs, map)
    PROVE  LET f == fs[Len(fs)]
           IN  /\ ~IsLoop(f) => Scoped(gs, map)
               /\ IsLoop(f) => Scoped(gs, Erase(map, Variable(f)))
  <1> DEFINE n == Len(gs)
             f == fs[Len(fs)]
             names(hs) == {Variable(hs[i]) : i \in {k \in 1..Len(hs) : IsLoop(hs[k])}}
  <1>1. 1..Len(fs) = (1..n) \cup {n + 1} /\ n + 1 \notin 1..n /\ fs[n + 1] = f
    OBVIOUS
  <1> HIDE DEF f, n
  <1>2. CASE ~IsLoop(f)
    <2>1. names(gs) = names(fs)
      BY <1>1, <1>2 DEF n
    <2> QED BY <1>1, <1>2, <2>1 DEF Scoped, n, f
  <1>3. CASE IsLoop(f)
    <2> DEFINE new == Erase(map, Variable(f))
    <2>1. names(fs) = names(gs) \cup {Variable(f)}
      BY <1>1, <1>3 DEF n
    <2>2. \A i \in 1..n : IsLoop(fs[i]) => Variable(fs[i]) # Variable(f)
      BY <1>1, <1>3 DEF Scoped
    <2>3. Variable(f) \notin names(gs)
      BY <2>2 DEF n
    <2>4. Variable(f) \notin DOMAIN given
      BY <1>1, <1>3 DEF Scoped
    <2>5. /\ DOMAIN new = DOMAIN map \ {Variable(f)}
          /\ \A name \in DOMAIN new : new[name] = map[name]
      BY DEF Erase
    <2>6. DOMAIN map = DOMAIN given \cup names(fs)
      BY DEF Scoped
    <2>7. DOMAIN new = DOMAIN given \cup names(gs)
      BY <2>1, <2>3, <2>4, <2>5, <2>6
    <2>8. \A name \in DOMAIN given : new[name] = given[name]
      BY <2>5, <2>7 DEF Scoped
    <2> HIDE DEF new
    <2> QED BY <1>1, <2>7, <2>8 DEF Scoped, n, new
  <1> QED BY <1>2, <1>3 DEF f

\* The next turn: the innermost loop's variable has a new value.
LEMMA ScopedRebound ==
    ASSUME NEW fs, NEW map, NEW k \in 1..Len(fs), IsLoop(fs[k]), NEW v, Scoped(fs, map)
    PROVE  Scoped(fs, Bind(map, Variable(fs[k]), v))
  <1> DEFINE name == Variable(fs[k])
  <1>1. name \in DOMAIN map /\ name \notin DOMAIN given
    BY DEF Scoped
  <1>2. /\ DOMAIN Bind(map, name, v) = DOMAIN map
        /\ \A n \in DOMAIN map : n # name => Bind(map, name, v)[n] = map[n]
    BY <1>1 DEF Bind
  <1>3. \A n \in DOMAIN given : n \in DOMAIN map /\ n # name
    BY <1>1 DEF Scoped
  <1> HIDE DEF name
  <1> QED BY <1>2, <1>3 DEF Scoped, name

-----------------------------------------------------------------------------
(* The invariant *)

LEMMA ScopedAtFirst == Scoped(<<>>, given)
  <1>1. 1..Len(<<>>) = {}
    OBVIOUS
  <1>2. {Variable(<<>>[i]) : i \in {k \in 1..Len(<<>>) : IsLoop(<<>>[k])}} = {}
    BY <1>1
  <1> QED BY <1>1, <1>2 DEF Scoped

LEMMA TemplateInit == Init => TemplateInv
  <1> SUFFICES ASSUME Init PROVE TemplateInv
    OBVIOUS
  <1>1. /\ source \in Sources /\ pos = 1 /\ open = <<>> /\ sections = <<>>
        /\ phase = "read" /\ frames = <<>> /\ valueByName = given
    BY DEF Init
  <1>2. Len(source) \in Nat
    BY <1>1, SourcesAssumption, LenProperties
  <1>3. DOMAIN sections = {} /\ 1..pos - 1 = {} /\ Len(open) = 0 /\ Len(frames) = 0
    BY <1>1
  <1>4. SectionsType
    <2>1. sections = [i \in DOMAIN sections |-> [end |-> sections[i].end, loopEnd |-> sections[i].loopEnd]]
      BY <1>1
    <2>2. open \in Seq(DOMAIN sections)
      BY <1>1
    <2> QED BY <1>1, <1>2, <1>3, <2>1, <2>2 DEF SectionsType
  <1>5. SectionsNest
    BY <1>3 DEF SectionsNest
  <1>6. Scoped(frames, valueByName)
    BY <1>1, ScopedAtFirst
  <1> QED BY <1>1, <1>4, <1>5, <1>6 DEF TemplateInv

\* While the source is read no value is touched.
LEMMA ReadStep ==
    ASSUME TemplateInv, phase = "read", phase' = "read", SectionsType', SectionsNest',
           UNCHANGED <<source, given, rendering>>
    PROVE  TemplateInv'
  <1>1. frames' = <<>> /\ valueByName' = given' /\ Len(frames') = 0
    BY DEF TemplateInv, rendering
  <1>2. Scoped(frames, valueByName)'
    <2>1. /\ source' = source /\ given' = given /\ frames' = <<>> /\ valueByName' = given
      BY <1>1
    <2> QED BY <2>1, ScopedAtFirst DEF Scoped, IsLoop, Variable
  <1> QED BY <1>1, <1>2 DEF TemplateInv

\* Rendering does not touch what was read.
LEMMA SectionsStay ==
    ASSUME TemplateInv, UNCHANGED <<source, given, reading>>
    PROVE  SectionsType' /\ SectionsNest'
  <1>1. source' = source /\ pos' = pos /\ open' = open /\ sections' = sections
    BY DEF reading
  <1>2. SectionsType'
    BY <1>1 DEF TemplateInv, SectionsType, IsOpening
  <1>3. SectionsNest'
    BY <1>1 DEF TemplateInv, SectionsNest, Closed, OpenSections
  <1> QED BY <1>2, <1>3

LEMMA RenderStep ==
    ASSUME TemplateInv, UNCHANGED <<source, given, reading>>, phase = "render", phase' = "render",
           NEW fs, NEW map, frames' = fs, valueByName' = map, FramesInv(fs), Scoped(fs, map)
    PROVE  TemplateInv'
  <1>1. /\ source' = source /\ given' = given
        /\ pos' = pos /\ open' = open /\ sections' = sections
    BY DEF reading
  <1>2. RenderInv'
    BY <1>1 DEF TemplateInv, RenderInv, FramesInv, FrameInv, End
  <1>3. Scoped(frames, valueByName)'
    BY <1>1 DEF Scoped, IsLoop, Variable
  <1> QED BY <1>2, <1>3, SectionsStay DEF TemplateInv

\* A guest that has aborted has left everything as it was.
LEMMA AbortStep ==
    ASSUME TemplateInv, Abort
    PROVE  TemplateInv'
  <1>1. /\ source' = source /\ given' = given /\ frames' = frames
        /\ valueByName' = valueByName /\ phase' = "aborted"
        /\ UNCHANGED reading
    BY DEF Abort, rendering
  <1>2. Scoped(frames, valueByName)'
    BY <1>1 DEF TemplateInv, Scoped, IsLoop, Variable
  <1> QED BY <1>1, <1>2, SectionsStay DEF TemplateInv

\* The innermost section goes on at another place inside it.
LEMMA AdvancedFrames ==
    ASSUME TemplateInv, phase = "render", NEW to \in Top.section + 1..End(Top.section)
    PROVE  /\ FramesInv(Advanced(to))
           /\ Len(Advanced(to)) = Len(frames)
           /\ \A i \in 1..Len(frames) : Advanced(to)[i].section = frames[i].section
           /\ Scoped(Advanced(to), valueByName)
  <1> DEFINE f == [Top EXCEPT !.at = to]
  <1>1. Top \in Frame /\ FrameInv(Top) /\ FramesInv(frames) /\ Top = Last(frames)
    BY InnermostSection DEF TemplateInv, RenderInv, Top
  <1>2. Top.section \in Nat /\ End(Top.section) \in Nat
    BY <1>1, RenderingStructure DEF Frame, FrameInv
  <1>3. f \in Frame /\ f.section = Top.section /\ f.at = to
    BY <1>1, <1>2 DEF Frame
  <1> HIDE DEF f
  <1>4. FrameInv(f)
    BY <1>1, <1>3 DEF FrameInv
  <1>5. /\ FramesInv(Append(Front(frames), f))
        /\ Len(Append(Front(frames), f)) = Len(frames)
        /\ \A i \in 1..Len(frames) : Append(Front(frames), f)[i].section = frames[i].section
    BY <1>1, <1>3, <1>4, FrameReplaced
  <1>6. Advanced(to) = Append(Front(frames), f)
    BY DEF Advanced, f
  <1>7. Scoped(Advanced(to), valueByName)
    BY <1>5, <1>6, ScopedSame DEF TemplateInv
  <1> QED BY <1>5, <1>6, <1>7

\* The section that begins at the place of the innermost is entered.
LEMMA EnteredFrames ==
    ASSUME TemplateInv, phase = "render", ~AtEnd, IsOpening(Top.at)
    PROVE  LET fs == Entered(Top.at)
           IN  /\ FramesInv(fs)
               /\ Len(frames) \in Nat /\ Len(fs) = Len(frames) + 1
               /\ \A i \in 1..Len(frames) : fs[i].section = frames[i].section
               /\ fs[Len(fs)].section = Top.at /\ Top.at # 0
  <1> DEFINE i == Top.at
             gs == Advanced(End(i) + 1)
             f == [section |-> i, at |-> i + 1, turn |-> 0]
  <1>1. /\ Len(frames) \in Nat
        /\ Top.at \in 1..Len(source) /\ Len(source) \in Nat
        /\ Top.at \in DOMAIN sections
        /\ End(Top.at) + 1 \in Top.section + 1..End(Top.section)
        /\ Top.at + 1 \in Top.at + 1..End(Top.at)
    BY InnermostSection, InsideTheSection, RenderingStructure
  <1>2. /\ FramesInv(gs) /\ Len(gs) = Len(frames)
        /\ \A k \in 1..Len(frames) : gs[k].section = frames[k].section
    BY <1>1, AdvancedFrames
  <1>3. f \in Frame /\ f.section = i /\ f.at = i + 1 /\ i # 0
    BY <1>1 DEF Frame
  <1> HIDE DEF f
  <1>4. FrameInv(f)
    BY <1>1, <1>3 DEF FrameInv
  <1> HIDE DEF gs, i
  <1>5. /\ FramesInv(Append(gs, f))
        /\ Len(Append(gs, f)) = Len(gs) + 1
        /\ \A k \in 1..Len(gs) : Append(gs, f)[k] = gs[k]
        /\ Append(gs, f)[Len(gs) + 1] = f
    BY <1>2, <1>3, <1>4, FramePushed
  <1>6. Entered(i) = Append(gs, f)
    BY DEF Entered, gs, f, i
  <1> QED BY <1>1, <1>2, <1>3, <1>5, <1>6 DEF i

-----------------------------------------------------------------------------
(* Each action *)

LEMMA LastStep == ASSUME TemplateInv, EatLast PROVE TemplateInv'
  <1> DEFINE root == [section |-> 0, at |-> 1, turn |-> 0]
  <1>1. /\ pos > Len(source) /\ open = <<>> /\ phase = "read" /\ phase' = "render"
        /\ frames' = <<root>> /\ valueByName' = valueByName
        /\ UNCHANGED <<source, given, reading>>
    BY DEF EatLast
  <1>2. Len(source) \in Nat /\ pos = Len(source) + 1 /\ frames = <<>>
    BY <1>1, LenOfSource DEF TemplateInv
  <1>3. root \in Frame /\ root.section = 0 /\ root.at = 1
    BY DEF Frame
  <1> HIDE DEF root
  <1>4. FrameInv(root)
    BY <1>2, <1>3 DEF FrameInv, End
  <1>5. <<root>> \in Seq(Frame) /\ Len(<<root>>) = 1 /\ <<root>>[1] = root
    BY <1>3
  <1>6. FramesInv(<<root>>)
    BY <1>3, <1>4, <1>5 DEF FramesInv
  <1>7. ~IsLoop(root)
    BY <1>3 DEF IsLoop
  <1>8. Scoped(<<root>>, valueByName)
    <2>1. Len(<<>>) = 0 /\ \A i \in 1..Len(<<>>) : <<root>>[i].section = <<>>[i].section
      OBVIOUS
    <2>2. Scoped(<<>>, valueByName)
      BY <1>2 DEF TemplateInv
    <2>3. Len(<<root>>) = Len(<<>>) + 1 /\ ~IsLoop(<<root>>[Len(<<root>>)])
      BY <1>5, <1>7, <2>1
    <2> DEFINE none == <<>>
               fs == <<root>>
    <2>4. /\ Len(none) \in Nat /\ Len(fs) = Len(none) + 1 /\ ~IsLoop(fs[Len(fs)])
          /\ \A i \in 1..Len(none) : fs[i].section = none[i].section
          /\ Scoped(none, valueByName)
      BY <2>1, <2>2, <2>3
    <2> HIDE DEF none, fs
    <2>5. Scoped(fs, valueByName)
      BY <2>4, ScopedPushed
    <2> QED BY <2>5 DEF fs
  <1>9. /\ source' = source /\ given' = given
        /\ pos' = pos /\ open' = open /\ sections' = sections
    BY <1>1 DEF reading
  <1>10. RenderInv'
    BY <1>1, <1>2, <1>6, <1>9 DEF RenderInv, FramesInv, FrameInv, End
  <1>11. Scoped(frames, valueByName)'
    BY <1>1, <1>8, <1>9 DEF Scoped, IsLoop, Variable
  <1> QED BY <1>1, <1>10, <1>11, SectionsStay DEF TemplateInv

LEMMA CodeStep == ASSUME TemplateInv, RenderCode PROVE TemplateInv'
  <1>1. CASE Abort
    BY <1>1, AbortStep
  <1>2. CASE ~Abort
    <2>1. /\ phase = "render" /\ phase' = "render" /\ ~AtEnd
          /\ frames' = Advanced(Top.at + 1) /\ valueByName' = valueByName
          /\ UNCHANGED <<source, given, reading>>
      BY <1>2 DEF RenderCode, Renders
    <2>2. Top.at + 1 \in Top.section + 1..End(Top.section)
      BY <2>1, InsideTheSection
    <2>3. FramesInv(Advanced(Top.at + 1)) /\ Scoped(Advanced(Top.at + 1), valueByName)
      BY <2>1, <2>2, AdvancedFrames
    <2> QED BY <2>1, <2>3, RenderStep
  <1> QED BY <1>1, <1>2

\* A section is skipped.
LEMMA SkipStep ==
    ASSUME TemplateInv, phase = "render", ~AtEnd, IsOpening(Top.at),
           frames' = Advanced(End(Top.at) + 1),
           UNCHANGED <<source, given, phase, reading, valueByName, result>>
    PROVE  TemplateInv'
  <1>1. End(Top.at) + 1 \in Top.section + 1..End(Top.section)
    BY InsideTheSection
  <1>2. FramesInv(Advanced(End(Top.at) + 1)) /\ Scoped(Advanced(End(Top.at) + 1), valueByName)
    BY <1>1, AdvancedFrames
  <1> QED BY <1>2, RenderStep

LEMMA IfStep == ASSUME TemplateInv, RenderIf PROVE TemplateInv'
  <1>1. /\ phase = "render" /\ ~AtEnd /\ source[Top.at].kind = "if" /\ IsOpening(Top.at)
        /\ UNCHANGED <<source, given, phase, reading, valueByName, result>>
    BY DEF RenderIf, Renders, IsOpening
  <1>2. CASE frames' = Advanced(End(Top.at) + 1)
    BY <1>1, <1>2, SkipStep
  <1>3. CASE frames' = Entered(Top.at)
    <2> DEFINE fs == Entered(Top.at)
    <2>1. /\ FramesInv(fs)
          /\ Len(frames) \in Nat /\ Len(fs) = Len(frames) + 1
          /\ \A i \in 1..Len(frames) : fs[i].section = frames[i].section
          /\ fs[Len(fs)].section = Top.at
      BY <1>1, EnteredFrames
    <2> HIDE DEF fs
    <2>2. ~IsLoop(fs[Len(fs)])
      BY <1>1, <2>1 DEF IsLoop, Loops
    <2>3. Scoped(fs, valueByName)
      BY <2>1, <2>2, ScopedPushed DEF TemplateInv
    <2> QED BY <1>1, <1>3, <2>1, <2>3, RenderStep DEF fs
  <1> QED BY <1>2, <1>3 DEF RenderIf

LEMMA ForStep == ASSUME TemplateInv, RenderFor PROVE TemplateInv'
  <1> DEFINE var == source[Top.at].var
  <1>1. /\ phase = "render" /\ ~AtEnd /\ source[Top.at].kind \in Loops /\ IsOpening(Top.at)
    BY DEF RenderFor, Renders, IsOpening
  <1>2. CASE Abort
    BY <1>2, AbortStep
  <1>3. CASE ~Abort /\ Turns(Top.at) <= 0
    BY <1>1, <1>3, SkipStep DEF RenderFor
  <1>4. CASE ~Abort /\ ~(Turns(Top.at) <= 0)
    <2> DEFINE fs == Entered(Top.at)
               map == Bind(valueByName, var, Item(Top.at, 0))
    <2>1. /\ var \notin DOMAIN valueByName
          /\ frames' = fs /\ valueByName' = map /\ phase' = "render"
          /\ UNCHANGED <<source, given, reading>>
      BY <1>1, <1>4 DEF RenderFor
    <2>2. /\ FramesInv(fs)
          /\ Len(frames) \in Nat /\ Len(fs) = Len(frames) + 1
          /\ \A i \in 1..Len(frames) : fs[i].section = frames[i].section
          /\ fs[Len(fs)].section = Top.at /\ Top.at # 0
      BY <1>1, EnteredFrames
    <2> HIDE DEF fs
    <2>3. IsLoop(fs[Len(fs)]) /\ Variable(fs[Len(fs)]) = var
      BY <1>1, <2>2 DEF IsLoop, Variable
    <2>4. Scoped(fs, map)
      BY <2>1, <2>2, <2>3, ScopedPushed DEF TemplateInv
    <2> HIDE DEF map
    <2> QED BY <1>1, <2>1, <2>2, <2>4, RenderStep
  <1> QED BY <1>2, <1>3, <1>4

LEMMA EndTurnStep == ASSUME TemplateInv, EndTurn PROVE TemplateInv'
  <1> DEFINE i == Top.section
             n == Len(frames)
  <1>1. /\ phase = "render" /\ phase' = "render" /\ i # 0 /\ source[i].kind \in Loops
        /\ UNCHANGED <<source, given, reading>>
    BY DEF EndTurn
  <1>2. /\ n \in Nat \ {0} /\ Top = frames[n] /\ Top \in Frame /\ FrameInv(Top)
        /\ FramesInv(frames) /\ Top = Last(frames)
    BY <1>1, InnermostSection DEF TemplateInv, RenderInv, Top
  <1>3. IsLoop(Top) /\ Variable(Top) = source[i].var
    BY <1>1 DEF IsLoop, Variable
  <1>4. CASE Top.turn + 1 < Turns(i)
    <2> DEFINE f == [section |-> i, at |-> i + 1, turn |-> Top.turn + 1]
               fs == Append(Front(frames), f)
               map == Bind(valueByName, source[i].var, Item(i, Top.turn + 1))
    <2>1. frames' = fs /\ valueByName' = map
      BY <1>4 DEF EndTurn
    <2>2. f \in Frame /\ f.section = i /\ f.at = i + 1
      BY <1>2 DEF Frame
    <2> HIDE DEF f
    <2>3. FrameInv(f)
      <3>1. i \in DOMAIN sections /\ i \in Nat
        BY <1>1, <1>2 DEF FrameInv, Frame
      <3>2. End(i) \in i + 1..Len(source) /\ Len(source) \in Nat
        BY <1>1, <3>1, RenderingStructure
      <3> QED BY <2>2, <3>1, <3>2 DEF FrameInv
    <2>4. /\ FramesInv(fs)
          /\ Len(fs) = n
          /\ \A k \in 1..n : fs[k].section = frames[k].section
      BY <1>2, <2>2, <2>3, FrameReplaced
    <2>5. Scoped(frames, map)
      <3>1. n \in 1..Len(frames) /\ IsLoop(frames[n]) /\ Variable(frames[n]) = source[i].var
        BY <1>2, <1>3
      <3>2. Scoped(frames, Bind(valueByName, Variable(frames[n]), Item(i, Top.turn + 1)))
        BY <3>1, ScopedRebound DEF TemplateInv
      <3> QED BY <3>1, <3>2
    <2> HIDE DEF map, fs
    <2>6. Scoped(fs, map)
      BY <2>4, <2>5, ScopedSame
    <2> QED BY <1>1, <2>1, <2>4, <2>6, RenderStep
  <1>5. CASE ~(Top.turn + 1 < Turns(i))
    <2> DEFINE fs == Front(frames)
               map == Erase(valueByName, source[i].var)
    <2>1. frames' = fs /\ valueByName' = map
      BY <1>5 DEF EndTurn
    <2>2. FramesInv(fs) /\ Len(fs) = n - 1 /\ \A k \in 1..n - 1 : fs[k] = frames[k]
      BY <1>1, <1>2, FramePopped
    <2> HIDE DEF fs
    <2>3. Scoped(fs, map)
      BY <1>2, <1>3, <2>2, ScopedPopped DEF TemplateInv
    <2> HIDE DEF map
    <2> QED BY <1>1, <2>1, <2>2, <2>3, RenderStep
  <1> QED BY <1>4, <1>5

LEMMA EndIfStep == ASSUME TemplateInv, EndIf PROVE TemplateInv'
  <1> DEFINE fs == Front(frames)
             n == Len(frames)
  <1>1. /\ phase = "render" /\ phase' = "render" /\ Top.section # 0 /\ source[Top.section].kind = "if"
        /\ frames' = fs /\ valueByName' = valueByName
        /\ UNCHANGED <<source, given, reading>>
    BY DEF EndIf
  <1>2. /\ n \in Nat \ {0} /\ Top = frames[n] /\ FramesInv(frames) /\ Top = Last(frames)
    BY <1>1, InnermostSection DEF TemplateInv, RenderInv, Top
  <1>3. ~IsLoop(Top)
    BY <1>1 DEF IsLoop, Loops
  <1>4. FramesInv(fs) /\ Len(fs) = n - 1 /\ \A k \in 1..n - 1 : fs[k] = frames[k]
    BY <1>1, <1>2, FramePopped
  <1> HIDE DEF fs
  <1>5. Scoped(fs, valueByName)
    BY <1>2, <1>3, <1>4, ScopedPopped DEF TemplateInv
  <1> QED BY <1>1, <1>4, <1>5, RenderStep

\* The root has no variable, and no section is inside another that has ended.
LEMMA EndRootStep == ASSUME TemplateInv, EndRoot PROVE TemplateInv'
  <1>1. /\ phase = "render" /\ phase' = "done" /\ Top.section = 0
        /\ frames' = <<>> /\ valueByName' = valueByName
        /\ UNCHANGED <<source, given, reading>>
    BY DEF EndRoot
  <1>2. Len(frames) = 1 /\ Top = frames[1]
    BY <1>1, InnermostSection
  <1>3. ~IsLoop(frames[1])
    BY <1>1, <1>2 DEF IsLoop
  <1>4. Scoped(<<>>, valueByName)
    <2>1. Len(<<>>) = Len(frames) - 1 /\ \A i \in 1..Len(<<>>) : <<>>[i] = frames[i]
      BY <1>2
    <2> QED BY <1>2, <1>3, <2>1, ScopedPopped DEF TemplateInv
  <1>5. Scoped(frames, valueByName)'
    BY <1>1, <1>4 DEF Scoped, IsLoop, Variable
  <1> QED BY <1>1, <1>5, SectionsStay DEF TemplateInv

LEMMA TemplateStep == TemplateInv /\ [Next]_vars => TemplateInv'
  <1> SUFFICES ASSUME TemplateInv, [Next]_vars PROVE TemplateInv'
    OBVIOUS
  <1>1. CASE EatCode
    BY <1>1, StructureAfterCode, ReadStep DEF EatCode, At
  <1>2. CASE EatOpening
    BY <1>2, StructureAfterOpening, ReadStep DEF EatOpening, At
  <1>3. CASE EatEnd
    BY <1>3, StructureAfterEnd, ReadStep DEF EatEnd, At
  <1>4. CASE EatLast
    BY <1>4, LastStep
  <1>5. CASE EatError
    BY <1>5, AbortStep DEF EatError
  <1>6. CASE RenderCode
    BY <1>6, CodeStep
  <1>7. CASE RenderIf
    BY <1>7, IfStep
  <1>8. CASE RenderFor
    BY <1>8, ForStep
  <1>9. CASE EndTurn
    BY <1>9, EndTurnStep
  <1>10. CASE EndIf
    BY <1>10, EndIfStep
  <1>11. CASE EndRoot
    BY <1>11, EndRootStep
  <1>12. CASE UNCHANGED vars
    <2>1. /\ UNCHANGED <<source, given, reading>>
          /\ source' = source /\ given' = given /\ phase' = phase /\ frames' = frames
          /\ valueByName' = valueByName /\ pos' = pos /\ open' = open /\ sections' = sections
      BY <1>12 DEF vars, reading
    <2>2. Scoped(frames, valueByName)'
      BY <2>1 DEF TemplateInv, Scoped, IsLoop, Variable
    <2>3. RenderInv => RenderInv'
      BY <2>1 DEF RenderInv, FramesInv, FrameInv, End
    <2> QED BY <2>1, <2>2, <2>3, SectionsStay DEF TemplateInv
  <1> QED BY <1>1, <1>2, <1>3, <1>4, <1>5, <1>6, <1>7, <1>8, <1>9, <1>10, <1>11, <1>12 DEF Next

-----------------------------------------------------------------------------

\* In every state the sections that were read nest, and the sections that are
\* rendered are each inside themselves.
THEOREM TemplateInvariant == Spec => []TemplateInv
  <1>1. Init => TemplateInv
    BY TemplateInit
  <1>2. TemplateInv /\ [Next]_vars => TemplateInv'
    BY TemplateStep
  <1> QED BY <1>1, <1>2, PTL DEF Spec

\* Whatever the template and the values: no loop hides a value or another loop's
\* variable, no loop leaves its variable behind, and what the client has set is
\* still what it was.
THEOREM TheVariablesAreScoped == Spec => []VariablesScoped
  <1>1. TemplateInv => VariablesScoped
    BY DEF TemplateInv, Scoped, IsLoop, Variable, VariablesScoped
  <1> QED BY <1>1, TemplateInvariant, PTL

-----------------------------------------------------------------------------
(* What a template stands for, by the smallest relations that obey what    *)
(* follows: R.whole relates lo to at if reading from lo on comes to at,    *)
(* and all between is whole; R.text relates lo, at and a map of values to  *)
(* what has been written if rendering from lo on comes to at with these    *)
(* values; R.turns relates a loop, a number of turns and a map to what     *)
(* these turns have written.                                               *)

\* The section that opens at i may end at e.
Matches(i, e) == source[e].kind \in {"endfor", "endif"} /\ source[i].kind \in Opening(source[e].kind)

\* A loop is over something the client has set.
Known(i) ==
    /\ source[i].kind = "in" => Has(given, source[i].over, "tuple")
    /\ source[i].kind = "rangeOf" => Has(given, source[i].over, "int")

Opens(i) == IsOpening(i) /\ Known(i)

WholeSection(R, i, e) == Opens(i) /\ <<i + 1, e>> \in R.whole /\ Matches(i, e)

ObeysTheNesting(R) ==
    /\ <<1, 1>> \in R.whole
    /\ \A lo, at \in 1..Len(source) :
          <<lo, at>> \in R.whole =>
          /\ source[at].kind \in {"text", "name"} => <<lo, at + 1>> \in R.whole
          /\ Opens(at) => <<at + 1, at + 1>> \in R.whole
          /\ \A e \in 1..Len(source) : WholeSection(R, at, e) => <<lo, e + 1>> \in R.whole

\* How often a loop turns, and its variable in each turn, by the client's values.
Count(i) == CASE source[i].kind = "range" -> source[i].over
              [] source[i].kind = "rangeOf" -> given[source[i].over].value
              [] source[i].kind = "in" -> Len(given[source[i].over].value)
Value(i, turn) == IF source[i].kind = "in" THEN given[source[i].over].value[turn + 1]
                  ELSE IntValue(turn)

Bound(i, turn, map) == Bind(map, source[i].var, Value(i, turn))

ObeysTheTurns(R) ==
    \A i, e \in 1..Len(source), turn \in Nat : \A map, text, new :
       <<i, turn, map, text>> \in R.turns /\ turn < Count(i) =>
       /\ <<i + 1, i + 1, Bound(i, turn, map), <<>>>> \in R.text
       /\ WholeSection(R, i, e) /\ <<i + 1, e, Bound(i, turn, map), new>> \in R.text
             => <<i, turn + 1, map, text \o new>> \in R.turns

ObeysTheText(R) ==
    /\ <<1, 1, given, <<>>>> \in R.text
    /\ \A lo, at \in 1..Len(source) : \A map, text :
          <<lo, at, map, text>> \in R.text =>
          /\ source[at].kind = "text" => <<lo, at + 1, map, Append(text, source[at])>> \in R.text
          /\ source[at].kind = "name" /\ source[at].name \in DOMAIN map =>
                <<lo, at + 1, map, Append(text, map[source[at].name])>> \in R.text
          /\ source[at].kind = "if" /\ Holds(source[at], map) => <<at + 1, at + 1, map, <<>>>> \in R.text
          /\ source[at].kind \in Loops /\ Known(at) /\ source[at].var \notin DOMAIN map =>
                <<at, 0, map, <<>>>> \in R.turns
    /\ \A lo, i, e \in 1..Len(source) : \A map, text, new :
          <<lo, i, map, text>> \in R.text /\ WholeSection(R, i, e) =>
          /\ source[i].kind = "if" /\ ~Holds(source[i], map) => <<lo, e + 1, map, text>> \in R.text
          /\ /\ source[i].kind = "if" /\ Holds(source[i], map)
             /\ <<i + 1, e, map, new>> \in R.text
             => <<lo, e + 1, map, text \o new>> \in R.text
          /\ /\ source[i].kind \in Loops /\ source[i].var \notin DOMAIN map
             /\ <<i, IF Count(i) <= 0 THEN 0 ELSE Count(i), map, new>> \in R.turns
             => <<lo, e + 1, map, text \o new>> \in R.text

ObeysTheMeaning(R) == ObeysTheNesting(R) /\ ObeysTheTurns(R) /\ ObeysTheText(R)

IsWhole(R) == <<1, Len(source) + 1>> \in R.whole

\* Reading comes to the end inside a section, to something unknown, or to an end
\* that does not match where the section began.
CannotBeRead(R) ==
    \E lo, at \in 1..Len(source) + 1 :
       /\ <<lo, at>> \in R.whole
       /\ IF at = Len(source) + 1 THEN lo # 1
          ELSE \/ source[at].kind = "unknown"
               \/ IsOpening(at) /\ ~Known(at)
               \/ source[at].kind \in {"endfor", "endif"} /\ (lo = 1 \/ ~Matches(lo - 1, at))

\* The source is whole, and rendering comes to a name that is not there or to a loop
\* whose variable is.
CannotBeRendered(R) ==
    /\ IsWhole(R)
    /\ \E lo, at \in 1..Len(source) : \E map, text :
          /\ <<lo, at, map, text>> \in R.text
          /\ \/ source[at].kind = "name" /\ source[at].name \notin DOMAIN map
             \/ source[at].kind \in Loops /\ source[at].var \in DOMAIN map

RendersWhatIsMeant ==
    \A R : ObeysTheMeaning(R) =>
        /\ phase = "done" => IsWhole(R) /\ <<1, Len(source) + 1, given, result>> \in R.text
        /\ phase = "aborted" => CannotBeRead(R) \/ CannotBeRendered(R)

-----------------------------------------------------------------------------
(* Sequences, of whatever elements *)

IsSeq(s) == s \in Seq(Range(s))

LEMMA ElementsAreASeq ==
    ASSUME NEW S, NEW s \in Seq(S)
    PROVE  IsSeq(s)
  <1>1. s \in [1..Len(s) -> S] /\ Len(s) \in Nat
    BY LenProperties
  <1>2. s \in [1..Len(s) -> Range(s)]
    BY <1>1 DEF Range
  <1> QED BY <1>1, <1>2, SeqDef DEF IsSeq

LEMMA Joined ==
    ASSUME NEW a, IsSeq(a), NEW b, IsSeq(b)
    PROVE  IsSeq(a \o b) /\ a \o <<>> = a /\ <<>> \o a = a
  <1> DEFINE S == Range(a) \cup Range(b)
  <1>1. a \in Seq(S) /\ b \in Seq(S)
    BY SeqMonotonic DEF IsSeq
  <1> HIDE DEF S
  <1>2. a \o b \in Seq(S)
    BY <1>1, ConcatProperties
  <1> QED BY <1>1, <1>2, ElementsAreASeq, ConcatEmptySeq

LEMMA JoinedTwice ==
    ASSUME NEW a, IsSeq(a), NEW b, IsSeq(b), NEW c, IsSeq(c)
    PROVE  (a \o b) \o c = a \o (b \o c)
  <1> DEFINE S == Range(a) \cup Range(b) \cup Range(c)
  <1>1. a \in Seq(S) /\ b \in Seq(S) /\ c \in Seq(S)
    BY SeqMonotonic DEF IsSeq
  <1> HIDE DEF S
  <1> QED BY <1>1, ConcatAssociative

LEMMA AppendJoined ==
    ASSUME NEW a, IsSeq(a), NEW b, IsSeq(b), NEW e
    PROVE  /\ IsSeq(Append(b, e))
           /\ Append(a \o b, e) = a \o Append(b, e)
  <1> DEFINE S == Range(a) \cup Range(b) \cup {e}
  <1>1. a \in Seq(S) /\ b \in Seq(S) /\ e \in S
    BY SeqMonotonic DEF IsSeq
  <1> HIDE DEF S
  <1>2. a \o b \in Seq(S) /\ <<e>> \in Seq(S)
    BY <1>1, ConcatProperties
  <1>3. /\ Append(a \o b, e) = (a \o b) \o <<e>>
        /\ Append(b, e) = b \o <<e>>
        /\ Append(b, e) \in Seq(S)
    BY <1>1, <1>2, AppendIsConcat, AppendProperties
  <1>4. (a \o b) \o <<e>> = a \o (b \o <<e>>)
    BY <1>1, <1>2, ConcatAssociative
  <1> QED BY <1>3, <1>4, ElementsAreASeq

LEMMA EmptyIsSeq == IsSeq(<<>>)
  BY EmptySeq DEF IsSeq

-----------------------------------------------------------------------------
(* Nesting *)

Start(k) == IF k = 1 THEN 1 ELSE open[k - 1] + 1

\* Between the sections that are open, and in those that are closed, all is whole.
NestInv(R) ==
    /\ \A k \in 1..Len(open) : <<Start(k), open[k]>> \in R.whole
    /\ <<Start(Len(open) + 1), pos>> \in R.whole
    /\ \A i \in DOMAIN sections : Closed(i) => WholeSection(R, i, sections[i].end)

LEMMA StartInside ==
    ASSUME TemplateInv, pos <= Len(source), NEW k \in 1..Len(open) + 1
    PROVE  Start(k) \in 1..Len(source)
  <1>1. Len(source) \in Nat /\ pos \in 1..Len(source)
    BY LenOfSource
  <1>2. CASE k = 1
    BY <1>1, <1>2 DEF Start
  <1>3. CASE k # 1
    <2>1. k - 1 \in 1..Len(open)
      BY <1>3, LenProperties DEF TemplateInv, SectionsType
    <2>2. open[k - 1] \in DOMAIN sections
      BY <2>1, ElementOfSeq DEF TemplateInv, SectionsType
    <2>3. open[k - 1] \in 1..pos - 1
      BY <2>2 DEF TemplateInv, SectionsType
    <2>4. Start(k) = open[k - 1] + 1
      BY <1>3 DEF Start
    <2> QED BY <1>1, <2>3, <2>4
  <1> QED BY <1>2, <1>3

LEMMA NestAfterCode ==
    ASSUME TemplateInv, EatCode, NEW R, ObeysTheNesting(R), NestInv(R)
    PROVE  NestInv(R)'
  <1>1. /\ source' = source /\ given' = given /\ open' = open /\ sections' = sections
        /\ pos' = pos + 1 /\ pos <= Len(source) /\ source[pos].kind \in {"text", "name"}
    BY DEF EatCode, At
  <1>2. Start(Len(open) + 1) \in 1..Len(source)
    BY <1>1, StartInside
  <1>3. pos \in 1..Len(source)
    BY <1>1, LenOfSource
  <1>4. <<Start(Len(open) + 1), pos + 1>> \in R.whole
    BY <1>1, <1>2, <1>3 DEF ObeysTheNesting, NestInv
  <1> QED BY <1>1, <1>4 DEF NestInv, Start, WholeSection, Opens, IsOpening, Known, Has, Matches, Closed, OpenSections

LEMMA NestAfterOpening ==
    ASSUME TemplateInv, EatOpening, NEW R, ObeysTheNesting(R), NestInv(R)
    PROVE  NestInv(R)'
  <1> DEFINE n == Len(open)
  <1>1. /\ source' = source /\ given' = given
        /\ pos' = pos + 1 /\ pos \in 1..Len(source) /\ pos <= Len(source)
        /\ Len(source) \in Nat
    BY LenOfSource DEF EatOpening, At
  <1>2. /\ n \in Nat /\ Len(open') = n + 1
        /\ \A k \in 1..n : open'[k] = open[k]
        /\ open'[n + 1] = pos
        /\ DOMAIN sections' = DOMAIN sections \cup {pos}
        /\ \A i \in DOMAIN sections : sections'[i] = sections[i]
        /\ \A i : Closed(i)' <=> Closed(i)
    BY StructureAfterOpening
  <1>3. \A k \in 1..n + 1 : Start(k)' = Start(k)
    <2> SUFFICES ASSUME NEW k \in 1..n + 1, k # 1 PROVE open'[k - 1] = open[k - 1]
      BY DEF Start
    <2>1. k - 1 \in 1..n
      BY <1>2
    <2> QED BY <1>2, <2>1
  <1>4. Start(Len(open) + 1)' = pos + 1
    <2>1. Len(open') + 1 # 1 /\ (Len(open') + 1) - 1 = n + 1
      BY <1>2
    <2> QED BY <1>2, <2>1 DEF Start
  <1>5. \A k \in 1..n + 1 : <<Start(k)', open'[k]>> \in R.whole
    <2> SUFFICES ASSUME NEW k \in 1..n + 1 PROVE <<Start(k), open'[k]>> \in R.whole
      BY <1>3
    <2>1. CASE k = n + 1
      BY <1>2, <2>1 DEF NestInv
    <2>2. CASE k # n + 1
      <3>1. k \in 1..n
        BY <1>2, <2>2
      <3> QED BY <1>2, <3>1 DEF NestInv
    <2> QED BY <2>1, <2>2
  <1>6. <<pos + 1, pos + 1>> \in R.whole
    <2>1. Opens(pos)
      BY DEF EatOpening, At, Opens, IsOpening, Recognized, Known, Loops, TemplateInv
    <2>2. n + 1 \in 1..Len(open) + 1
      BY <1>2
    <2>3. Start(n + 1) \in 1..Len(source) /\ <<Start(n + 1), pos>> \in R.whole
      BY <1>1, <2>2, StartInside DEF NestInv
    <2> QED BY <1>1, <2>1, <2>3 DEF ObeysTheNesting
  <1>7. ASSUME NEW i \in DOMAIN sections', Closed(i)'
        PROVE  WholeSection(R, i, sections[i].end)'
    <2>1. i \in DOMAIN sections /\ Closed(i) /\ sections'[i] = sections[i]
      BY <1>2, <1>7 DEF Closed
    <2> QED BY <1>1, <2>1 DEF NestInv, WholeSection, Opens, IsOpening, Known, Has, Matches
  <1> QED BY <1>1, <1>2, <1>4, <1>5, <1>6, <1>7 DEF NestInv

\* What was looked up when a loop was read is there, and is what the client set.
LoopsInv ==
    /\ given \in ValueMaps
    /\ \A i \in DOMAIN sections :
          Known(i) /\ (source[i].kind \in {"range", "rangeOf"} => sections[i].loopEnd = Count(i))

LEMMA NestAfterEnd ==
    ASSUME TemplateInv, EatEnd, LoopsInv, NEW R, ObeysTheNesting(R), NestInv(R)
    PROVE  NestInv(R)'
  <1> DEFINE n == Len(open)
             last == open[n]
  <1>1. /\ source' = source /\ given' = given
        /\ pos' = pos + 1 /\ pos \in 1..Len(source) /\ pos <= Len(source)
        /\ Len(source) \in Nat
        /\ source[pos].kind \in {"endfor", "endif"}
        /\ source[Last(open)].kind \in Opening(source[pos].kind)
    BY LenOfSource DEF EatEnd, At
  <1>2. /\ n \in Nat \ {0} /\ Len(open') = n - 1
        /\ \A k \in 1..n - 1 : open'[k] = open[k]
        /\ last \in DOMAIN sections /\ Last(open) = last
        /\ DOMAIN sections' = DOMAIN sections
        /\ \A i \in DOMAIN sections : i # last => sections'[i] = sections[i]
        /\ sections'[last].end = pos
        /\ \A i : Closed(i)' <=> Closed(i) \/ i = last
    BY StructureAfterEnd
  <1>3. \A k \in 1..n : Start(k)' = Start(k)
    <2> SUFFICES ASSUME NEW k \in 1..n, k # 1 PROVE open'[k - 1] = open[k - 1]
      BY DEF Start
    <2>1. k - 1 \in 1..n - 1
      BY <1>2
    <2> QED BY <1>2, <2>1
  <1>4. WholeSection(R, last, pos)
    <2>1. Start(n + 1) = last + 1
      <3>1. n + 1 # 1 /\ (n + 1) - 1 = n
        BY <1>2
      <3> QED BY <3>1 DEF Start
    <2>2. Opens(last)
      BY <1>2 DEF Opens, LoopsInv, TemplateInv, SectionsType
    <2> QED BY <1>1, <1>2, <2>1, <2>2 DEF NestInv, WholeSection, Matches
  <1>5. <<Start(n), pos + 1>> \in R.whole
    <2>1. n \in 1..n /\ n \in 1..n + 1
      BY <1>2
    <2>2. <<Start(n), last>> \in R.whole
      BY <2>1 DEF NestInv
    <2>3. Start(n) \in 1..Len(source)
      BY <1>1, <2>1, StartInside
    <2>4. last \in 1..Len(source)
      BY <1>1, <1>2 DEF TemplateInv, SectionsType
    <2> HIDE DEF last
    <2> QED BY <1>1, <1>4, <2>2, <2>3, <2>4 DEF ObeysTheNesting
  <1>6. \A k \in 1..n - 1 : <<Start(k)', open'[k]>> \in R.whole
    <2> SUFFICES ASSUME NEW k \in 1..n - 1 PROVE <<Start(k)', open'[k]>> \in R.whole
      OBVIOUS
    <2>1. k \in 1..n
      BY <1>2
    <2> QED BY <1>2, <1>3, <2>1 DEF NestInv
  <1>7. ASSUME NEW i \in DOMAIN sections', Closed(i)'
        PROVE  WholeSection(R, i, sections[i].end)'
    <2>1. CASE i = last
      BY <1>1, <1>2, <1>4, <2>1 DEF WholeSection, Opens, IsOpening, Known, Has, Matches
    <2>2. CASE i # last
      <3>1. i \in DOMAIN sections /\ Closed(i) /\ sections'[i] = sections[i]
        BY <1>2, <1>7, <2>2
      <3> QED BY <1>1, <3>1 DEF NestInv, WholeSection, Opens, IsOpening, Known, Has, Matches
    <2> QED BY <2>1, <2>2
  <1>8. Start(Len(open) + 1)' = Start(n)
    <2>1. Len(open') + 1 = n /\ (n # 1 => n - 1 \in 1..n - 1)
      BY <1>2
    <2> QED BY <1>2, <2>1 DEF Start
  <1> QED BY <1>1, <1>2, <1>3, <1>5, <1>6, <1>7, <1>8 DEF NestInv

LEMMA LoopsAfterOpening ==
    ASSUME TemplateInv, EatOpening, LoopsInv
    PROVE  LoopsInv'
  <1>1. /\ source' = source /\ given' = given /\ valueByName = given
        /\ source[pos].kind \in Loops \cup {"if"} /\ Recognized(source[pos])
    BY DEF EatOpening, At, TemplateInv
  <1>2. /\ DOMAIN sections' = DOMAIN sections \cup {pos}
        /\ \A i \in DOMAIN sections : sections'[i] = sections[i]
        /\ sections'[pos].loopEnd = LoopEnd(source[pos])
    BY StructureAfterOpening
  <1>3. /\ source[pos].kind = "in" => Has(given, source[pos].over, "tuple")
        /\ source[pos].kind = "rangeOf" => Has(given, source[pos].over, "int")
        /\ source[pos].kind \in {"range", "rangeOf"} => LoopEnd(source[pos]) = Count(pos)
    BY <1>1 DEF Recognized, LoopEnd, Count
  <1>4. \A i : Count(i)' = Count(i)
    BY <1>1 DEF Count
  <1> QED BY <1>1, <1>2, <1>3, <1>4 DEF LoopsInv, Known, Has

LEMMA LoopsAfterEnd ==
    ASSUME TemplateInv, EatEnd, LoopsInv
    PROVE  LoopsInv'
  <1>1. source' = source /\ given' = given
    BY DEF EatEnd
  <1>2. /\ DOMAIN sections' = DOMAIN sections
        /\ \A i \in DOMAIN sections : sections'[i].loopEnd = sections[i].loopEnd
    <2>1. /\ DOMAIN sections' = DOMAIN sections
          /\ \A i \in DOMAIN sections : i # open[Len(open)] => sections'[i] = sections[i]
          /\ sections'[open[Len(open)]] = [end |-> pos, loopEnd |-> sections[open[Len(open)]].loopEnd]
      BY StructureAfterEnd
    <2> QED BY <2>1
  <1>3. \A i : Count(i)' = Count(i)
    BY <1>1 DEF Count
  <1> QED BY <1>1, <1>2, <1>3 DEF LoopsInv, Known, Has

\* While a loop is rendered it turns over what the client has set, though it looks it up
\* among the variables of other loops.
LEMMA TurnsAreCounted ==
    ASSUME TemplateInv, LoopsInv, NEW i \in DOMAIN sections, source[i].kind \in Loops
    PROVE  /\ Turns(i) = Count(i) /\ Count(i) \in Int
           /\ \A turn : Item(i, turn) = Value(i, turn)
  <1>1. \A name \in DOMAIN given : valueByName[name] = given[name]
    BY DEF TemplateInv, Scoped
  <1>2. source \in Sources /\ i \in 1..Len(source)
    <2>1. source \in Sources /\ i \in 1..pos - 1
      BY DEF TemplateInv, SectionsType
    <2> QED BY <2>1, LenOfSource
  <1>3. CASE source[i].kind = "in"
    <2>1. source[i].over \in DOMAIN given /\ given[source[i].over].kind = "tuple"
      BY <1>3 DEF LoopsInv, Known, Has
    <2>2. Len(given[source[i].over].value) \in Nat
      BY <2>1, ValuesAssumption DEF LoopsInv
    <2> QED BY <1>1, <1>3, <2>1, <2>2 DEF Turns, Count, Item, Value
  <1>4. CASE source[i].kind = "rangeOf"
    <2>1. source[i].over \in DOMAIN given /\ given[source[i].over].kind = "int"
      BY <1>4 DEF LoopsInv, Known, Has
    <2>2. given[source[i].over].value \in Int
      <3>1. given \in ValueMaps
        BY DEF LoopsInv
      <3>2. \A n \in DOMAIN given : given[n].kind = "int" => given[n].value \in Int
        BY <3>1, ValuesAssumption
      <3> QED BY <2>1, <3>2
    <2>3. sections[i].loopEnd = Count(i)
      BY <1>4 DEF LoopsInv
    <2>4. Count(i) = given[source[i].over].value
      BY <1>4 DEF Count
    <2> QED BY <1>4, <2>2, <2>3, <2>4 DEF Turns, Item, Value
  <1>5. CASE source[i].kind = "range"
    <2>1. source[i].over \in Int
      BY <1>2, <1>5, ValuesAssumption
    <2>2. sections[i].loopEnd = Count(i)
      BY <1>5 DEF LoopsInv
    <2>3. Count(i) = source[i].over
      BY <1>5 DEF Count
    <2> QED BY <1>5, <2>1, <2>2, <2>3 DEF Turns, Item, Value
  <1> QED BY <1>3, <1>4, <1>5 DEF Loops

-----------------------------------------------------------------------------
(* What has been rendered, section by section *)

IsMap(map) == map = [n \in DOMAIN map |-> map[n]]

\* Of a section that is rendered: with which values, what came before it and its
\* earlier turns, what these are, and what its present turn has written so far.
Part(map, before, turns, text) == [map |-> map, before |-> before, turns |-> turns, text |-> text]

IsPart(part) ==
    /\ IsMap(part.map)
    /\ IsSeq(part.before) /\ IsSeq(part.turns) /\ IsSeq(part.text)

\* The section of a frame has been entered from another with certain values.
EnteredFrom(outer, part, f, R) ==
    LET i == f.section
    IN  \/ source[i].kind = "if" /\ Holds(source[i], outer) /\ part.map = outer /\ part.turns = <<>>
        \/ /\ source[i].kind \in Loops /\ source[i].var \notin DOMAIN outer
           /\ f.turn \in Nat /\ f.turn < Count(i)
           /\ part.map = Bound(i, f.turn, outer)
           /\ <<i, f.turn, outer, part.turns>> \in R.turns

\* Where a section is within itself: a section that has entered another is there.
Until(fs, k) == IF k = Len(fs) THEN fs[k].at ELSE fs[k + 1].section

\* All that has been written.
Written(part) == part.before \o part.text

Follows(fs, k, parts, R) ==
    /\ fs[k].at = End(fs[k + 1].section) + 1
    /\ parts[k + 1].before = Written(parts[k]) \o parts[k + 1].turns
    /\ EnteredFrom(parts[k].map, parts[k + 1], fs[k + 1], R)

Rendered(parts, fs, R) ==
    /\ parts[1].map = given /\ parts[1].before = <<>>
    /\ \A k \in 1..Len(fs) :
          /\ IsPart(parts[k])
          /\ <<fs[k].section + 1, Until(fs, k), parts[k].map, parts[k].text>> \in R.text
    /\ \A k \in 1..Len(fs) - 1 : Follows(fs, k, parts, R)

MeaningInv(R) ==
    /\ NestInv(R)
    /\ LoopsInv
    /\ phase = "read" => result = <<>>
    /\ phase = "render" =>
          \E parts : /\ Rendered(parts, frames, R)
                     /\ result = Written(parts[Len(frames)])
                     /\ valueByName = parts[Len(frames)].map
    /\ phase = "done" => IsWhole(R) /\ <<1, Len(source) + 1, given, result>> \in R.text
    /\ phase = "aborted" => CannotBeRead(R) \/ CannotBeRendered(R)

\* The m-th part goes on from the one before it.
Fits(parts, m, part, f, R) ==
    /\ m = 1 => part.map = given /\ part.before = <<>>
    /\ m # 1 => /\ part.before = Written(parts[m - 1]) \o part.turns
                /\ EnteredFrom(parts[m - 1].map, part, f, R)

\* gs are the first m of fs, of which the last may be at another place.
UpTo(gs, fs, m) ==
    Len(gs) = m /\ gs[m].section = fs[m].section /\ \A k \in 1..m - 1 : gs[k] = fs[k]

LEMMA PartFits ==
    ASSUME NEW parts, NEW fs, NEW R, Rendered(parts, fs, R), Len(fs) \in Nat, NEW m \in 1..Len(fs)
    PROVE  IsPart(parts[m]) /\ Fits(parts, m, parts[m], fs[m], R)
  <1>1. IsPart(parts[m])
    BY DEF Rendered
  <1>2. CASE m = 1
    BY <1>1, <1>2 DEF Rendered, Fits
  <1>3. CASE m # 1
    <2> DEFINE k == m - 1
    <2>1. k \in 1..Len(fs) - 1 /\ k + 1 = m
      BY <1>3
    <2> HIDE DEF k
    <2>2. Follows(fs, k, parts, R)
      BY <2>1 DEF Rendered
    <2>3. /\ parts[m].before = Written(parts[k]) \o parts[m].turns
          /\ EnteredFrom(parts[k].map, parts[m], fs[m], R)
      BY <2>1, <2>2 DEF Follows
    <2> QED BY <1>1, <1>3, <2>3 DEF Fits, k
  <1> QED BY <1>2, <1>3

\* The part before it has come to the section.
LEMMA PartBefore ==
    ASSUME NEW parts, NEW fs, NEW R, Rendered(parts, fs, R), Len(fs) \in Nat, NEW m \in 1..Len(fs), m # 1
    PROVE  /\ m - 1 \in 1..Len(fs) /\ IsPart(parts[m - 1])
           /\ fs[m - 1].at = End(fs[m].section) + 1
           /\ <<fs[m - 1].section + 1, fs[m].section, parts[m - 1].map, parts[m - 1].text>> \in R.text
  <1> DEFINE k == m - 1
  <1>1. k \in 1..Len(fs) - 1 /\ k \in 1..Len(fs) /\ k + 1 = m /\ k # Len(fs)
    OBVIOUS
  <1> HIDE DEF k
  <1>2. Follows(fs, k, parts, R)
    BY <1>1 DEF Rendered
  <1>3. /\ IsPart(parts[k])
        /\ <<fs[k].section + 1, Until(fs, k), parts[k].map, parts[k].text>> \in R.text
    BY <1>1 DEF Rendered
  <1>4. Until(fs, k) = fs[m].section
    BY <1>1 DEF Until
  <1> QED BY <1>1, <1>2, <1>3, <1>4 DEF Follows, k

\* The stack up to a frame, which has gone on.
Replaces(parts, fs, m, gs, new, R) ==
    /\ Rendered(parts, fs, R) /\ Len(fs) \in Nat /\ m \in 1..Len(fs)
    /\ UpTo(gs, fs, m)
    /\ IsPart(new) /\ Fits(parts, m, new, gs[m], R)
    /\ <<gs[m].section + 1, gs[m].at, new.map, new.text>> \in R.text

LEMMA LastReplaced ==
    ASSUME NEW parts, NEW fs, NEW m, NEW gs, NEW new, NEW R, Replaces(parts, fs, m, gs, new, R)
    PROVE  \E all : Rendered(all, gs, R) /\ all[m] = new
  <1>. /\ Rendered(parts, fs, R) /\ Len(fs) \in Nat /\ m \in 1..Len(fs)
       /\ UpTo(gs, fs, m)
       /\ IsPart(new) /\ Fits(parts, m, new, gs[m], R)
       /\ <<gs[m].section + 1, gs[m].at, new.map, new.text>> \in R.text
    BY DEF Replaces
  <1> DEFINE all == [k \in 1..m |-> IF k = m THEN new ELSE parts[k]]
  <1>1. /\ all[m] = new
        /\ \A k \in 1..m - 1 : all[k] = parts[k]
    OBVIOUS
  <1> HIDE DEF all
  <1>0. Len(gs) = m /\ gs[m].section = fs[m].section /\ \A k \in 1..m - 1 : gs[k] = fs[k]
    BY DEF UpTo
  <1>2. all[1].map = given /\ all[1].before = <<>>
    <2>1. CASE m = 1
      BY <1>1, <2>1 DEF Fits
    <2>2. CASE m # 1
      <3>1. 1 \in 1..m - 1
        BY <2>2
      <3> QED BY <1>1, <3>1 DEF Rendered
    <2> QED BY <2>1, <2>2
  <1>3. ASSUME NEW k \in 1..m
        PROVE  /\ IsPart(all[k])
               /\ <<gs[k].section + 1, Until(gs, k), all[k].map, all[k].text>> \in R.text
    <2>1. CASE k = m
      BY <1>0, <1>1, <2>1 DEF Until
    <2>2. CASE k # m
      <3>1. k \in 1..m - 1 /\ k \in 1..Len(fs) /\ k # Len(fs)
        BY <2>2
      <3>2. gs[k + 1].section = fs[k + 1].section
        <4>1. k + 1 = m \/ k + 1 \in 1..m - 1
          BY <3>1
        <4> QED BY <1>0, <4>1
      <3>3. Until(gs, k) = Until(fs, k)
        BY <1>0, <2>2, <3>1, <3>2 DEF Until
      <3> QED BY <1>0, <1>1, <3>1, <3>3 DEF Rendered
    <2> QED BY <2>1, <2>2
  <1>4. ASSUME NEW k \in 1..m - 1
        PROVE  Follows(gs, k, all, R)
    <2>1. k \in 1..Len(fs) - 1 /\ all[k] = parts[k] /\ gs[k] = fs[k]
      BY <1>0, <1>1
    <2>2. Follows(fs, k, parts, R)
      BY <2>1 DEF Rendered
    <2>3. CASE k + 1 = m
      <3>1. m # 1 /\ m - 1 = k
        BY <2>3
      <3> QED BY <1>0, <1>1, <2>1, <2>2, <2>3, <3>1 DEF Follows, Fits
    <2>4. CASE k + 1 # m
      <3>1. k + 1 \in 1..m - 1
        BY <2>4
      <3> QED BY <1>0, <1>1, <2>1, <2>2, <3>1 DEF Follows
    <2> QED BY <2>3, <2>4
  <1> QED BY <1>0, <1>1, <1>2, <1>3, <1>4 DEF Rendered

\* The stack up to a frame, whose text has grown.
Grows(parts, fs, m, gs, text, R) ==
    /\ Rendered(parts, fs, R) /\ Len(fs) \in Nat /\ m \in 1..Len(fs)
    /\ UpTo(gs, fs, m) /\ gs[m].turn = fs[m].turn
    /\ IsSeq(text) /\ <<gs[m].section + 1, gs[m].at, parts[m].map, text>> \in R.text

Grown(parts, m, gs, text, R) ==
    \E all : /\ Rendered(all, gs, R)
             /\ Written(all[m]) = parts[m].before \o text
             /\ all[m].map = parts[m].map

LEMMA TextGrown ==
    ASSUME NEW parts, NEW fs, NEW m, NEW gs, NEW text, NEW R, Grows(parts, fs, m, gs, text, R)
    PROVE  Grown(parts, m, gs, text, R)
  <1>0. /\ Rendered(parts, fs, R) /\ Len(fs) \in Nat /\ m \in 1..Len(fs)
        /\ UpTo(gs, fs, m) /\ gs[m].turn = fs[m].turn
        /\ IsSeq(text) /\ <<gs[m].section + 1, gs[m].at, parts[m].map, text>> \in R.text
    BY DEF Grows
  <1> DEFINE new == Part(parts[m].map, parts[m].before, parts[m].turns, text)
  <1>1. /\ new.map = parts[m].map /\ new.before = parts[m].before
        /\ new.turns = parts[m].turns /\ new.text = text
    BY DEF Part
  <1> HIDE DEF new
  <1>2. IsPart(parts[m]) /\ Fits(parts, m, parts[m], fs[m], R)
    BY <1>0, PartFits
  <1>3. IsPart(new)
    BY <1>0, <1>1, <1>2 DEF IsPart
  <1>4. Fits(parts, m, new, gs[m], R)
    BY <1>0, <1>1, <1>2 DEF Fits, EnteredFrom, UpTo
  <1>5. <<gs[m].section + 1, gs[m].at, new.map, new.text>> \in R.text
    BY <1>0, <1>1
  <1>6. PICK all : Rendered(all, gs, R) /\ all[m] = new
    <2>1. Replaces(parts, fs, m, gs, new, R)
      BY <1>0, <1>3, <1>4, <1>5 DEF Replaces
    <2> QED BY <2>1, LastReplaced
  <1> QED BY <1>1, <1>6 DEF Written, Grown

\* A section more: the one that enters it has come to its beginning.
Enters(parts, fs, gs, new, R) ==
    LET n == Len(fs)
        f == gs[n + 1]
    IN  /\ Rendered(parts, fs, R) /\ n \in Nat \ {0} /\ Len(gs) = n + 1
        /\ \A k \in 1..n - 1 : gs[k] = fs[k]
        /\ gs[n].section = fs[n].section /\ gs[n].turn = fs[n].turn
        /\ gs[n].at = End(fs[n].at) + 1
        /\ f.section = fs[n].at
        /\ IsPart(new) /\ <<f.section + 1, f.at, new.map, new.text>> \in R.text
        /\ new.before = Written(parts[n]) \o new.turns
        /\ EnteredFrom(parts[n].map, new, f, R)

LEMMA SectionEntered ==
    ASSUME NEW parts, NEW fs, NEW gs, NEW new, NEW R, Enters(parts, fs, gs, new, R)
    PROVE  \E all : Rendered(all, gs, R) /\ all[Len(gs)] = new
  <1> DEFINE n == Len(fs)
             all == [k \in 1..n + 1 |-> IF k = n + 1 THEN new ELSE parts[k]]
  <1>0. /\ Rendered(parts, fs, R) /\ n \in Nat \ {0} /\ Len(gs) = n + 1
        /\ \A k \in 1..n - 1 : gs[k] = fs[k]
        /\ gs[n].section = fs[n].section /\ gs[n].turn = fs[n].turn
        /\ gs[n].at = End(fs[n].at) + 1
        /\ gs[n + 1].section = fs[n].at
        /\ IsPart(new) /\ <<gs[n + 1].section + 1, gs[n + 1].at, new.map, new.text>> \in R.text
        /\ new.before = Written(parts[n]) \o new.turns
        /\ EnteredFrom(parts[n].map, new, gs[n + 1], R)
    BY DEF Enters
  <1>1. n \in Nat \ {0} /\ n \in 1..n /\ Len(gs) = n + 1
    BY <1>0
  <1>2. /\ all[n + 1] = new
        /\ \A k \in 1..n : all[k] = parts[k]
    <2> HIDE DEF n
    <2> QED BY <1>1
  <1> HIDE DEF all
  <1>3. all[1].map = given /\ all[1].before = <<>>
    <2>1. 1 \in 1..n
      BY <1>1
    <2> QED BY <1>0, <1>2, <2>1 DEF Rendered
  <1>4. \A k \in 1..n : gs[k].section = fs[k].section /\ gs[k].turn = fs[k].turn
    <2> SUFFICES ASSUME NEW k \in 1..n PROVE gs[k].section = fs[k].section /\ gs[k].turn = fs[k].turn
      OBVIOUS
    <2>1. k = n \/ k \in 1..n - 1
      BY <1>1
    <2> QED BY <1>0, <2>1
  <1>5. ASSUME NEW k \in 1..n + 1
        PROVE  /\ IsPart(all[k])
               /\ <<gs[k].section + 1, Until(gs, k), all[k].map, all[k].text>> \in R.text
    <2>1. CASE k = n + 1
      BY <1>0, <1>1, <1>2, <2>1 DEF Until
    <2>2. CASE k = n
      <3>1. Until(gs, k) = fs[n].at /\ Until(fs, k) = fs[n].at
        BY <1>0, <1>1, <2>2 DEF Until
      <3> QED BY <1>0, <1>1, <1>2, <1>4, <2>2, <3>1 DEF Rendered
    <2>3. CASE k # n + 1 /\ k # n
      <3>1. k \in 1..n /\ k + 1 \in 1..n /\ k # Len(gs)
        BY <1>0, <1>1, <2>3
      <3>2. Until(gs, k) = Until(fs, k)
        BY <1>0, <1>4, <2>3, <3>1 DEF Until
      <3> QED BY <1>0, <1>2, <1>4, <3>1, <3>2 DEF Rendered
    <2> QED BY <2>1, <2>2, <2>3
  <1>6. ASSUME NEW k \in 1..n
        PROVE  Follows(gs, k, all, R)
    <2>1. CASE k = n
      BY <1>0, <1>1, <1>2, <2>1 DEF Follows
    <2>2. CASE k # n
      <3>1. k \in 1..n - 1 /\ k + 1 \in 1..n /\ gs[k] = fs[k]
        BY <1>0, <1>1, <2>2
      <3>2. Follows(fs, k, parts, R)
        BY <1>0, <3>1 DEF Rendered
      <3>3. gs[k + 1].section = fs[k + 1].section /\ gs[k + 1].turn = fs[k + 1].turn
        BY <1>0, <1>4, <3>1
      <3> QED BY <1>0, <1>2, <3>1, <3>2, <3>3 DEF Follows, EnteredFrom
    <2> QED BY <2>1, <2>2
  <1>7. (n + 1) - 1 = n
    BY <1>1
  <1> QED BY <1>0, <1>1, <1>2, <1>3, <1>5, <1>6, <1>7 DEF Rendered

-----------------------------------------------------------------------------
(* Each action keeps to the meaning *)

RenderedSoFar(parts, R) ==
    /\ Rendered(parts, frames, R)
    /\ result = Written(parts[Len(frames)])
    /\ valueByName = parts[Len(frames)].map

LEMMA NestStays ==
    ASSUME NEW R, NestInv(R), LoopsInv, UNCHANGED <<source, given, reading>>
    PROVE  NestInv(R)' /\ LoopsInv'
  <1>1. /\ source' = source /\ given' = given
        /\ pos' = pos /\ open' = open /\ sections' = sections
    BY DEF reading
  <1>2. NestInv(R)'
    BY <1>1 DEF NestInv, Start, WholeSection, Opens, IsOpening, Known, Has, Matches, Closed, OpenSections
  <1>3. LoopsInv'
    BY <1>1 DEF LoopsInv, Known, Count, Has
  <1> QED BY <1>2, <1>3

LEMMA RenderedStays ==
    ASSUME UNCHANGED <<source, given, reading>>, NEW parts, NEW fs, NEW R, Rendered(parts, fs, R)
    PROVE  /\ parts[1].map = given' /\ parts[1].before = <<>>
           /\ \A k \in 1..Len(fs) :
                 /\ IsPart(parts[k])
                 /\ <<fs[k].section + 1, Until(fs, k), parts[k].map, parts[k].text>> \in R.text
           /\ \A k \in 1..Len(fs) - 1 : Follows(fs, k, parts, R)'
  <1>1. source' = source /\ given' = given /\ sections' = sections
    BY DEF reading
  <1>2. \A k : Follows(fs, k, parts, R)' <=> Follows(fs, k, parts, R)
    BY <1>1 DEF Follows, EnteredFrom, End, Bound, Value, Count
  <1> QED BY <1>1, <1>2 DEF Rendered

LEMMA MeaningStep ==
    ASSUME NEW R, NestInv(R), LoopsInv, UNCHANGED <<source, given, reading>>, phase' = "render",
           NEW fs, frames' = fs, NEW parts, Rendered(parts, fs, R),
           result' = Written(parts[Len(fs)]), valueByName' = parts[Len(fs)].map
    PROVE  MeaningInv(R)'
  <1>1. NestInv(R)' /\ LoopsInv'
    BY NestStays
  <1>2. Rendered(parts, frames, R)'
    BY RenderedStays DEF Rendered, Until
  <1> QED BY <1>1, <1>2 DEF MeaningInv

LEMMA TopPart ==
    ASSUME TemplateInv, phase = "render", NEW R, NEW parts, RenderedSoFar(parts, R)
    PROVE  LET n == Len(frames)
           IN  /\ n \in Nat \ {0} /\ n \in 1..n /\ Top = frames[n]
               /\ IsPart(parts[n])
               /\ <<Top.section + 1, Top.at, valueByName, parts[n].text>> \in R.text
               /\ ~AtEnd => Top.section + 1 \in 1..Len(source)
  <1> DEFINE n == Len(frames)
  <1>1. n \in Nat \ {0} /\ n \in 1..n /\ Top = frames[n]
    BY InnermostSection
  <1>2. /\ IsPart(parts[n])
        /\ <<frames[n].section + 1, Until(frames, n), parts[n].map, parts[n].text>> \in R.text
    BY <1>1 DEF Rendered, RenderedSoFar
  <1>3. Until(frames, n) = Top.at
    BY <1>1 DEF Until
  <1>4. ASSUME ~AtEnd PROVE Top.section + 1 \in 1..Len(source)
    <2>1. Top \in Frame /\ FrameInv(Top) /\ Len(source) \in Nat
      BY InnermostSection, RenderingStructure
    <2>2. Top.section \in Nat /\ End(Top.section) \in Nat /\ End(Top.section) <= Len(source) + 1
      BY <2>1, RenderingStructure DEF Frame, FrameInv
    <2>3. Top.at \in Nat /\ Top.section < Top.at /\ Top.at < End(Top.section)
      BY <1>4, <2>1, <2>2 DEF FrameInv, AtEnd
    <2> QED BY <2>1, <2>2, <2>3
  <1> QED BY <1>1, <1>2, <1>3, <1>4 DEF RenderedSoFar

LEMMA AdvancedTop ==
    ASSUME TemplateInv, phase = "render", NEW to
    PROVE  LET n == Len(frames)
               gs == Advanced(to)
           IN  /\ n \in Nat \ {0} /\ UpTo(gs, frames, n)
               /\ gs[n].at = to /\ gs[n].turn = frames[n].turn /\ gs[n].section = Top.section
               /\ \A f : /\ Len(Append(gs, f)) = n + 1
                         /\ \A k \in 1..n : Append(gs, f)[k] = gs[k]
                         /\ Append(gs, f)[n + 1] = f
  <1> DEFINE n == Len(frames)
             f == [Top EXCEPT !.at = to]
             S == Frame \cup {f}
             gs == Append(Front(frames), f)
  <1>1. frames \in Seq(Frame) /\ frames # <<>>
    BY DEF TemplateInv, RenderInv, FramesInv
  <1>2. /\ n \in Nat \ {0} /\ Top = frames[n] /\ Top \in Frame
        /\ Front(frames) \in Seq(Frame) /\ Len(Front(frames)) = n - 1
        /\ \A k \in 1..n - 1 : Front(frames)[k] = frames[k]
    BY <1>1, FrontAndLast DEF Top
  <1>3. f.at = to /\ f.section = Top.section /\ f.turn = Top.turn
    BY <1>2 DEF Frame
  <1>4. Front(frames) \in Seq(S) /\ f \in S
    <2> HIDE DEF f
    <2> QED BY <1>2, SeqMonotonic
  <1> HIDE DEF S, f
  <1>5. /\ gs \in Seq(S) /\ Len(gs) = n - 1 + 1
        /\ \A k \in 1..n - 1 : gs[k] = Front(frames)[k]
        /\ gs[n - 1 + 1] = f
    BY <1>2, <1>4, AppendProperties
  <1> HIDE DEF gs
  <1>6. UpTo(gs, frames, n) /\ gs[n] = f /\ Len(gs) = n
    BY <1>2, <1>3, <1>5 DEF UpTo
  <1>7. ASSUME NEW g
        PROVE  /\ Len(Append(gs, g)) = n + 1
               /\ \A k \in 1..n : Append(gs, g)[k] = gs[k]
               /\ Append(gs, g)[n + 1] = g
    <2> DEFINE T == S \cup {g}
    <2>1. gs \in Seq(T) /\ g \in T
      BY <1>5, SeqMonotonic
    <2> HIDE DEF T
    <2> QED BY <1>6, <2>1, AppendProperties
  <1>8. Advanced(to) = gs
    BY DEF Advanced, gs, f
  <1> QED BY <1>2, <1>3, <1>6, <1>7, <1>8

LEMMA SectionIsWhole ==
    ASSUME TemplateInv, phase = "render", NEW R, NestInv(R), NEW i \in DOMAIN sections
    PROVE  i \in 1..Len(source) /\ End(i) \in 1..Len(source) /\ WholeSection(R, i, End(i))
  <1>1. i \in 1..Len(source) /\ End(i) = sections[i].end /\ End(i) \in i + 1..Len(source)
    BY RenderingStructure
  <1>2. Closed(i)
    <2>1. open = <<>>
      BY DEF TemplateInv, RenderInv
    <2>2. OpenSections = {}
      BY <2>1 DEF OpenSections
    <2> QED BY <2>2 DEF Closed
  <1>3. WholeSection(R, i, End(i))
    BY <1>1, <1>2 DEF NestInv
  <1>4. Len(source) \in Nat
    BY RenderingStructure
  <1> QED BY <1>1, <1>3, <1>4

\* The innermost section has gone on to another of its places, with a text for what it has passed.
LEMMA AdvanceMeaning ==
    ASSUME TemplateInv, phase = "render", phase' = "render", UNCHANGED <<source, given, reading>>,
           NEW R, NestInv(R), LoopsInv, NEW parts, RenderedSoFar(parts, R),
           NEW to, frames' = Advanced(to), valueByName' = valueByName,
           NEW text, IsSeq(text), <<Top.section + 1, to, valueByName, text>> \in R.text,
           result' = parts[Len(frames)].before \o text
    PROVE  MeaningInv(R)'
  <1> DEFINE n == Len(frames)
             gs == Advanced(to)
  <1>1. /\ n \in Nat \ {0} /\ UpTo(gs, frames, n)
        /\ gs[n].at = to /\ gs[n].turn = frames[n].turn /\ gs[n].section = Top.section
    BY AdvancedTop
  <1>2. Rendered(parts, frames, R) /\ valueByName = parts[n].map
    BY DEF RenderedSoFar
  <1>3. n \in 1..Len(frames) /\ Len(gs) = n
    BY <1>1 DEF UpTo
  <1> HIDE DEF gs
  <1>4. <<gs[n].section + 1, gs[n].at, parts[n].map, text>> \in R.text
    BY <1>1, <1>2
  <1>5. Grown(parts, n, gs, text, R)
    <2>1. Grows(parts, frames, n, gs, text, R)
      BY <1>1, <1>2, <1>3, <1>4 DEF Grows
    <2> QED BY <2>1, TextGrown
  <1>6. PICK all : /\ Rendered(all, gs, R)
                   /\ Written(all[n]) = parts[n].before \o text
                   /\ all[n].map = parts[n].map
    BY <1>5 DEF Grown
  <1>7. /\ frames' = gs /\ result' = Written(all[Len(gs)])
        /\ valueByName' = all[Len(gs)].map
    BY <1>2, <1>3, <1>6 DEF gs
  <1> QED BY <1>6, <1>7, MeaningStep

\* Whether a template can be read, and rendered, does not change either.
LEMMA ErrorsAreFixed ==
    ASSUME NEW R, source' = source, given' = given
    PROVE  /\ IsWhole(R)' <=> IsWhole(R)
           /\ CannotBeRead(R)' <=> CannotBeRead(R)
           /\ CannotBeRendered(R)' <=> CannotBeRendered(R)
  <1>1. IsWhole(R)' <=> IsWhole(R)
    BY DEF IsWhole
  <1>2. \A i : Known(i)' <=> Known(i)
    BY DEF Known, Has
  <1>3. \A i : IsOpening(i)' <=> IsOpening(i)
    BY DEF IsOpening
  <1>4. \A i, e : Matches(i, e)' <=> Matches(i, e)
    BY DEF Matches
  <1>5. CannotBeRead(R)' <=> CannotBeRead(R)
    BY <1>2, <1>3, <1>4 DEF CannotBeRead
  <1>6. CannotBeRendered(R)' <=> CannotBeRendered(R)
    BY <1>1 DEF CannotBeRendered
  <1> QED BY <1>1, <1>5, <1>6

LEMMA AbortMeaning ==
    ASSUME NEW R, MeaningInv(R), Abort, CannotBeRead(R) \/ CannotBeRendered(R)
    PROVE  MeaningInv(R)'
  <1>1. /\ NestInv(R) /\ LoopsInv /\ phase' = "aborted"
        /\ source' = source /\ given' = given
        /\ UNCHANGED <<source, given, reading>>
    BY DEF MeaningInv, Abort
  <1>2. NestInv(R)' /\ LoopsInv'
    BY <1>1, NestStays
  <1>3. CannotBeRead(R)' \/ CannotBeRendered(R)'
    BY <1>1, ErrorsAreFixed
  <1> QED BY <1>1, <1>2, <1>3 DEF MeaningInv

\* Rendering begins when the source has been read to its end.
LEMMA SourceIsWhole ==
    ASSUME TemplateInv, phase = "render", NEW R, NestInv(R)
    PROVE  IsWhole(R)
  <1>1. open = <<>> /\ pos = Len(source) + 1
    BY DEF TemplateInv, RenderInv
  <1>2. Start(Len(open) + 1) = 1
    BY <1>1 DEF Start
  <1> QED BY <1>1, <1>2 DEF NestInv, IsWhole

\* An error in the section that is rendered is one of the template.
LEMMA RenderErrorMeaning ==
    ASSUME TemplateInv, phase = "render", ~AtEnd, Abort, NEW R, MeaningInv(R),
           \/ source[Top.at].kind = "name" /\ source[Top.at].name \notin DOMAIN valueByName
           \/ source[Top.at].kind \in Loops /\ source[Top.at].var \in DOMAIN valueByName
    PROVE  MeaningInv(R)'
  <1>1. PICK parts : RenderedSoFar(parts, R)
    BY DEF MeaningInv, RenderedSoFar
  <1>2. /\ <<Top.section + 1, Top.at, valueByName, parts[Len(frames)].text>> \in R.text
        /\ Top.section + 1 \in 1..Len(source)
    BY <1>1, TopPart
  <1>3. Top.at \in 1..Len(source)
    BY InsideTheSection
  <1>4. IsWhole(R)
    BY SourceIsWhole DEF MeaningInv
  <1>5. CannotBeRendered(R)
    BY <1>2, <1>3, <1>4 DEF CannotBeRendered
  <1> QED BY <1>5, AbortMeaning

LEMMA CodeMeaning ==
    ASSUME TemplateInv, RenderCode, NEW R, ObeysTheMeaning(R), MeaningInv(R)
    PROVE  MeaningInv(R)'
  <1>1. CASE Abort
    <2>1. /\ phase = "render" /\ phase' = "aborted" /\ ~AtEnd
          /\ source[Top.at].kind = "name" /\ source[Top.at].name \notin DOMAIN valueByName
      BY <1>1 DEF RenderCode, Renders, Abort
    <2> QED BY <1>1, <2>1, RenderErrorMeaning
  <1>2. CASE ~Abort
    <2> DEFINE n == Len(frames)
               token == source[Top.at]
               new == IF token.kind = "text" THEN token ELSE valueByName[token.name]
               lo == Top.section + 1
    <2>1. /\ phase = "render" /\ phase' = "render" /\ ~AtEnd
          /\ token.kind \in {"text", "name"}
          /\ token.kind = "name" => token.name \in DOMAIN valueByName
          /\ frames' = Advanced(Top.at + 1) /\ valueByName' = valueByName
          /\ result' = Append(result, new)
          /\ UNCHANGED <<source, given, reading>>
      BY <1>2 DEF RenderCode, Renders
    <2>2. PICK parts : RenderedSoFar(parts, R)
      BY <2>1 DEF MeaningInv, RenderedSoFar
    <2> DEFINE text == parts[n].text
               before == parts[n].before
    <2>3. /\ IsSeq(before) /\ IsSeq(text)
          /\ <<lo, Top.at, valueByName, text>> \in R.text /\ lo \in 1..Len(source)
      BY <2>1, <2>2, TopPart DEF IsPart
    <2>4. Top.at \in 1..Len(source)
      BY <2>1, InsideTheSection
    <2>5. <<lo, Top.at + 1, valueByName, Append(text, new)>> \in R.text
      <3> DEFINE at == Top.at
                 map == valueByName
      <3>1. /\ token.kind = "text" => <<lo, at + 1, map, Append(text, token)>> \in R.text
            /\ token.kind = "name" /\ token.name \in DOMAIN map =>
                  <<lo, at + 1, map, Append(text, map[token.name])>> \in R.text
        <4> HIDE DEF lo, text
        <4> QED BY <2>3, <2>4 DEF ObeysTheMeaning, ObeysTheText
      <3> HIDE DEF lo, text
      <3> QED BY <2>1, <3>1
    <2>6. result = before \o text
      BY <2>2 DEF RenderedSoFar, Written
    <2> HIDE DEF new, text, before
    <2>7. IsSeq(Append(text, new)) /\ result' = before \o Append(text, new)
      BY <2>1, <2>3, <2>6, AppendJoined
    <2> DEFINE grown == Append(text, new)
               to == Top.at + 1
    <2>8. /\ IsSeq(grown) /\ <<Top.section + 1, to, valueByName, grown>> \in R.text
          /\ result' = parts[Len(frames)].before \o grown
          /\ frames' = Advanced(to)
      BY <2>1, <2>5, <2>7 DEF before
    <2> HIDE DEF grown, to
    <2> QED BY <2>1, <2>2, <2>8, AdvanceMeaning DEF MeaningInv
  <1> QED BY <1>1, <1>2

\* A section that is skipped stands for nothing.
LEMMA SkipMeaning ==
    ASSUME TemplateInv, phase = "render", ~AtEnd, IsOpening(Top.at),
           frames' = Advanced(End(Top.at) + 1),
           UNCHANGED <<source, given, phase, reading, valueByName, result>>,
           NEW R, ObeysTheMeaning(R), MeaningInv(R),
           \/ source[Top.at].kind = "if" /\ ~Holds(source[Top.at], valueByName)
           \/ /\ source[Top.at].kind \in Loops /\ source[Top.at].var \notin DOMAIN valueByName
              /\ Turns(Top.at) <= 0
    PROVE  MeaningInv(R)'
  <1> DEFINE n == Len(frames)
             i == Top.at
             e == End(i)
             lo == Top.section + 1
             map == valueByName
             to == e + 1
  <1>1. PICK parts : RenderedSoFar(parts, R)
    BY DEF MeaningInv, RenderedSoFar
  <1> DEFINE text == parts[n].text
  <1>2. /\ IsSeq(text) /\ <<lo, i, map, text>> \in R.text /\ lo \in 1..Len(source)
    BY <1>1, TopPart DEF IsPart
  <1>3. i \in DOMAIN sections /\ i \in 1..Len(source)
    BY InsideTheSection
  <1>4. e \in 1..Len(source) /\ WholeSection(R, i, e)
    BY <1>3, SectionIsWhole DEF MeaningInv
  <1>5. <<lo, to, map, text>> \in R.text
    <2>1. CASE source[i].kind = "if" /\ ~Holds(source[i], map)
      <3> HIDE DEF i, e, lo, map, text
      <3> QED BY <1>2, <1>3, <1>4, <2>1 DEF ObeysTheMeaning, ObeysTheText
    <2>2. CASE source[i].kind \in Loops /\ source[i].var \notin DOMAIN map /\ Turns(i) <= 0
      <3>1. Turns(i) = Count(i) /\ Count(i) <= 0
        BY <1>3, <2>2, TurnsAreCounted DEF MeaningInv
      <3>2. <<i, 0, map, <<>>>> \in R.turns
        <4>1. Known(i)
          BY <1>3 DEF MeaningInv, LoopsInv
        <4> HIDE DEF i, map, lo, text
        <4> QED BY <1>2, <1>3, <2>2, <4>1 DEF ObeysTheMeaning, ObeysTheText
      <3>3. <<i, IF Count(i) <= 0 THEN 0 ELSE Count(i), map, <<>>>> \in R.turns
        BY <3>1, <3>2
      <3>4. <<lo, e + 1, map, text \o <<>>>> \in R.text
        <4> HIDE DEF i, e, lo, map, text
        <4> QED BY <1>2, <1>3, <1>4, <2>2, <3>3 DEF ObeysTheMeaning, ObeysTheText
      <3>5. text \o <<>> = text
        BY <1>2, Joined
      <3> QED BY <3>4, <3>5
    <2> QED BY <2>1, <2>2
  <1>6. result' = parts[Len(frames)].before \o text
    BY <1>1 DEF RenderedSoFar, Written
  <1>7. frames' = Advanced(to) /\ <<Top.section + 1, to, valueByName, text>> \in R.text
    BY <1>5
  <1>8. phase' = "render" /\ UNCHANGED <<source, given, reading>> /\ valueByName' = valueByName
    OBVIOUS
  <1> HIDE DEF to, text
  <1> QED BY <1>1, <1>2, <1>6, <1>7, <1>8, AdvanceMeaning DEF MeaningInv

\* The innermost section has entered another, with values that are as they should be.
LEMMA EnterMeaning ==
    ASSUME TemplateInv, phase = "render", phase' = "render", ~AtEnd, IsOpening(Top.at),
           frames' = Entered(Top.at), result' = result,
           UNCHANGED <<source, given, reading>>,
           NEW R, ObeysTheMeaning(R), MeaningInv(R),
           NEW map, IsMap(map), valueByName' = map,
           <<Top.at + 1, Top.at + 1, map, <<>>>> \in R.text,
           \A before : EnteredFrom(valueByName, Part(map, before, <<>>, <<>>),
                                   [section |-> Top.at, at |-> Top.at + 1, turn |-> 0], R)
    PROVE  MeaningInv(R)'
  <1> DEFINE n == Len(frames)
             i == Top.at
             f == [section |-> i, at |-> i + 1, turn |-> 0]
             as == Advanced(End(i) + 1)
             gs == Entered(i)
  <1>1. PICK parts : RenderedSoFar(parts, R)
    BY DEF MeaningInv, RenderedSoFar
  <1>2. /\ n \in Nat \ {0} /\ n \in 1..n /\ Top = frames[n] /\ IsPart(parts[n])
        /\ Rendered(parts, frames, R) /\ valueByName = parts[n].map /\ result = Written(parts[n])
    BY <1>1, TopPart DEF RenderedSoFar
  <1>4. /\ Len(gs) = n + 1 /\ gs[n + 1] = f
        /\ \A k \in 1..n - 1 : gs[k] = frames[k]
        /\ gs[n].section = frames[n].section /\ gs[n].turn = frames[n].turn
        /\ gs[n].at = End(i) + 1
    <2>1. /\ UpTo(as, frames, n) /\ as[n].at = End(i) + 1 /\ as[n].turn = frames[n].turn
          /\ Len(Append(as, f)) = n + 1
          /\ \A k \in 1..n : Append(as, f)[k] = as[k]
          /\ Append(as, f)[n + 1] = f
      <3> DEFINE to == End(i) + 1
      <3>1. as = Advanced(to)
        OBVIOUS
      <3> HIDE DEF as, to, f
      <3>2. UpTo(as, frames, n) /\ as[n].at = to /\ as[n].turn = frames[n].turn
        BY <3>1, AdvancedTop
      <3>3. \A g : /\ Len(Append(as, g)) = n + 1
                   /\ \A k \in 1..n : Append(as, g)[k] = as[k]
                   /\ Append(as, g)[n + 1] = g
        <4>1. \A g : /\ Len(Append(Advanced(to), g)) = n + 1
                     /\ \A k \in 1..n : Append(Advanced(to), g)[k] = Advanced(to)[k]
                     /\ Append(Advanced(to), g)[n + 1] = g
          BY AdvancedTop
        <4> QED BY <3>1, <4>1
      <3> QED BY <3>2, <3>3 DEF to
    <2>2. gs = Append(as, f)
      BY DEF Entered
    <2>3. \A k \in 1..n - 1 : k \in 1..n
      BY <1>2
    <2> HIDE DEF gs, as, f, i
    <2> QED BY <1>2, <2>1, <2>2, <2>3 DEF UpTo
  <1> DEFINE before == Written(parts[n]) \o <<>>
             new == Part(map, before, <<>>, <<>>)
  <1>5. /\ new.map = map /\ new.before = before /\ new.turns = <<>> /\ new.text = <<>>
        /\ EnteredFrom(valueByName, new, f, R)
    BY DEF Part
  <1>6. IsSeq(before) /\ IsSeq(<<>>) /\ before = result
    <2>1. IsSeq(Written(parts[n]))
      BY <1>2, Joined DEF IsPart, Written
    <2> QED BY <1>2, <2>1, Joined, EmptyIsSeq
  <1> HIDE DEF new, before, gs
  <1>7. IsPart(new)
    BY <1>5, <1>6 DEF IsPart
  <1>8. <<i + 1, i + 1, map, <<>>>> \in R.text
    OBVIOUS
  <1>9. f.section = i /\ f.at = i + 1
    OBVIOUS
  <1>10. Enters(parts, frames, gs, new, R)
    <2> DEFINE l == n + 1
    <2>1. gs[l].section = frames[n].at
      BY <1>2, <1>4, <1>9
    <2>2. <<gs[l].section + 1, gs[l].at, new.map, new.text>> \in R.text
      BY <1>4, <1>5, <1>8, <1>9
    <2>3. gs[n].at = End(frames[n].at) + 1
      BY <1>2, <1>4
    <2>4. new.before = Written(parts[n]) \o new.turns
      BY <1>5 DEF before
    <2>5. EnteredFrom(parts[n].map, new, gs[l], R)
      BY <1>2, <1>4, <1>5
    <2> HIDE DEF f, i
    <2> QED BY <1>2, <1>4, <1>7, <2>1, <2>2, <2>3, <2>4, <2>5 DEF Enters
  <1>11. PICK all : Rendered(all, gs, R) /\ all[Len(gs)] = new
    BY <1>10, SectionEntered
  <1>12. Written(new) = result
    BY <1>5, <1>6, Joined DEF Written
  <1>13. /\ frames' = gs /\ result' = Written(all[Len(gs)])
         /\ valueByName' = all[Len(gs)].map
    BY <1>5, <1>11, <1>12 DEF gs
  <1> QED BY <1>11, <1>13, MeaningStep DEF MeaningInv

LEMMA IfMeaning ==
    ASSUME TemplateInv, RenderIf, NEW R, ObeysTheMeaning(R), MeaningInv(R)
    PROVE  MeaningInv(R)'
  <1> DEFINE map == valueByName
  <1>1. /\ phase = "render" /\ ~AtEnd /\ source[Top.at].kind = "if" /\ IsOpening(Top.at)
        /\ UNCHANGED <<source, given, phase, reading, valueByName, result>>
    BY DEF RenderIf, Renders, IsOpening
  <1>2. CASE ~Holds(source[Top.at], map)
    <2>1. frames' = Advanced(End(Top.at) + 1)
      BY <1>2 DEF RenderIf
    <2> QED BY <1>1, <1>2, <2>1, SkipMeaning
  <1>3. CASE Holds(source[Top.at], map)
    <2>1. frames' = Entered(Top.at)
      BY <1>3 DEF RenderIf
    <2>2. IsMap(map) /\ <<Top.at + 1, Top.at + 1, map, <<>>>> \in R.text
      <3> DEFINE at == Top.at
                 lo == Top.section + 1
      <3>1. PICK parts : RenderedSoFar(parts, R)
        BY <1>1 DEF MeaningInv, RenderedSoFar
      <3>2. /\ IsPart(parts[Len(frames)]) /\ map = parts[Len(frames)].map
            /\ <<lo, at, map, parts[Len(frames)].text>> \in R.text /\ lo \in 1..Len(source)
        BY <1>1, <3>1, TopPart DEF RenderedSoFar
      <3>3. at \in 1..Len(source)
        BY <1>1, InsideTheSection
      <3>4. <<at + 1, at + 1, map, <<>>>> \in R.text
        <4> HIDE DEF at, lo, map
        <4>1. source[at].kind = "if" /\ Holds(source[at], map)
          BY <1>1, <1>3 DEF at, map
        <4> QED BY <3>2, <3>3, <4>1 DEF ObeysTheMeaning, ObeysTheText
      <3> QED BY <3>2, <3>4 DEF IsPart
    <2> DEFINE f == [section |-> Top.at, at |-> Top.at + 1, turn |-> 0]
    <2>3. \A before : EnteredFrom(map, Part(map, before, <<>>, <<>>), f, R)
      <3>1. f.section = Top.at
        OBVIOUS
      <3> HIDE DEF f
      <3> QED BY <1>1, <1>3, <3>1 DEF EnteredFrom, Part
    <2>4. phase' = "render" /\ valueByName' = map /\ result' = result /\ UNCHANGED <<source, given, reading>>
      BY <1>1
    <2> QED BY <1>1, <2>1, <2>2, <2>3, <2>4, EnterMeaning
  <1> QED BY <1>2, <1>3

\* The values in one more turn of a loop.
LEMMA TurnEntered ==
    ASSUME TemplateInv, phase = "render", NEW R, ObeysTheMeaning(R), MeaningInv(R),
           NEW i \in DOMAIN sections, NEW outer,
           source[i].kind \in Loops, source[i].var \notin DOMAIN outer,
           NEW turn \in Nat, turn < Count(i),
           NEW turns, <<i, turn, outer, turns>> \in R.turns
    PROVE  /\ IsMap(Bound(i, turn, outer))
           /\ <<i + 1, i + 1, Bound(i, turn, outer), <<>>>> \in R.text
           /\ \A new : <<i + 1, End(i), Bound(i, turn, outer), new>> \in R.text
                 => <<i, turn + 1, outer, turns \o new>> \in R.turns
  <1> DEFINE e == End(i)
             map == Bound(i, turn, outer)
  <1>1. i \in 1..Len(source) /\ e \in 1..Len(source) /\ WholeSection(R, i, e)
    BY SectionIsWhole DEF MeaningInv
  <1>2. IsMap(map)
    BY DEF IsMap, Bound, Bind
  <1>3. ASSUME NEW new
        PROVE  /\ <<i + 1, i + 1, map, <<>>>> \in R.text
               /\ <<i + 1, e, map, new>> \in R.text => <<i, turn + 1, outer, turns \o new>> \in R.turns
    <2> HIDE DEF e
    <2> QED BY <1>1 DEF ObeysTheMeaning, ObeysTheTurns
  <1> QED BY <1>2, <1>3

LEMMA ForMeaning ==
    ASSUME TemplateInv, RenderFor, NEW R, ObeysTheMeaning(R), MeaningInv(R)
    PROVE  MeaningInv(R)'
  <1> DEFINE i == Top.at
             outer == valueByName
  <1>1. /\ phase = "render" /\ ~AtEnd /\ source[i].kind \in Loops /\ IsOpening(i)
    BY DEF RenderFor, Renders, IsOpening
  <1>2. CASE Abort
    <2>1. source[i].var \in DOMAIN outer
      BY <1>1, <1>2 DEF RenderFor, Abort
    <2> QED BY <1>1, <1>2, <2>1, RenderErrorMeaning
  <1>3. CASE ~Abort /\ Turns(i) <= 0
    <2>1. /\ frames' = Advanced(End(i) + 1) /\ source[i].var \notin DOMAIN outer
          /\ UNCHANGED <<source, given, phase, reading, valueByName, result>>
      BY <1>3 DEF RenderFor
    <2> QED BY <1>1, <1>3, <2>1, SkipMeaning
  <1>4. CASE ~Abort /\ ~(Turns(i) <= 0)
    <2>1. /\ source[i].var \notin DOMAIN outer
          /\ frames' = Entered(i) /\ phase' = "render" /\ result' = result
          /\ valueByName' = Bind(outer, source[i].var, Item(i, 0))
          /\ UNCHANGED <<source, given, reading>>
      BY <1>1, <1>4 DEF RenderFor
    <2>2. i \in DOMAIN sections /\ i \in 1..Len(source)
      BY <1>1, InsideTheSection
    <2>3. Turns(i) = Count(i) /\ Count(i) \in Int /\ Item(i, 0) = Value(i, 0)
      <3> HIDE DEF i
      <3> QED BY <1>1, <2>2, TurnsAreCounted DEF MeaningInv
    <2>4. 0 \in Nat /\ 0 < Count(i)
      BY <1>4, <2>3
    <2> DEFINE map == Bound(i, 0, outer)
               f == [section |-> i, at |-> i + 1, turn |-> 0]
    <2>5. valueByName' = map
      BY <2>1, <2>3 DEF Bound
    <2>6. /\ Top.section + 1 \in 1..Len(source) /\ Known(i)
          /\ \E text : <<Top.section + 1, i, outer, text>> \in R.text
      <3>1. PICK parts : RenderedSoFar(parts, R)
        BY <1>1 DEF MeaningInv, RenderedSoFar
      <3>2. Known(i)
        BY <2>2 DEF MeaningInv, LoopsInv
      <3> QED BY <1>1, <3>1, <3>2, TopPart
    <2>7. <<i, 0, outer, <<>>>> \in R.turns
      <3> DEFINE lo == Top.section + 1
      <3>1. PICK text : <<lo, i, outer, text>> \in R.text
        BY <2>6
      <3>2. lo \in 1..Len(source)
        BY <2>6
      <3> HIDE DEF i, outer, lo
      <3> QED BY <1>1, <2>1, <2>2, <2>6, <3>1, <3>2 DEF ObeysTheMeaning, ObeysTheText
    <2>8. <<i + 1, i + 1, map, <<>>>> \in R.text /\ IsMap(map)
      <3> HIDE DEF i, outer
      <3> QED BY <1>1, <2>1, <2>2, <2>4, <2>7, TurnEntered
    <2>9. \A before : EnteredFrom(outer, Part(map, before, <<>>, <<>>), f, R)
      <3>1. f.section = i /\ f.turn = 0
        OBVIOUS
      <3> HIDE DEF f
      <3> QED BY <1>1, <2>1, <2>4, <2>7, <3>1 DEF EnteredFrom, Part
    <2> HIDE DEF map
    <2> QED BY <1>1, <2>1, <2>5, <2>8, <2>9, EnterMeaning
  <1> QED BY <1>2, <1>3, <1>4

\* A section has ended: of what was written the section has written the last.
LEMMA OuterPart ==
    ASSUME TemplateInv, phase = "render", AtEnd, Top.section # 0,
           NEW R, NestInv(R), NEW parts, RenderedSoFar(parts, R)
    PROVE  LET n == Len(frames)
               m == n - 1
               i == Top.section
               lo == frames[m].section + 1
               whole == parts[n].turns \o parts[n].text
           IN  /\ n \in Nat \ {0, 1} /\ m \in Nat \ {0} /\ Top = frames[n]
               /\ i \in DOMAIN sections /\ i \in 1..Len(source)
               /\ End(i) \in 1..Len(source) /\ WholeSection(R, i, End(i))
               /\ lo \in 1..Len(source) /\ frames[m].at = End(i) + 1
               /\ IsPart(parts[m]) /\ IsPart(parts[n])
               /\ <<lo, i, parts[m].map, parts[m].text>> \in R.text
               /\ <<i + 1, End(i), parts[n].map, parts[n].text>> \in R.text
               /\ parts[n].before = Written(parts[m]) \o parts[n].turns
               /\ EnteredFrom(parts[m].map, parts[n], frames[n], R)
               /\ IsSeq(whole) /\ IsSeq(parts[m].text \o whole) /\ IsSeq(Written(parts[m]))
               /\ result = Written(parts[m]) \o whole
               /\ result = parts[m].before \o (parts[m].text \o whole)
  <1> DEFINE n == Len(frames)
             m == n - 1
             i == Top.section
             lo == frames[m].section + 1
             whole == parts[n].turns \o parts[n].text
  <1>1. n \in Nat \ {0, 1} /\ m \in Nat \ {0} /\ n \in 1..n /\ m \in 1..n /\ Top = frames[n]
    <2>1. n \in Nat \ {0} /\ n # 1 /\ Top = frames[n]
      BY InnermostSection
    <2> HIDE DEF n
    <2> QED BY <2>1
  <1>2. i \in DOMAIN sections
    BY InnermostSection DEF FrameInv
  <1>3. i \in 1..Len(source) /\ End(i) \in 1..Len(source) /\ WholeSection(R, i, End(i))
    BY <1>2, SectionIsWhole
  <1>4. lo \in 1..Len(source)
    <2> DEFINE f == frames[m]
    <2>1. f.section \in DOMAIN sections \cup {0}
      BY <1>1 DEF TemplateInv, RenderInv, FramesInv, FrameInv
    <2>2. Len(source) \in Nat
      BY RenderingStructure
    <2>3. CASE f.section = 0
      BY <1>3, <2>2, <2>3
    <2>4. CASE f.section \in DOMAIN sections
      <3>1. f.section \in 1..Len(source) /\ End(f.section) \in f.section + 1..Len(source)
        BY <2>4, RenderingStructure
      <3> HIDE DEF f
      <3>2. f.section + 1 \in 1..Len(source)
        BY <2>2, <3>1
      <3> QED BY <3>2 DEF f
    <2> QED BY <2>1, <2>3, <2>4
  <1>5. /\ IsPart(parts[n])
        /\ <<i + 1, End(i), parts[n].map, parts[n].text>> \in R.text
    BY TopPart DEF AtEnd, RenderedSoFar
  <1>6. Rendered(parts, frames, R) /\ n # 1
    BY <1>1 DEF RenderedSoFar
  <1>7. /\ parts[n].before = Written(parts[m]) \o parts[n].turns
        /\ EnteredFrom(parts[m].map, parts[n], frames[n], R)
    BY <1>1, <1>6, PartFits DEF Fits
  <1>8. /\ IsPart(parts[m]) /\ frames[m].at = End(i) + 1
        /\ <<lo, i, parts[m].map, parts[m].text>> \in R.text
    BY <1>1, <1>6, PartBefore
  <1>9. /\ IsSeq(whole) /\ IsSeq(parts[m].text \o whole) /\ IsSeq(Written(parts[m]))
        /\ result = Written(parts[m]) \o whole
        /\ result = parts[m].before \o (parts[m].text \o whole)
    <2>1. /\ IsSeq(parts[n].turns) /\ IsSeq(parts[n].text)
          /\ IsSeq(parts[m].before) /\ IsSeq(parts[m].text)
      BY <1>5, <1>8 DEF IsPart
    <2>2. IsSeq(whole) /\ IsSeq(Written(parts[m]))
      BY <2>1, Joined DEF Written
    <2>3. result = (Written(parts[m]) \o parts[n].turns) \o parts[n].text
      BY <1>7 DEF RenderedSoFar, Written
    <2>4. result = Written(parts[m]) \o whole
      <3> DEFINE a == Written(parts[m])
                 b == parts[n].turns
                 c == parts[n].text
      <3>1. IsSeq(a) /\ IsSeq(b) /\ IsSeq(c) /\ result = (a \o b) \o c
        BY <2>1, <2>2, <2>3
      <3> HIDE DEF a, b, c
      <3>2. result = a \o (b \o c)
        BY <3>1, JoinedTwice
      <3> QED BY <3>2 DEF a, b, c
    <2> HIDE DEF whole
    <2>5. Written(parts[m]) \o whole = parts[m].before \o (parts[m].text \o whole)
      <3> DEFINE a == parts[m].before
                 b == parts[m].text
      <3>1. Written(parts[m]) = a \o b
        BY DEF Written
      <3>2. IsSeq(a) /\ IsSeq(b) /\ IsSeq(whole)
        BY <2>1, <2>2
      <3> HIDE DEF a, b
      <3>3. (a \o b) \o whole = a \o (b \o whole)
        BY <3>2, JoinedTwice
      <3> QED BY <3>1, <3>3 DEF a, b
    <2> QED BY <2>1, <2>2, <2>4, <2>5, Joined
  <1> QED BY <1>1, <1>2, <1>3, <1>4, <1>5, <1>7, <1>8, <1>9

\* The section before the innermost goes on.
LEMMA LeaveMeaning ==
    ASSUME TemplateInv, phase = "render", phase' = "render", AtEnd, Top.section # 0,
           frames' = Front(frames), result' = result, UNCHANGED <<source, given, reading>>,
           NEW R, NestInv(R), LoopsInv, NEW parts, RenderedSoFar(parts, R),
           valueByName' = parts[Len(frames) - 1].map,
           <<frames[Len(frames) - 1].section + 1, End(Top.section) + 1, parts[Len(frames) - 1].map,
             parts[Len(frames) - 1].text \o (parts[Len(frames)].turns \o parts[Len(frames)].text)>> \in R.text
    PROVE  MeaningInv(R)'
  <1> DEFINE n == Len(frames)
             m == n - 1
             gs == Front(frames)
             text == parts[m].text \o (parts[n].turns \o parts[n].text)
  <1>0. n \in Nat \ {0, 1} /\ m \in Nat \ {0}
    BY OuterPart
  <1>1. /\ frames[m].at = End(Top.section) + 1
        /\ IsSeq(text) /\ result = parts[m].before \o text
    BY OuterPart
  <1>2. Len(gs) = m /\ \A k \in 1..m : gs[k] = frames[k]
    <2>1. frames \in Seq(Frame) /\ frames # <<>>
      BY DEF TemplateInv, RenderInv, FramesInv
    <2> QED BY <2>1, FrontAndLast
  <1>3. <<frames[m].section + 1, End(Top.section) + 1, parts[m].map, text>> \in R.text
    OBVIOUS
  <1>4. m \in 1..m /\ m \in 1..n /\ \A k \in 1..m - 1 : k \in 1..m
    <2> HIDE DEF n
    <2>1. n = m + 1 /\ m \in Nat \ {0}
      BY <1>0
    <2> HIDE DEF m
    <2> QED BY <2>1
  <1> HIDE DEF gs, text
  <1>5. Grows(parts, frames, m, gs, text, R)
    <2>1. Rendered(parts, frames, R)
      BY DEF RenderedSoFar
    <2> HIDE DEF m
    <2>2. UpTo(gs, frames, m) /\ gs[m] = frames[m]
      BY <1>2, <1>4 DEF UpTo
    <2> QED BY <1>0, <1>1, <1>3, <1>4, <2>1, <2>2 DEF Grows
  <1>6. PICK all : /\ Rendered(all, gs, R)
                   /\ Written(all[m]) = parts[m].before \o text
                   /\ all[m].map = parts[m].map
    BY <1>5, TextGrown DEF Grown
  <1>7. /\ frames' = gs /\ result' = Written(all[Len(gs)])
        /\ valueByName' = all[Len(gs)].map
    BY <1>1, <1>2, <1>6 DEF gs
  <1> QED BY <1>6, <1>7, MeaningStep

LEMMA EndIfMeaning ==
    ASSUME TemplateInv, EndIf, NEW R, ObeysTheMeaning(R), MeaningInv(R)
    PROVE  MeaningInv(R)'
  <1> DEFINE n == Len(frames)
             m == n - 1
             i == Top.section
             e == End(i)
  <1>1. /\ phase = "render" /\ phase' = "render" /\ AtEnd /\ i # 0 /\ source[i].kind = "if"
        /\ frames' = Front(frames) /\ result' = result /\ valueByName' = valueByName
        /\ UNCHANGED <<source, given, reading>>
    BY DEF EndIf
  <1>2. PICK parts : RenderedSoFar(parts, R)
    BY <1>1 DEF MeaningInv, RenderedSoFar
  <1> DEFINE outer == parts[m].map
             lo == frames[m].section + 1
             text == parts[m].text
             new == parts[n].text
  <1>3. /\ i \in 1..Len(source) /\ e \in 1..Len(source) /\ WholeSection(R, i, e)
        /\ lo \in 1..Len(source)
        /\ <<lo, i, outer, text>> \in R.text
        /\ <<i + 1, e, parts[n].map, new>> \in R.text
        /\ EnteredFrom(outer, parts[n], frames[n], R) /\ frames[n].section = i
        /\ IsPart(parts[n])
    BY <1>1, <1>2, OuterPart DEF MeaningInv
  <1>4. Holds(source[i], outer) /\ parts[n].map = outer /\ parts[n].turns = <<>>
    BY <1>1, <1>3 DEF EnteredFrom, Loops
  <1>5. <<lo, e + 1, outer, text \o new>> \in R.text
    <2>1. <<i + 1, e, outer, new>> \in R.text
      BY <1>3, <1>4
    <2> HIDE DEF i, e, lo, outer, text, new
    <2> QED BY <1>1, <1>3, <1>4, <2>1 DEF ObeysTheMeaning, ObeysTheText
  <1>6. new = parts[n].turns \o new
    BY <1>3, <1>4, Joined DEF IsPart
  <1>7. valueByName' = outer
    BY <1>1, <1>2, <1>4 DEF RenderedSoFar
  <1>8. <<lo, e + 1, outer, text \o (parts[n].turns \o new)>> \in R.text
    BY <1>5, <1>6
  <1> QED BY <1>1, <1>2, <1>7, <1>8, LeaveMeaning DEF MeaningInv

\* A turn of a loop has ended.
LEMMA TurnEnded ==
    ASSUME TemplateInv, phase = "render", AtEnd, Top.section # 0, source[Top.section].kind \in Loops,
           NEW R, ObeysTheMeaning(R), MeaningInv(R), NEW parts, RenderedSoFar(parts, R)
    PROVE  LET n == Len(frames)
               i == Top.section
               outer == parts[n - 1].map
           IN  /\ source[i].var \notin DOMAIN outer
               /\ Top.turn \in Nat /\ Top.turn < Count(i)
               /\ valueByName = Bound(i, Top.turn, outer)
               /\ Turns(i) = Count(i) /\ Count(i) \in Int
               /\ \A turn : Item(i, turn) = Value(i, turn)
               /\ <<i, Top.turn + 1, outer, parts[n].turns \o parts[n].text>> \in R.turns
  <1> DEFINE n == Len(frames)
             i == Top.section
             outer == parts[n - 1].map
             turn == Top.turn
             turns == parts[n].turns
             new == parts[n].text
  <1>1. /\ i \in DOMAIN sections /\ Top = frames[n]
        /\ <<i + 1, End(i), parts[n].map, new>> \in R.text
        /\ EnteredFrom(outer, parts[n], frames[n], R)
    BY OuterPart DEF MeaningInv
  <1>2. /\ source[i].var \notin DOMAIN outer
        /\ turn \in Nat /\ turn < Count(i)
        /\ parts[n].map = Bound(i, turn, outer)
        /\ <<i, turn, outer, turns>> \in R.turns
    BY <1>1 DEF EnteredFrom, Loops
  <1>3. /\ Turns(i) = Count(i) /\ Count(i) \in Int
        /\ \A t : Item(i, t) = Value(i, t)
    <2> HIDE DEF i
    <2> QED BY <1>1, TurnsAreCounted DEF MeaningInv, i
  <1>4. <<i, turn + 1, outer, turns \o new>> \in R.turns
    <2>1. source[i].kind \in Loops
      OBVIOUS
    <2>2. <<i + 1, End(i), Bound(i, turn, outer), new>> \in R.text
      BY <1>1, <1>2
    <2> HIDE DEF i, outer, turn, turns, new
    <2> QED BY <1>1, <1>2, <2>1, <2>2, TurnEntered
  <1> QED BY <1>1, <1>2, <1>3, <1>4 DEF RenderedSoFar

LEMMA NextTurnMeaning ==
    ASSUME TemplateInv, EndTurn, Top.turn + 1 < Turns(Top.section),
           NEW R, ObeysTheMeaning(R), MeaningInv(R)
    PROVE  MeaningInv(R)'
  <1> DEFINE n == Len(frames)
             m == n - 1
             i == Top.section
             turn == Top.turn + 1
             f == [section |-> i, at |-> i + 1, turn |-> turn]
             gs == Append(Front(frames), f)
  <1>1. /\ phase = "render" /\ phase' = "render" /\ AtEnd /\ i # 0 /\ source[i].kind \in Loops
        /\ frames' = gs /\ valueByName' = Bind(valueByName, source[i].var, Item(i, turn))
        /\ result' = result
        /\ UNCHANGED <<source, given, reading>>
    BY DEF EndTurn
  <1>2. PICK parts : RenderedSoFar(parts, R)
    BY <1>1 DEF MeaningInv, RenderedSoFar
  <1> DEFINE outer == parts[m].map
             turns == parts[n].turns \o parts[n].text
             map == Bound(i, turn, outer)
             before == Written(parts[m]) \o turns
             new == Part(map, before, turns, <<>>)
  <1>3. /\ n \in Nat \ {0, 1} /\ n \in 1..n /\ i \in DOMAIN sections /\ i \in 1..Len(source)
        /\ IsSeq(turns) /\ IsSeq(Written(parts[m])) /\ result = before
        /\ frames[n].section = i
    <2>1. n \in 1..n
      BY <1>1, <1>2, TopPart
    <2> QED BY <1>1, <1>2, <2>1, OuterPart DEF MeaningInv
  <1>4. /\ source[i].var \notin DOMAIN outer
        /\ valueByName = Bound(i, Top.turn, outer)
        /\ turn \in Nat /\ turn < Count(i) /\ Item(i, turn) = Value(i, turn)
        /\ <<i, turn, outer, turns>> \in R.turns
    <2>1. phase = "render" /\ AtEnd /\ Top.section # 0 /\ source[Top.section].kind \in Loops
      BY <1>1
    <2>2. /\ source[i].var \notin DOMAIN outer
          /\ valueByName = Bound(i, Top.turn, outer)
          /\ <<i, turn, outer, turns>> \in R.turns
      BY <1>2, <2>1, TurnEnded
    <2>3. Top.turn \in Nat /\ Turns(i) = Count(i) /\ Item(i, turn) = Value(i, turn)
      BY <1>2, <2>1, TurnEnded
    <2>4. turn \in Nat /\ turn < Count(i)
      BY <2>3
    <2> QED BY <2>2, <2>3, <2>4
  <1>5. IsMap(map) /\ <<i + 1, i + 1, map, <<>>>> \in R.text
    <2> HIDE DEF i, turn, outer, turns
    <2> QED BY <1>1, <1>3, <1>4, TurnEntered
  <1>6. valueByName' = map
    <2> DEFINE x == source[i].var
    <2>1. valueByName = Bind(outer, x, Value(i, Top.turn)) /\ valueByName' = Bind(valueByName, x, Value(i, turn))
      BY <1>1, <1>4 DEF Bound
    <2> HIDE DEF x, outer, turn
    <2>2. \A a, b : Bind(Bind(outer, x, a), x, b) = Bind(outer, x, b)
      BY DEF Bind
    <2>3. valueByName' = Bind(outer, x, Value(i, turn))
      BY <2>1, <2>2
    <2> QED BY <2>3 DEF Bound, x
  <1>7. Len(gs) = n /\ gs[n] = f /\ \A k \in 1..m : gs[k] = frames[k]
    <2>1. f \in Frame
      <3>1. i \in Nat /\ i + 1 \in Nat
        BY <1>1, InnermostSection DEF Frame
      <3> HIDE DEF i, turn
      <3> QED BY <1>4, <3>1 DEF Frame
    <2>2. /\ Front(frames) \in Seq(Frame) /\ Len(Front(frames)) = n - 1
          /\ \A k \in 1..m : Front(frames)[k] = frames[k]
      <3>1. frames \in Seq(Frame) /\ frames # <<>>
        BY <1>1 DEF TemplateInv, RenderInv, FramesInv
      <3> QED BY <3>1, FrontAndLast
    <2> HIDE DEF f
    <2>3. /\ Len(gs) = n - 1 + 1
          /\ \A k \in 1..m : gs[k] = Front(frames)[k]
          /\ gs[n - 1 + 1] = f
      BY <2>1, <2>2, AppendProperties
    <2>4. n - 1 + 1 = n
      <3> HIDE DEF n
      <3> QED BY <1>3
    <2> QED BY <2>2, <2>3, <2>4
  <1>8. f.section = i /\ f.at = i + 1 /\ f.turn = turn
    OBVIOUS
  <1>9. /\ new.map = map /\ new.before = before /\ new.turns = turns /\ new.text = <<>>
        /\ IsPart(new)
    <2>1. IsSeq(before) /\ IsSeq(<<>>)
      BY <1>3, Joined, EmptyIsSeq
    <2>2. new.map = map /\ new.before = before /\ new.turns = turns /\ new.text = <<>>
      BY DEF Part
    <2> HIDE DEF new, before, turns, map
    <2> QED BY <1>3, <1>5, <2>1, <2>2 DEF IsPart
  <1> HIDE DEF new, f, gs
  <1>10. Replaces(parts, frames, n, gs, new, R)
    <2>1. Rendered(parts, frames, R)
      BY <1>2 DEF RenderedSoFar
    <2>2. UpTo(gs, frames, n)
      BY <1>3, <1>7, <1>8 DEF UpTo
    <2>3. Fits(parts, n, new, f, R)
      <3>1. EnteredFrom(outer, new, f, R)
        <4> HIDE DEF i, turn, outer, turns, map
        <4> QED BY <1>1, <1>4, <1>8, <1>9 DEF EnteredFrom, map
      <3>2. n # 1
        BY <1>3
      <3>3. new.before = Written(parts[n - 1]) \o new.turns
        BY <1>9
      <3> QED BY <3>1, <3>2, <3>3 DEF Fits
    <2>4. <<gs[n].section + 1, gs[n].at, new.map, new.text>> \in R.text
      BY <1>5, <1>7, <1>8, <1>9
    <2>5. Fits(parts, n, new, gs[n], R)
      BY <1>7, <2>3
    <2>6. Len(frames) \in Nat /\ n \in 1..Len(frames)
      BY <1>3
    <2> HIDE DEF n
    <2> QED BY <1>9, <2>1, <2>2, <2>4, <2>5, <2>6 DEF Replaces
  <1>11. PICK all : Rendered(all, gs, R) /\ all[n] = new
    BY <1>10, LastReplaced
  <1>12. Written(new) = result
    <2>1. IsSeq(before)
      BY <1>3, Joined
    <2> HIDE DEF before
    <2> QED BY <1>3, <1>9, <2>1, Joined DEF Written
  <1>13. /\ frames' = gs /\ result' = Written(all[Len(gs)])
         /\ valueByName' = all[Len(gs)].map
    BY <1>1, <1>6, <1>7, <1>9, <1>11, <1>12 DEF gs
  <1> HIDE DEF n
  <1> QED BY <1>1, <1>11, <1>13, MeaningStep DEF MeaningInv

LEMMA LastTurnMeaning ==
    ASSUME TemplateInv, EndTurn, ~(Top.turn + 1 < Turns(Top.section)),
           NEW R, ObeysTheMeaning(R), MeaningInv(R)
    PROVE  MeaningInv(R)'
  <1> DEFINE n == Len(frames)
             m == n - 1
             i == Top.section
             e == End(i)
  <1>1. /\ phase = "render" /\ phase' = "render" /\ AtEnd /\ i # 0 /\ source[i].kind \in Loops
        /\ frames' = Front(frames) /\ valueByName' = Erase(valueByName, source[i].var)
        /\ result' = result
        /\ UNCHANGED <<source, given, reading>>
    BY DEF EndTurn
  <1>2. PICK parts : RenderedSoFar(parts, R)
    BY <1>1 DEF MeaningInv, RenderedSoFar
  <1> DEFINE outer == parts[m].map
             lo == frames[m].section + 1
             text == parts[m].text
             new == parts[n].turns \o parts[n].text
  <1>3. /\ i \in 1..Len(source) /\ e \in 1..Len(source) /\ WholeSection(R, i, e)
        /\ lo \in 1..Len(source) /\ IsPart(parts[m])
        /\ <<lo, i, outer, text>> \in R.text
    BY <1>1, <1>2, OuterPart DEF MeaningInv
  <1>4. /\ source[i].var \notin DOMAIN outer
        /\ valueByName = Bound(i, Top.turn, outer)
        /\ Top.turn \in Nat /\ Top.turn < Count(i) /\ Turns(i) = Count(i) /\ Count(i) \in Int
        /\ <<i, Top.turn + 1, outer, new>> \in R.turns
    <2>1. phase = "render" /\ AtEnd /\ Top.section # 0 /\ source[Top.section].kind \in Loops
      BY <1>1
    <2>2. /\ source[i].var \notin DOMAIN outer
          /\ valueByName = Bound(i, Top.turn, outer)
          /\ <<i, Top.turn + 1, outer, new>> \in R.turns
      BY <1>2, <2>1, TurnEnded
    <2>3. Top.turn \in Nat /\ Top.turn < Count(i) /\ Turns(i) = Count(i) /\ Count(i) \in Int
      BY <1>2, <2>1, TurnEnded
    <2> QED BY <2>2, <2>3
  <1>5. Top.turn + 1 = Count(i) /\ ~(Count(i) <= 0)
    BY <1>4
  <1>6. <<lo, e + 1, outer, text \o new>> \in R.text
    <2>1. <<i, IF Count(i) <= 0 THEN 0 ELSE Count(i), outer, new>> \in R.turns
      BY <1>4, <1>5
    <2> HIDE DEF i, e, lo, outer, text, new
    <2> QED BY <1>1, <1>3, <1>4, <2>1 DEF ObeysTheMeaning, ObeysTheText
  <1>7. valueByName' = outer
    <2> DEFINE x == source[i].var
    <2>1. /\ valueByName = Bind(outer, x, Value(i, Top.turn)) /\ valueByName' = Erase(valueByName, x)
          /\ x \notin DOMAIN outer
      BY <1>1, <1>4 DEF Bound
    <2>2. outer = [name \in DOMAIN outer |-> outer[name]]
      BY <1>3 DEF IsPart, IsMap
    <2> HIDE DEF x, outer
    <2>3. \A a : Erase(Bind(outer, x, a), x) = outer
      <3> SUFFICES ASSUME NEW a PROVE Erase(Bind(outer, x, a), x) = outer
        OBVIOUS
      <3>1. DOMAIN Erase(Bind(outer, x, a), x) = DOMAIN outer
        BY <2>1 DEF Erase, Bind
      <3>2. \A name \in DOMAIN outer : Erase(Bind(outer, x, a), x)[name] = outer[name]
        BY <2>1 DEF Erase, Bind
      <3> QED BY <2>2, <3>1, <3>2 DEF Erase
    <2> QED BY <2>1, <2>3
  <1> QED BY <1>1, <1>2, <1>6, <1>7, LeaveMeaning DEF MeaningInv

LEMMA LastMeaning ==
    ASSUME TemplateInv, EatLast, NEW R, ObeysTheMeaning(R), MeaningInv(R)
    PROVE  MeaningInv(R)'
  <1> DEFINE f == [section |-> 0, at |-> 1, turn |-> 0]
             fs == <<f>>
             part == Part(given, <<>>, <<>>, <<>>)
             parts == <<part>>
  <1>1. /\ phase = "read" /\ phase' = "render" /\ frames' = fs
        /\ valueByName' = given /\ result' = <<>>
        /\ UNCHANGED <<source, given, reading>>
    BY DEF EatLast, MeaningInv, TemplateInv
  <1>2. IsPart(part)
    <2>1. IsMap(given)
      BY ValuesAssumption DEF MeaningInv, LoopsInv, IsMap
    <2> QED BY <2>1, EmptyIsSeq DEF IsPart, Part
  <1>3. <<1, 1, given, <<>>>> \in R.text
    BY DEF ObeysTheMeaning, ObeysTheText
  <1>4. /\ Len(fs) = 1 /\ fs[1] = f /\ f.section + 1 = 1 /\ f.at = 1
        /\ parts[1] = part /\ part.map = given /\ part.before = <<>> /\ part.text = <<>>
    BY DEF Part
  <1> HIDE DEF f, part, fs, parts
  <1>5. Rendered(parts, fs, R)
    <2>1. 1..Len(fs) = {1} /\ 1..Len(fs) - 1 = {}
      BY <1>4
    <2>2. Until(fs, 1) = 1
      BY <1>4 DEF Until
    <2> QED BY <1>2, <1>3, <1>4, <2>1, <2>2 DEF Rendered
  <1>6. Written(parts[Len(fs)]) = <<>> /\ parts[Len(fs)].map = given
    <2>1. <<>> \o <<>> = <<>>
      BY EmptyIsSeq, Joined
    <2> QED BY <1>4, <2>1 DEF Written
  <1> QED BY <1>1, <1>5, <1>6, MeaningStep DEF MeaningInv

\* An error while the source is read is one of the source.
LEMMA ReadErrorMeaning ==
    ASSUME TemplateInv, EatError, NEW R, MeaningInv(R)
    PROVE  MeaningInv(R)'
  <1> DEFINE n == Len(open)
             lo == Start(n + 1)
  <1>1. Len(source) \in Nat /\ pos \in 1..Len(source) + 1 /\ n \in Nat /\ Abort
    BY LenOfSource, LenProperties DEF TemplateInv, SectionsType, EatError
  <1>2. <<lo, pos>> \in R.whole
    BY DEF MeaningInv, NestInv
  <1>3. open # <<>> => /\ n \in 1..n /\ Last(open) = open[n] /\ open[n] \in 1..pos - 1
                       /\ lo = open[n] + 1 /\ lo \in 2..Len(source) + 1
    <2> SUFFICES ASSUME open # <<>>
                 PROVE  /\ n \in 1..n /\ Last(open) = open[n] /\ open[n] \in 1..pos - 1
                        /\ lo = open[n] + 1 /\ lo \in 2..Len(source) + 1
      OBVIOUS
    <2>1. open \in Seq(DOMAIN sections)
      BY DEF TemplateInv, SectionsType
    <2>2. n \in Nat \ {0} /\ Last(open) = open[n] /\ open[n] \in DOMAIN sections
      BY <2>1, FrontAndLast
    <2>3. open[n] \in 1..pos - 1
      BY <2>2 DEF TemplateInv, SectionsType
    <2>4. n + 1 # 1 /\ (n + 1) - 1 = n /\ n \in 1..n
      BY <2>2
    <2>5. lo = open[n] + 1
      BY <2>4 DEF Start
    <2> HIDE DEF lo, n
    <2>6. lo \in 2..Len(source) + 1
      BY <1>1, <2>3, <2>5
    <2> QED BY <2>2, <2>3, <2>4, <2>5, <2>6
  <1>4. open = <<>> => lo = 1
    BY DEF Start
  <1>5. lo \in 1..Len(source) + 1 /\ (open # <<>> => lo # 1 /\ lo - 1 = open[n])
    <2> HIDE DEF lo, n
    <2> QED BY <1>1, <1>3, <1>4
  <1>6. phase = "read" => valueByName = given
    BY DEF TemplateInv
  <1>7. CASE phase = "read" /\ pos > Len(source) /\ open # <<>>
    <2>1. pos = Len(source) + 1
      BY <1>1, <1>7
    <2> HIDE DEF lo, n
    <2> QED BY <1>1, <1>2, <1>5, <1>7, <2>1, AbortMeaning DEF CannotBeRead
  <1>8. CASE /\ phase = "read" /\ pos <= Len(source)
             /\ \/ source[pos].kind = "unknown"
                \/ IsOpening(pos) /\ ~Known(pos)
                \/ source[pos].kind \in {"endfor", "endif"} /\ (lo = 1 \/ ~Matches(lo - 1, pos))
    <2>1. pos # Len(source) + 1
      BY <1>1, <1>8
    <2> HIDE DEF lo, n
    <2>2. CannotBeRead(R)
      BY <1>1, <1>2, <1>5, <1>8, <2>1 DEF CannotBeRead
    <2> QED BY <1>1, <2>2, AbortMeaning
  <1>9. CASE At({"unknown"})
    BY <1>8, <1>9 DEF At
  <1>10. CASE At(Loops) /\ ~Recognized(source[pos])
    BY <1>6, <1>8, <1>10 DEF At, Recognized, Known, IsOpening
  <1>11. CASE At({"endfor", "endif"}) /\ open = <<>>
    BY <1>4, <1>8, <1>11 DEF At
  <1>12. CASE At({"endfor", "endif"}) /\ open # <<>> /\ source[Last(open)].kind \notin Opening(source[pos].kind)
    <2>1. ~Matches(lo - 1, pos)
      BY <1>3, <1>5, <1>12 DEF Matches
    <2> QED BY <1>8, <1>12, <2>1 DEF At
  <1> QED BY <1>7, <1>9, <1>10, <1>11, <1>12 DEF EatError

\* All has been rendered.
LEMMA RootMeaning ==
    ASSUME TemplateInv, EndRoot, NEW R, ObeysTheMeaning(R), MeaningInv(R)
    PROVE  MeaningInv(R)'
  <1>1. /\ phase = "render" /\ phase' = "done" /\ AtEnd /\ Top.section = 0
        /\ result' = result
        /\ source' = source /\ given' = given
        /\ UNCHANGED <<source, given, reading>>
    BY DEF EndRoot
  <1>2. PICK parts : RenderedSoFar(parts, R)
    BY <1>1 DEF MeaningInv, RenderedSoFar
  <1>3. Len(frames) = 1 /\ Top.at = Len(source) + 1
    BY <1>1, InnermostSection, RenderingStructure DEF AtEnd
  <1>4. IsPart(parts[1]) /\ <<0 + 1, Len(source) + 1, valueByName, parts[1].text>> \in R.text
    <2>1. /\ IsPart(parts[Len(frames)])
          /\ <<Top.section + 1, Top.at, valueByName, parts[Len(frames)].text>> \in R.text
      BY <1>1, <1>2, TopPart
    <2> QED BY <1>1, <1>3, <2>1
  <1>5. /\ valueByName = given /\ parts[1].before = <<>>
        /\ result = parts[1].before \o parts[1].text
    BY <1>2, <1>3 DEF RenderedSoFar, Rendered, Written
  <1>6. result = parts[1].text
    BY <1>4, <1>5, Joined DEF IsPart
  <1>7. <<1, Len(source) + 1, given, result>> \in R.text
    <2>1. 0 + 1 = 1
      OBVIOUS
    <2> QED BY <1>4, <1>5, <1>6, <2>1
  <1>8. IsWhole(R)
    BY <1>1, SourceIsWhole DEF MeaningInv
  <1>9. NestInv(R)' /\ LoopsInv'
    BY <1>1, NestStays DEF MeaningInv
  <1> QED BY <1>1, <1>7, <1>8, <1>9 DEF MeaningInv, IsWhole

LEMMA ReadMeaning ==
    ASSUME NEW R, MeaningInv(R), NestInv(R)', LoopsInv',
           phase = "read", phase' = phase, result' = result
    PROVE  MeaningInv(R)'
  BY DEF MeaningInv

LEMMA MeaningInit ==
    ASSUME Init, NEW R, ObeysTheMeaning(R)
    PROVE  MeaningInv(R)
  <1>1. /\ source \in Sources /\ given \in ValueMaps /\ phase = "read" /\ pos = 1
        /\ open = <<>> /\ sections = <<>> /\ result = <<>>
    BY DEF Init
  <1>3. <<1, 1>> \in R.whole
    BY DEF ObeysTheMeaning, ObeysTheNesting
  <1>4. Len(open) = 0 /\ Start(Len(open) + 1) = 1 /\ DOMAIN sections = {} /\ 1..Len(open) = {}
    BY <1>1 DEF Start
  <1>5. NestInv(R)
    BY <1>1, <1>3, <1>4 DEF NestInv
  <1>6. LoopsInv
    BY <1>1, <1>4 DEF LoopsInv
  <1> QED BY <1>1, <1>5, <1>6 DEF MeaningInv

\* What obeys the meaning of the source and the values does so for good: these do not change.
LEMMA MeaningIsFixed ==
    ASSUME [Next]_vars, NEW R
    PROVE  ObeysTheMeaning(R)' <=> ObeysTheMeaning(R)
  <1>1. source' = source /\ given' = given
    BY DEF Next, vars, EatCode, EatOpening, EatEnd, EatLast, EatError, RenderCode, RenderIf, RenderFor,
           EndTurn, EndIf, EndRoot, Abort
  <1> QED BY <1>1 DEF ObeysTheMeaning, ObeysTheNesting, ObeysTheTurns, ObeysTheText, IsOpening,
                      Opens, Known, Has, WholeSection, Matches, Count, Bound, Value

LEMMA MeaningKept ==
    ASSUME TemplateInv, [Next]_vars, NEW R, ObeysTheMeaning(R), MeaningInv(R)
    PROVE  MeaningInv(R)'
  <1>0. ObeysTheNesting(R) /\ NestInv(R) /\ LoopsInv
    BY DEF ObeysTheMeaning, MeaningInv
  <1>1. CASE EatCode
    <2>1. NestInv(R)'
      BY <1>0, <1>1, NestAfterCode
    <2>2. source' = source /\ given' = given /\ sections' = sections
      BY <1>1 DEF EatCode
    <2>3. LoopsInv'
      BY <1>0, <2>2 DEF LoopsInv, Known, Count, Has
    <2> QED BY <1>1, <2>1, <2>3, ReadMeaning DEF EatCode, At, rendering
  <1>2. CASE EatOpening
    BY <1>0, <1>2, NestAfterOpening, LoopsAfterOpening, ReadMeaning DEF EatOpening, At, rendering
  <1>3. CASE EatEnd
    BY <1>0, <1>3, NestAfterEnd, LoopsAfterEnd, ReadMeaning DEF EatEnd, At, rendering
  <1>4. CASE EatLast
    BY <1>4, LastMeaning
  <1>5. CASE EatError
    BY <1>5, ReadErrorMeaning
  <1>6. CASE RenderCode
    BY <1>6, CodeMeaning
  <1>7. CASE RenderIf
    BY <1>7, IfMeaning
  <1>8. CASE RenderFor
    BY <1>8, ForMeaning
  <1>9. CASE EndTurn
    BY <1>9, NextTurnMeaning, LastTurnMeaning
  <1>10. CASE EndIf
    BY <1>10, EndIfMeaning
  <1>11. CASE EndRoot
    BY <1>11, RootMeaning
  <1>12. CASE UNCHANGED vars
    <2>1. /\ UNCHANGED <<source, given, reading>>
          /\ source' = source /\ given' = given /\ phase' = phase /\ frames' = frames
          /\ valueByName' = valueByName /\ result' = result
      BY <1>12 DEF vars, reading
    <2>2. NestInv(R)' /\ LoopsInv'
      BY <1>0, <2>1, NestStays
    <2>3. ASSUME phase = "render" PROVE MeaningInv(R)'
      <3>1. PICK parts : RenderedSoFar(parts, R)
        BY <2>3 DEF MeaningInv, RenderedSoFar
      <3> QED BY <1>0, <2>1, <2>3, <3>1, MeaningStep DEF RenderedSoFar
    <2>4. ASSUME phase # "render" PROVE MeaningInv(R)'
      BY <2>1, <2>2, <2>4, ErrorsAreFixed DEF MeaningInv
    <2> QED BY <2>3, <2>4
  <1> QED BY <1>1, <1>2, <1>3, <1>4, <1>5, <1>6, <1>7, <1>8, <1>9, <1>10, <1>11, <1>12 DEF Next

-----------------------------------------------------------------------------

\* Whatever the template and the values: if render comes to its end, the template is
\* whole, and what render has written is what the template stands for: its texts and
\* values in their order, of a section that does not hold nothing, and of a loop each
\* turn once, with its own variable.  And nothing is aborted without a reason: what is
\* aborted cannot be read, or can be read and not rendered.
THEOREM TheMeaningIsRendered == Spec => []RendersWhatIsMeant
  <1> DEFINE Inv == \A R : ObeysTheMeaning(R) => MeaningInv(R)
  <1>1. Init => Inv
    BY MeaningInit
  <1>2. TemplateInv /\ Inv /\ [Next]_vars => Inv'
    <2> SUFFICES ASSUME TemplateInv, Inv, [Next]_vars, NEW R, ObeysTheMeaning(R)' PROVE MeaningInv(R)'
      OBVIOUS
    <2>1. ObeysTheMeaning(R) /\ MeaningInv(R)
      BY MeaningIsFixed
    <2> QED BY <2>1, MeaningKept
  <1>3. Inv => RendersWhatIsMeant
    BY DEF MeaningInv, RendersWhatIsMeant
  <1> HIDE DEF Inv
  <1> QED BY <1>1, <1>2, <1>3, TemplateInvariant, PTL DEF Spec

-----------------------------------------------------------------------------
(* Every rendering comes to its end *)

\* What a section that is rendered has before it: turns, and tokens of this turn.
TurnsLeft(f) == IF IsLoop(f) THEN Count(f.section) - f.turn ELSE 1
TokensLeft(f) == End(f.section) - f.at

\* That of each section, the outermost first; no more than this many lie in one another.
Depth == Len(source) + 1
Ahead(fs, k) == IF k \in 1..Len(fs) THEN <<TurnsLeft(fs[k]), TokensLeft(fs[k])>> ELSE <<0, 0>>
RenderRank == [k \in 1..Depth |-> Ahead(frames, k)]

\* The outermost section that has changed has less before it.
Less(a, b) == a[1] < b[1] \/ (a[1] = b[1] /\ a[2] < b[2])
FallsAt(k, g, f) == Less(g[k], f[k]) /\ \A j \in 1..k - 1 : g[j] = f[j]
Falls(n, g, f) == \E k \in 1..n : FallsAt(k, g, f)

Pairs == Nat \X Nat
Ranks(n) == [1..n -> Pairs]

ReadRank ==
    CASE phase = "read" -> 2 + (Len(source) + 1 - pos)
      [] phase = "render" -> 1
      [] phase \in {"done", "aborted"} -> 0

GetsCloser ==
    \/ ReadRank' < ReadRank
    \/ phase = "render" /\ phase' = "render" /\ Falls(Depth, RenderRank', RenderRank)

\* Of some numbers one is the least.
LEMMA Least ==
    ASSUME NEW S \in SUBSET Nat, S # {}
    PROVE  \E m \in S : \A n \in S : m <= n
  <1>1. PICK m \in S : \A n \in S : ~(<<n, m>> \in OpToRel(<, Nat))
    BY NatLessThanWellFounded, WFMin
  <1>2. \A n \in S : ~(n < m)
    BY <1>1 DEF OpToRel
  <1> QED BY <1>2

LEMMA LeastPair ==
    ASSUME NEW S \in SUBSET Pairs, S # {}
    PROVE  \E a \in S : \A b \in S : ~Less(b, a)
  <1>0. \A a \in S : a[1] \in Nat /\ a[2] \in Nat
    BY DEF Pairs
  <1> DEFINE A == {n \in Nat : \E a \in S : a[1] = n}
  <1>1. PICK x \in A : \A n \in A : x <= n
    <2>1. A # {}
      BY <1>0
    <2> QED BY <2>1, Least
  <1>2. \A b \in S : x <= b[1]
    BY <1>0, <1>1
  <1> DEFINE B == {n \in Nat : \E a \in S : a[1] = x /\ a[2] = n}
  <1>3. PICK y \in B : \A n \in B : y <= n
    <2>1. B # {}
      BY <1>0, <1>1
    <2> QED BY <2>1, Least
  <1>4. \A b \in S : b[1] = x => y <= b[2]
    BY <1>0, <1>3
  <1>5. PICK a \in S : a[1] = x /\ a[2] = y
    BY <1>3
  <1>6. x \in Nat /\ y \in Nat
    BY <1>1, <1>3
  <1> HIDE DEF A, B
  <1> QED BY <1>0, <1>2, <1>4, <1>5, <1>6 DEF Less

\* Ranks do not fall for ever, however deep the sections lie: among any ranks there is one
\* that none falls below.
THEOREM RanksAreWellFounded ==
    ASSUME NEW n \in Nat
    PROVE  IsWellFoundedOn({pair \in Ranks(n) \X Ranks(n) : Falls(n, pair[1], pair[2])}, Ranks(n))
  <1> DEFINE R == {pair \in Ranks(n) \X Ranks(n) : Falls(n, pair[1], pair[2])}
  <1>1. ASSUME NEW S \in SUBSET Ranks(n), S # {}
        PROVE  \E a \in S : \A b \in S : ~Falls(n, b, a)
    <2> DEFINE Good(a, d) == \A b \in S : \A k \in 1..d : ~FallsAt(k, b, a)
               bad == {d \in 0..n : \A a \in S : ~Good(a, d)}
    <2>1. ASSUME bad # {} PROVE FALSE
      <3>0. bad \in SUBSET Nat
        OBVIOUS
      <3>1. PICK d \in bad : \A e \in bad : d <= e
        <4> HIDE DEF bad
        <4> QED BY <2>1, <3>0, Least
      <3>2. d # 0
        BY <1>1, <3>1
      <3>3. d - 1 \in 0..n /\ ~(d <= d - 1) /\ d \in 1..n /\ 1..d = (1..d - 1) \cup {d}
        BY <3>1, <3>2
      <3>4. PICK a \in S : Good(a, d - 1)
        BY <3>1, <3>3
      <3> DEFINE T == {b \in S : \A j \in 1..d - 1 : b[j] = a[j]}
                 ends == {b[d] : b \in T}
      <3>5. a \in T /\ ends # {} /\ ends \in SUBSET Pairs
        <4>1. \A b \in S : b[d] \in Pairs
          BY <3>3 DEF Ranks
        <4>2. a \in T
          OBVIOUS
        <4> QED BY <4>1, <4>2
      <3>6. PICK e \in ends : \A f \in ends : ~Less(f, e)
        BY <3>5, LeastPair
      <3>7. PICK c \in T : c[d] = e
        BY <3>6
      <3>8. ASSUME NEW b \in S, NEW k \in 1..d, FallsAt(k, b, c) PROVE FALSE
        <4>1. CASE k = d
          <5>1. b \in T
            BY <3>7, <3>8, <4>1 DEF FallsAt
          <5>2. Less(b[d], c[d])
            BY <3>8, <4>1 DEF FallsAt
          <5> QED BY <3>6, <3>7, <5>1, <5>2
        <4>2. CASE k # d
          <5>1. k \in 1..d - 1 /\ \A j \in 1..k - 1 : j \in 1..d - 1
            BY <3>3, <4>2
          <5>2. FallsAt(k, b, a)
            BY <3>7, <3>8, <5>1 DEF FallsAt
          <5> QED BY <3>4, <5>1, <5>2
        <4> QED BY <4>1, <4>2
      <3>9. Good(c, d)
        BY <3>8
      <3> QED BY <3>1, <3>7, <3>9
    <2>2. n \notin bad
      <3> HIDE DEF bad
      <3> QED BY <2>1
    <2>3. \E a \in S : Good(a, n)
      BY <2>2
    <2> QED BY <2>3 DEF Falls
  <1>2. ASSUME NEW S \in SUBSET Ranks(n), S # {}
        PROVE  \E a \in S : \A b \in S : ~(<<b, a>> \in R)
    <2>1. PICK a \in S : \A b \in S : ~Falls(n, b, a)
      BY <1>1, <1>2
    <2>2. ASSUME NEW b, <<b, a>> \in R PROVE Falls(n, b, a)
      BY <2>2
    <2> QED BY <2>1, <2>2
  <1> HIDE DEF R
  <1> QED BY <1>2, MinWF DEF R

\* A section lies at least as deep in the source as in the frames, and a loop that is
\* rendered has turns before it.
Ranked(f, k) == f.section >= k - 1 /\ (IsLoop(f) => f.turn < Count(f.section))
RankInv == \A k \in 1..Len(frames) : Ranked(frames[k], k)

LEMMA LoopsKept ==
    ASSUME TemplateInv, LoopsInv, [Next]_vars
    PROVE  LoopsInv'
  <1>1. CASE EatOpening
    BY <1>1, LoopsAfterOpening
  <1>2. CASE EatEnd
    BY <1>2, LoopsAfterEnd
  <1>3. CASE ~EatOpening /\ ~EatEnd
    <2>1. source' = source /\ given' = given /\ sections' = sections
      BY <1>3 DEF Next, vars, reading, EatCode, EatLast, EatError, Abort, RenderCode, RenderIf, RenderFor,
                  EndTurn, EndIf, EndRoot
    <2> QED BY <2>1 DEF LoopsInv, Known, Count, Has
  <1> QED BY <1>1, <1>2, <1>3

LEMMA RankType ==
    ASSUME TemplateInv, LoopsInv, RankInv, phase = "render"
    PROVE  /\ RenderRank \in Ranks(Depth) /\ Depth \in Nat
           /\ \A k \in 1..Len(frames) : /\ k \in 1..Depth
                                        /\ TurnsLeft(frames[k]) \in Nat \ {0}
                                        /\ TokensLeft(frames[k]) \in Nat
  <1>1. /\ Len(source) \in Nat /\ End(0) = Len(source) + 1
        /\ DOMAIN sections = {i \in 1..Len(source) : IsOpening(i)}
        /\ \A i \in DOMAIN sections : End(i) \in i + 1..Len(source)
        /\ Len(frames) \in Nat \ {0}
    BY RenderingStructure, InnermostSection
  <1>2. ASSUME NEW k \in 1..Len(frames)
        PROVE  /\ k \in 1..Depth
               /\ TurnsLeft(frames[k]) \in Nat \ {0} /\ TokensLeft(frames[k]) \in Nat
    <2> DEFINE f == frames[k]
    <2>1. f \in Frame /\ FrameInv(f) /\ Ranked(f, k)
      <3>1. frames \in Seq(Frame) /\ FrameInv(frames[k])
        BY DEF TemplateInv, RenderInv, FramesInv
      <3> QED BY <3>1, ElementOfSeq DEF RankInv
    <2> HIDE DEF f
    <2>2. f.section \in Nat /\ f.at \in Nat /\ f.turn \in Nat
      BY <2>1 DEF Frame
    <2>3. f.section \in 0..Len(source) /\ End(f.section) \in Nat
      BY <1>1, <2>1 DEF FrameInv
    <2>4. k \in 1..Depth
      BY <1>1, <2>1, <2>3 DEF Ranked, Depth
    <2>5. TokensLeft(f) \in Nat
      BY <2>1, <2>2, <2>3 DEF FrameInv, TokensLeft
    <2>6. TurnsLeft(f) \in Nat \ {0}
      <3>1. CASE IsLoop(f)
        <4>1. f.section \in DOMAIN sections /\ source[f.section].kind \in Loops
          BY <2>1, <3>1 DEF FrameInv, IsLoop
        <4>2. Count(f.section) \in Int
          BY <4>1, TurnsAreCounted
        <4> QED BY <2>1, <2>2, <3>1, <4>2 DEF Ranked, TurnsLeft
      <3>2. CASE ~IsLoop(f)
        BY <3>2 DEF TurnsLeft
      <3> QED BY <3>1, <3>2
    <2> QED BY <2>4, <2>5, <2>6 DEF f
  <1>3. RenderRank \in Ranks(Depth)
    <2>1. \A k \in 1..Depth : Ahead(frames, k) \in Pairs
      BY <1>2 DEF Ahead, Pairs
    <2> HIDE DEF Depth
    <2> QED BY <2>1 DEF RenderRank, Ranks
  <1> QED BY <1>1, <1>2, <1>3 DEF Depth

\* The innermost section has less before it, or has ended; the others have not changed.
LEMMA RankFalls ==
    ASSUME TemplateInv, LoopsInv, RankInv, phase = "render", phase' = "render",
           UNCHANGED <<source, given, reading>>,
           NEW n, n = Len(frames),
           \A k \in 1..n - 1 : frames'[k] = frames[k],
           Len(frames') \in Nat, Len(frames') >= n - 1,
           n <= Len(frames') =>
               Less(<<TurnsLeft(frames'[n]), TokensLeft(frames'[n])>>,
                    <<TurnsLeft(frames[n]), TokensLeft(frames[n])>>)
    PROVE  GetsCloser
  <1>1. n \in Nat \ {0} /\ n \in 1..Len(frames) /\ n \in 1..Depth /\ Depth \in Nat
        /\ TurnsLeft(frames[n]) \in Nat \ {0} /\ TokensLeft(frames[n]) \in Nat
    <2>1. n \in Nat \ {0} /\ n \in 1..Len(frames)
      BY InnermostSection
    <2> QED BY <2>1, RankType
  <1>2. source' = source /\ given' = given /\ sections' = sections /\ Depth' = Depth
    BY DEF reading, Depth
  <1>3. /\ RenderRank = [k \in 1..Depth |-> Ahead(frames, k)]
        /\ RenderRank' = [k \in 1..Depth |-> Ahead(frames', k)]
    BY <1>2 DEF RenderRank, Ahead, TurnsLeft, TokensLeft, IsLoop, Count, End
  <1>4. ASSUME NEW k \in 1..n - 1 PROVE RenderRank'[k] = RenderRank[k]
    <2>1. k \in 1..Len(frames) /\ k \in 1..Len(frames') /\ k \in 1..Depth
      BY <1>1
    <2>2. Ahead(frames', k) = Ahead(frames, k)
      BY <2>1 DEF Ahead
    <2> QED BY <1>3, <2>1, <2>2
  <1>5. Less(RenderRank'[n], RenderRank[n])
    <2>1. RenderRank[n] = <<TurnsLeft(frames[n]), TokensLeft(frames[n])>>
      BY <1>1, <1>3 DEF Ahead
    <2>2. CASE n <= Len(frames')
      <3>1. RenderRank'[n] = <<TurnsLeft(frames'[n]), TokensLeft(frames'[n])>>
        BY <1>1, <1>3, <2>2 DEF Ahead
      <3> QED BY <2>1, <2>2, <3>1
    <2>3. CASE ~(n <= Len(frames'))
      <3>1. RenderRank'[n] = <<0, 0>>
        BY <1>1, <1>3, <2>3 DEF Ahead
      <3> QED BY <1>1, <2>1, <3>1 DEF Less
    <2> QED BY <2>2, <2>3
  <1>6. FallsAt(n, RenderRank', RenderRank)
    BY <1>4, <1>5 DEF FallsAt
  <1> QED BY <1>1, <1>6 DEF Falls, GetsCloser

\* The innermost section goes on behind what has been rendered, and another may be entered.
LEMMA RankAdvances ==
    ASSUME TemplateInv, LoopsInv, RankInv, phase = "render", phase' = "render", ~AtEnd,
           UNCHANGED <<source, given, reading>>,
           NEW to \in Top.at + 1..End(Top.section),
           \/ frames' = Advanced(to)
           \/ /\ frames' = Append(Advanced(to), [section |-> Top.at, at |-> Top.at + 1, turn |-> 0])
              /\ source[Top.at].kind \in Loops => 0 < Count(Top.at)
    PROVE  RankInv' /\ GetsCloser
  <1> DEFINE n == Len(frames)
             gs == Advanced(to)
             f == [section |-> Top.at, at |-> Top.at + 1, turn |-> 0]
  <1>1. /\ n \in Nat \ {0} /\ n \in 1..n /\ Top = frames[n] /\ Len(gs) = n
        /\ \A k \in 1..n - 1 : gs[k] = frames[k]
        /\ gs[n].section = frames[n].section /\ gs[n].turn = frames[n].turn /\ gs[n].at = to
        /\ Len(Append(gs, f)) = n + 1
        /\ \A k \in 1..n : Append(gs, f)[k] = gs[k]
        /\ Append(gs, f)[n + 1] = f
    <2>1. n \in Nat \ {0} /\ Top = frames[n]
      BY InnermostSection
    <2>2. UpTo(gs, frames, n) /\ gs[n].at = to /\ gs[n].turn = frames[n].turn
      BY AdvancedTop
    <2>3. \A g : /\ Len(Append(gs, g)) = n + 1
                 /\ \A k \in 1..n : Append(gs, g)[k] = gs[k]
                 /\ Append(gs, g)[n + 1] = g
      BY AdvancedTop
    <2> HIDE DEF gs, f
    <2> QED BY <2>1, <2>2, <2>3 DEF UpTo
  <1>2. source' = source /\ given' = given
    OBVIOUS
  <1>3. \/ Len(frames') = n
        \/ /\ Len(frames') = n + 1 /\ frames'[n + 1] = f
           /\ source[Top.at].kind \in Loops => 0 < Count(Top.at)
    <2> HIDE DEF gs, f
    <2> QED BY <1>1 DEF gs, f
  <1>4. /\ \A k \in 1..n - 1 : frames'[k] = frames[k]
        /\ frames'[n].section = frames[n].section /\ frames'[n].turn = frames[n].turn /\ frames'[n].at = to
    <2>1. \A k \in 1..n - 1 : k \in 1..n
      BY <1>1
    <2> QED BY <1>1, <2>1
  <1>5. /\ Top.at \in Nat /\ Top.section \in Nat /\ Top.section < Top.at
        /\ End(Top.section) \in Nat /\ to \in Nat /\ Top.at < to
        /\ Top.section >= n - 1
    <2>1. Top \in Frame /\ FrameInv(Top) /\ Top.at \in Nat
      BY InnermostSection, InsideTheSection DEF Frame
    <2>2. End(Top.section) \in Nat
      BY <2>1, RenderingStructure DEF FrameInv
    <2>3. Ranked(Top, n)
      BY <1>1 DEF RankInv
    <2> QED BY <2>1, <2>2, <2>3 DEF Frame, FrameInv, Ranked
  <1> HIDE DEF gs, n
  <1>6. RankInv'
    <2>1. \A g, k : Ranked(g, k)' <=> Ranked(g, k)
      BY <1>2 DEF Ranked, IsLoop, Count
    <2>2. ASSUME NEW k \in 1..Len(frames') PROVE Ranked(frames'[k], k)
      <3>1. CASE k \in 1..n - 1
        BY <1>1, <1>4, <3>1 DEF RankInv, n
      <3>2. CASE k = n
        <4>1. Ranked(frames[n], n)
          BY <1>1 DEF RankInv, n
        <4> QED BY <1>4, <3>2, <4>1 DEF Ranked, IsLoop
      <3>3. CASE k = n + 1
        <4>1. /\ frames'[k] = f
              /\ source[Top.at].kind \in Loops => 0 < Count(Top.at)
          BY <1>1, <1>3, <2>2, <3>3
        <4>2. f.section = Top.at /\ f.turn = 0
          OBVIOUS
        <4> HIDE DEF f
        <4> QED BY <1>1, <1>5, <3>3, <4>1, <4>2 DEF Ranked, IsLoop
      <3> QED BY <1>1, <1>3, <2>2, <3>1, <3>2, <3>3
    <2>3. RankInv' <=> \A k \in 1..Len(frames') : Ranked(frames'[k], k)
      BY <1>2 DEF RankInv, Ranked, IsLoop, Count
    <2> QED BY <2>2, <2>3
  <1>7. Less(<<TurnsLeft(frames'[n]), TokensLeft(frames'[n])>>,
             <<TurnsLeft(frames[n]), TokensLeft(frames[n])>>)
    <2>1. TurnsLeft(frames'[n]) = TurnsLeft(frames[n])
      BY <1>4 DEF TurnsLeft, IsLoop
    <2>2. TokensLeft(frames'[n]) < TokensLeft(frames[n])
      BY <1>1, <1>4, <1>5 DEF TokensLeft
    <2> QED BY <2>1, <2>2 DEF Less
  <1>8. GetsCloser
    BY <1>1, <1>3, <1>4, <1>7, RankFalls DEF n
  <1> QED BY <1>6, <1>8

\* The innermost section has ended.
LEMMA RankLeaves ==
    ASSUME TemplateInv, LoopsInv, RankInv, phase = "render", phase' = "render",
           UNCHANGED <<source, given, reading>>, Top.section # 0, frames' = Front(frames)
    PROVE  RankInv' /\ GetsCloser
  <1> DEFINE n == Len(frames)
  <1>1. /\ n \in Nat \ {0} /\ Len(frames') = n - 1
        /\ \A k \in 1..n - 1 : frames'[k] = frames[k]
    <2>1. FramesInv(frames) /\ Last(frames).section # 0 /\ n \in Nat \ {0}
      BY InnermostSection DEF TemplateInv, RenderInv, Top
    <2> QED BY <2>1, FramePopped
  <1>2. source' = source /\ given' = given
    OBVIOUS
  <1>3. RankInv'
    <2>1. \A k \in 1..Len(frames') : Ranked(frames'[k], k)
      BY <1>1 DEF RankInv
    <2> QED BY <1>2, <2>1 DEF RankInv, Ranked, IsLoop, Count
  <1>4. Len(frames') \in Nat /\ Len(frames') >= n - 1 /\ ~(n <= Len(frames'))
    BY <1>1
  <1> QED BY <1>1, <1>3, <1>4, RankFalls

\* A loop begins its next turn.
LEMMA RankTurns ==
    ASSUME TemplateInv, LoopsInv, RankInv, phase = "render", phase' = "render",
           UNCHANGED <<source, given, reading>>,
           Top.section # 0, source[Top.section].kind \in Loops,
           Top.turn + 1 < Turns(Top.section),
           frames' = Append(Front(frames),
                            [section |-> Top.section, at |-> Top.section + 1, turn |-> Top.turn + 1])
    PROVE  RankInv' /\ GetsCloser
  <1> DEFINE n == Len(frames)
             f == [section |-> Top.section, at |-> Top.section + 1, turn |-> Top.turn + 1]
  <1>1. /\ n \in Nat \ {0} /\ n \in 1..n /\ Top = frames[n] /\ Top \in Frame /\ FrameInv(Top)
        /\ frames \in Seq(Frame) /\ frames # <<>>
    BY InnermostSection DEF TemplateInv, RenderInv, FramesInv
  <1>2. source' = source /\ given' = given
    OBVIOUS
  <1>3. f \in Frame /\ f.section = Top.section /\ f.turn = Top.turn + 1
    BY <1>1 DEF Frame
  <1> HIDE DEF f
  <1>4. /\ Len(frames') = n /\ frames'[n] = f
        /\ \A k \in 1..n - 1 : frames'[k] = frames[k]
    <2>1. /\ Front(frames) \in Seq(Frame) /\ Len(Front(frames)) = n - 1
          /\ \A k \in 1..n - 1 : Front(frames)[k] = frames[k]
      BY <1>1, FrontAndLast
    <2>2. frames' = Append(Front(frames), f)
      BY DEF f
    <2> HIDE DEF n
    <2>3. /\ Len(frames') = n - 1 + 1 /\ frames'[n - 1 + 1] = f
          /\ \A k \in 1..n - 1 : frames'[k] = Front(frames)[k]
      BY <1>3, <2>1, <2>2, AppendProperties
    <2> QED BY <1>1, <2>1, <2>3
  <1>5. /\ Top.turn \in Nat /\ Turns(Top.section) = Count(Top.section) /\ Count(Top.section) \in Int
    <2>1. Top.section \in DOMAIN sections
      BY <1>1 DEF FrameInv
    <2> QED BY <1>1, <2>1, TurnsAreCounted DEF Frame
  <1>6. RankInv'
    <2>1. ASSUME NEW k \in 1..Len(frames') PROVE Ranked(frames'[k], k)
      <3>1. CASE k = n
        <4>1. Ranked(Top, n)
          BY <1>1 DEF RankInv
        <4> QED BY <1>3, <1>4, <1>5, <3>1, <4>1 DEF Ranked
      <3>2. CASE k # n
        BY <1>1, <1>4, <3>2 DEF RankInv
      <3> QED BY <3>1, <3>2
    <2> QED BY <1>2, <2>1 DEF RankInv, Ranked, IsLoop, Count
  <1>7. TurnsLeft(frames'[n]) < TurnsLeft(frames[n])
    BY <1>1, <1>3, <1>4, <1>5 DEF TurnsLeft, IsLoop
  <1>8. Less(<<TurnsLeft(frames'[n]), TokensLeft(frames'[n])>>,
             <<TurnsLeft(frames[n]), TokensLeft(frames[n])>>)
    BY <1>7 DEF Less
  <1>9. Len(frames') \in Nat /\ Len(frames') >= n - 1
    BY <1>1, <1>4
  <1> HIDE DEF n
  <1>10. GetsCloser
    BY <1>4, <1>8, <1>9, RankFalls DEF n
  <1> QED BY <1>6, <1>10

LEMMA RankStays ==
    ASSUME RankInv, source' = source, given' = given, frames' = frames
    PROVE  RankInv'
  BY DEF RankInv, Ranked, IsLoop, Count

LEMMA ReadCloser ==
    ASSUME TemplateInv, RankInv, EatCode \/ EatOpening \/ EatEnd \/ EatLast \/ EatError
    PROVE  RankInv' /\ GetsCloser
  <1>1. Len(source) \in Nat /\ pos \in 1..Len(source) + 1 /\ phase = "read" /\ frames = <<>>
    BY LenOfSource DEF TemplateInv, EatCode, EatOpening, EatEnd, EatLast, EatError, At
  <1>2. source' = source /\ given' = given
    BY DEF EatCode, EatOpening, EatEnd, EatLast, EatError, Abort
  <1>3. CASE EatCode \/ EatOpening \/ EatEnd
    <2>1. pos' = pos + 1 /\ pos <= Len(source) /\ phase' = "read" /\ frames' = frames
      BY <1>1, <1>3 DEF EatCode, EatOpening, EatEnd, At, rendering
    <2>2. ReadRank' < ReadRank
      BY <1>1, <1>2, <2>1 DEF ReadRank
    <2> QED BY <1>2, <2>1, <2>2, RankStays DEF GetsCloser
  <1>4. CASE EatLast
    <2>1. phase' = "render" /\ frames' = <<[section |-> 0, at |-> 1, turn |-> 0]>>
      BY <1>4 DEF EatLast
    <2>2. RankInv'
      BY <2>1 DEF RankInv, Ranked, IsLoop
    <2> QED BY <1>1, <2>1, <2>2 DEF ReadRank, GetsCloser
  <1>5. CASE EatError
    <2>1. phase' = "aborted" /\ frames' = frames
      BY <1>5 DEF EatError, Abort, rendering
    <2> QED BY <1>1, <1>2, <2>1, RankStays DEF ReadRank, GetsCloser
  <1> QED BY <1>3, <1>4, <1>5

LEMMA AbortCloser ==
    ASSUME RankInv, phase = "render", Abort
    PROVE  RankInv' /\ GetsCloser
  BY RankStays DEF Abort, rendering, ReadRank, GetsCloser

LEMMA RenderCloser ==
    ASSUME TemplateInv, LoopsInv, RankInv, RenderCode \/ RenderIf \/ RenderFor
    PROVE  RankInv' /\ GetsCloser
  <1>1. phase = "render" /\ ~AtEnd
    BY DEF RenderCode, RenderIf, RenderFor, Renders
  <1>2. CASE Abort
    BY <1>1, <1>2, AbortCloser
  <1>3. CASE ~Abort
    <2>1. phase' = "render" /\ UNCHANGED <<source, given, reading>>
      BY <1>1, <1>3 DEF RenderCode, RenderIf, RenderFor
    <2>2. Top.at \in Nat /\ Top.section \in Nat /\ Top.section < Top.at
          /\ End(Top.section) \in Nat /\ Top.at + 1 \in Top.at + 1..End(Top.section)
      <3>1. Top \in Frame /\ FrameInv(Top)
        BY InnermostSection, <1>1
      <3>2. End(Top.section) \in Nat
        BY <1>1, <3>1, RenderingStructure DEF FrameInv
      <3> QED BY <1>1, <3>1, <3>2, InsideTheSection DEF Frame, FrameInv
    <2>3. CASE RenderCode
      <3>1. frames' = Advanced(Top.at + 1)
        BY <1>3, <2>3 DEF RenderCode
      <3> QED BY <1>1, <2>1, <2>2, <3>1, RankAdvances
    <2>4. CASE RenderIf \/ RenderFor
      <3>1. IsOpening(Top.at)
        BY <2>4 DEF RenderIf, RenderFor, Renders, IsOpening
      <3>2. End(Top.at) + 1 \in Top.at + 1..End(Top.section) /\ Top.at \in DOMAIN sections
        BY <1>1, <2>2, <3>1, InsideTheSection, RenderingStructure
      <3>3. \/ frames' = Advanced(End(Top.at) + 1)
            \/ /\ frames' = Entered(Top.at)
               /\ source[Top.at].kind \in Loops => 0 < Count(Top.at)
        <4>1. CASE RenderIf
          BY <4>1 DEF RenderIf, Renders, Loops
        <4>2. CASE RenderFor
          <5>1. source[Top.at].kind \in Loops
            BY <4>2 DEF RenderFor, Renders
          <5>2. Turns(Top.at) = Count(Top.at) /\ Count(Top.at) \in Int
            BY <3>2, <5>1, TurnsAreCounted
          <5> QED BY <1>3, <4>2, <5>2 DEF RenderFor
        <4> QED BY <2>4, <4>1, <4>2
      <3>4. \/ frames' = Advanced(End(Top.at) + 1)
            \/ /\ frames' = Append(Advanced(End(Top.at) + 1), [section |-> Top.at, at |-> Top.at + 1, turn |-> 0])
               /\ source[Top.at].kind \in Loops => 0 < Count(Top.at)
        BY <3>3 DEF Entered
      <3> QED BY <1>1, <2>1, <3>2, <3>4, RankAdvances
    <2> QED BY <2>3, <2>4
  <1> QED BY <1>2, <1>3

LEMMA EndCloser ==
    ASSUME TemplateInv, LoopsInv, RankInv, EndTurn \/ EndIf \/ EndRoot
    PROVE  RankInv' /\ GetsCloser
  <1>1. phase = "render" /\ UNCHANGED <<source, given, reading>>
    BY DEF EndTurn, EndIf, EndRoot
  <1>2. CASE EndTurn
    <2>1. phase' = "render" /\ Top.section # 0 /\ source[Top.section].kind \in Loops
      BY <1>1, <1>2 DEF EndTurn
    <2>2. CASE Top.turn + 1 < Turns(Top.section)
      BY <1>1, <1>2, <2>1, <2>2, RankTurns DEF EndTurn
    <2>3. CASE ~(Top.turn + 1 < Turns(Top.section))
      BY <1>1, <1>2, <2>1, <2>3, RankLeaves DEF EndTurn
    <2> QED BY <2>2, <2>3
  <1>3. CASE EndIf
    BY <1>1, <1>3, RankLeaves DEF EndIf
  <1>4. CASE EndRoot
    <2>1. phase' = "done" /\ frames' = <<>>
      BY <1>4 DEF EndRoot
    <2>2. RankInv'
      BY <2>1 DEF RankInv
    <2> QED BY <1>1, <2>1, <2>2 DEF ReadRank, GetsCloser
  <1> QED BY <1>2, <1>3, <1>4

\* Whatever the template and the values: each step brings a template closer to its end.
\* Reading takes a token more, and when the sections are rendered, the outermost that
\* changes has fewer turns, or fewer tokens of its turn, before it, however many the ones in it
\* then begin with.  As ranks do not fall for ever, no rendering goes on without end.
THEOREM RenderingsGetCloser ==
    Spec => /\ [](ReadRank \in Nat /\ (phase = "render" => RenderRank \in Ranks(Depth)))
            /\ [][GetsCloser]_vars
  <1> DEFINE Inv == LoopsInv /\ RankInv /\ phase \in {"read", "render", "done", "aborted"}
  <1>1. Init => Inv
    BY DEF Init, LoopsInv, RankInv
  <1>2. TemplateInv /\ Inv /\ Next => RankInv' /\ GetsCloser
    BY ReadCloser, RenderCloser, EndCloser DEF Next
  <1>3. TemplateInv /\ Inv /\ [Next]_vars => Inv'
    <2> SUFFICES ASSUME TemplateInv, Inv, [Next]_vars PROVE Inv'
      OBVIOUS
    <2>1. LoopsInv'
      BY LoopsKept
    <2>2. RankInv'
      BY <1>2, RankStays DEF vars
    <2>3. phase' \in {"read", "render", "done", "aborted"}
      BY DEF Next, vars, EatCode, EatOpening, EatEnd, EatLast, EatError, RenderCode, RenderIf, RenderFor,
             EndTurn, EndIf, EndRoot, Abort
    <2> QED BY <2>1, <2>2, <2>3
  <1>4. TemplateInv /\ Inv /\ [Next]_vars => [GetsCloser]_vars
    BY <1>2
  <1>5. TemplateInv /\ Inv => ReadRank \in Nat
    <2> SUFFICES ASSUME TemplateInv, Inv PROVE ReadRank \in Nat
      OBVIOUS
    <2> QED BY LenOfSource DEF ReadRank
  <1>6. TemplateInv /\ Inv => (phase = "render" => RenderRank \in Ranks(Depth))
    BY RankType
  <1> HIDE DEF Inv
  <1> QED BY <1>1, <1>3, <1>4, <1>5, <1>6, TemplateInvariant, PTL DEF Spec
=============================================================================
