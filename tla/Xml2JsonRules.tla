---------------------------- MODULE Xml2JsonRules ----------------------------
(***************************************************************************)
(* What the converter of Xml2Json promises: the rules of                   *)
(* src/modules/xml_to_json/xml2json/README.md, as a recursive definition.  *)
(***************************************************************************)
EXTENDS Xml2Json

\* The values with no order among the members of an object.
RECURSIVE Unordered(_)
Unordered(v) ==
    CASE v.type = "array" -> Arr([i \in 1..Len(v.items) |-> Unordered(v.items[i])])
      [] v.type = "object" ->
             Obj({Member(v.members[i].name, Unordered(v.members[i].value)) :
                     i \in 1..Len(v.members)})
      [] OTHER -> v

\* Rules 1 to 4 are the first cases; in the rest each key has the values of its
\* children, in document order: one as it is, several as an array (6).
RECURSIVE ByRules(_)
ByRules(n) ==
    IF IsText(n) THEN Str(n.text)
    ELSE IF n.attrs = <<>> /\ n.kids = <<>> THEN Null
    ELSE IF n.attrs = <<>> /\ PureText(n) THEN Str(n.kids[1].text)
    ELSE LET Of(key) == SelectSeq(n.kids, LAMBDA k : KeyOf(k) = key)
             Value(same) == IF Len(same) = 1 THEN ByRules(same[1])
                            ELSE Arr([i \in 1..Len(same) |-> ByRules(same[i])])
         IN  Obj({Member(key, Value(Of(key))) :
                     key \in {KeyOf(n.kids[i]) : i \in 1..Len(n.kids)}}
                 \cup {Member(AttributeKey(n.attrs[i].name), Str(n.attrs[i].text)) :
                     i \in 1..Len(n.attrs)})

\* No element in n shares a key between an attribute and a child: what the rules
\* say of those nobody knows.
RECURSIVE Distinct(_)
Distinct(n) ==
    IsText(n) \/ /\ AttributeKeys(n) \cap Keys(n) = {}
                 /\ \A i \in 1..Len(n.kids) : Distinct(n.kids[i])

\* A document becomes an object with a member for each top-level node, in their
\* order, and its value is what the rules say: repeated elements make one flat
\* array in document order, whatever comes between them, and repetitions at one
\* level never mix with those of another.
FollowsTheRules ==
    Finished =>
        /\ Len(js_doc.members) = Len(doc)
        /\ \A i \in 1..Len(doc) :
              LET member == js_doc.members[i]
              IN  /\ member.name = NameOf(doc[i])
                  /\ Distinct(doc[i]) => Unordered(member.value) = ByRules(doc[i])
=============================================================================
