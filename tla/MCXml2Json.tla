------------------------------ MODULE MCXml2Json ------------------------------
(***************************************************************************)
(* Documents for TLC: a root without an attribute, with one or with one    *)
(* twice, and children of the forms below, in any order; or up to three    *)
(* top-level nodes.  Texts are numbers that differ, so that their order    *)
(* shows.                                                                  *)
(***************************************************************************)
EXTENDS Xml2JsonRules

CONSTANTS MaxKids, MaxTops

Attribute(i) == <<[name |-> <<"a">>, text |-> i]>>

\* An element whose own children repeat a name of its siblings.
Nested(i) ==
    Element(<<"b">>, <<>>, <<Element(<<"a">>, <<>>, <<Data(i)>>), Cdata(i + 10),
                             Element(<<"a">>, Attribute(i), <<>>)>>)

\* The last two have the key of a text and that of attribute a.
Kid(form, i) ==
    CASE form = "data"   -> Data(i)
      [] form = "cdata"  -> Cdata(i)
      [] form = "empty"  -> Element(<<"a">>, <<>>, <<>>)
      [] form = "text"   -> Element(<<"a">>, <<>>, <<Data(i)>>)
      [] form = "attr"   -> Element(<<"c">>, Attribute(i), <<Data(i + 10)>>)
      [] form = "nested" -> Nested(i)
      [] form = "hash"   -> Element(<<"#text">>, <<>>, <<Cdata(i)>>)
      [] form = "at"     -> Element(<<"@", "a">>, <<>>, <<Cdata(i)>>)

Forms == {"data", "cdata", "empty", "text", "attr", "nested", "hash", "at"}

\* rapidxml makes one data node of a text.
Parsed(forms) ==
    \A i \in 1..Len(forms) - 1 : forms[i] = "data" => forms[i + 1] # "data"

Roots ==
    {Element(<<"r">>, attrs, [i \in 1..Len(forms) |-> Kid(forms[i], i)]) :
        attrs \in {<<>>, Attribute(0), Attribute(0) \o Attribute(9)},
        forms \in {f \in UNION {[1..n -> Forms] : n \in 0..MaxKids - 1} : Parsed(f)}
                 \cup [1..MaxKids -> Forms \ {"data", "hash"}]}

\* A document has no text outside its elements but in a cdata section.
Tops(i) == {Kid(form, i) : form \in {"cdata", "empty", "text", "nested"}}

MCDocs ==
    {<<root>> : root \in Roots}
    \cup UNION {{d \in [1..n -> UNION {Tops(i) : i \in 1..n}] : \A i \in 1..n : d[i] \in Tops(i)} :
                   n \in 0..MaxTops}

Kids(nodes) == UNION {Range(n.kids) : n \in {m \in nodes : ~IsText(m)}}
MCNodes ==
    LET kids == {Kid(form, i) : form \in Forms, i \in 1..MaxKids}
    IN  kids \cup Kids(kids) \cup Kids(Kids(kids)) \cup Roots
=============================================================================
