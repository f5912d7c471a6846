----------------------------- MODULE MCTemplate -----------------------------
(* Short templates of every shape, and the one of the guest (main.cpp).  *)
EXTENDS TemplateMeaning

Text == [kind |-> "text"]
Name(n) == [kind |-> "name", name |-> n]
Range_(v, k) == [kind |-> "range", var |-> v, over |-> k]
RangeOf(v, n) == [kind |-> "rangeOf", var |-> v, over |-> n]
In(v, n) == [kind |-> "in", var |-> v, over |-> n]
If(n) == [kind |-> "if", name |-> n, not |-> FALSE]
IfNot(n) == [kind |-> "if", name |-> n, not |-> TRUE]
EndFor == [kind |-> "endfor"]
EndIf_ == [kind |-> "endif"]
Unknown == [kind |-> "unknown"]

Code == {Text, Name("its"), Name("i")}
Openings == {Range_("i", 2), RangeOf("i", "its"), RangeOf("j", "i"), In("i", "t"), In("its", "t"),
             If("its"), If("i"), IfNot("its"), IfNot("t"), If("True")}
Ends == {EndFor, EndIf_}

Guest == <<Text, Name("its"), Text, RangeOf("i", "its"), Text, Name("i"), Text, Name("i"), Text, EndFor,
           Text, If("its"), Text, EndIf_, Text, Name("its"), Text,
           Range_("j", 3), Text, Name("j"), Text, Name("j"), Text, EndFor, Text, If("its"), Text, EndIf_, Text>>

MCSources ==
    UNION {[1..k -> Code \cup Openings \cup Ends \cup {Unknown}] : k \in 0..2}
    \cup {<<o, p, c, e, f>> : o \in Openings, p \in Openings \cup {Text}, c \in Code, e \in Ends, f \in Ends \cup Code}
    \cup {<<o, c, e, p, d, f>> : o \in Openings, c \in Code, e \in Ends, p \in Openings, d \in {Name("i"), Text}, f \in Ends}
    \cup {Guest}

Tuple(s) == [kind |-> "tuple", value |-> s]
MCValueMaps ==
    {[its |-> IntValue(k), t |-> Tuple(s)] : k \in {0, 2}, s \in {<<>>, <<IntValue(0), [kind |-> "string", value |-> ""]>>}}
    \cup {[its |-> Tuple(<<IntValue(1), Tuple(<<>>)>>)]}
=============================================================================
