--------------------------- MODULE TemplateMeaning ---------------------------
(***************************************************************************)
(* What a template stands for, defined over its text as a whole, and that  *)
(* the engine of Template, which goes through it token by token, section   *)
(* by section and with one map of values, writes just that.  Of what an if *)
(* asks the repository says two things, so there are two senses of it.     *)
(***************************************************************************)
EXTENDS Template

\* The end of the section that opens at i: as many ends as openings since then.
IsEnd(kind) == kind \in {"endfor", "endif"}
Depth(i, j) == LET between == {k \in i..j : source[k].kind \in Loops \cup {"if"}}
                   ends == {k \in i..j : IsEnd(source[k].kind)}
               IN  Cardinality(between) - Cardinality(ends)
Closes(i, j) == i < j /\ Depth(i, j) = 0 /\ \A k \in i..j - 1 : Depth(i, k) > 0

WellFormed ==
    \A i \in 1..Len(source) :
       LET token == source[i] IN
       /\ token.kind # "unknown"
       /\ IsEnd(token.kind) => \E k \in 1..i - 1 : Closes(k, i) /\ source[k].kind \in Opening(token.kind)
       /\ token.kind \in Loops \cup {"if"} => \E k \in i + 1..Len(source) : Closes(i, k)
       /\ token.kind = "rangeOf" => Has(given, token.over, "int")
       /\ token.kind = "in" => Has(given, token.over, "tuple")

Error == [kind |-> "error"]

\* "Only if variable exists or not" (README.md:31 of the engine; of if not its header,
\* line 350), or whether its value is neither 0 nor empty, as computeExpression asks.
Senses == {"exists", "isTrue"}

HasTrueValue(name, map) ==
    \/ Has(map, name, "int") /\ map[name].value # 0
    \/ Has(map, name, "string") /\ map[name].value # ""
    \/ Has(map, name, "tuple") /\ map[name].value # <<>>

Asked(sense, name, map) ==
    CASE name = "True" -> TRUE
      [] name = "False" -> FALSE
      [] OTHER -> IF sense = "exists" THEN name \in DOMAIN map ELSE HasTrueValue(name, map)

\* What the tokens from lo to hi stand for, with these values and this sense.
RECURSIVE Meaning(_, _, _, _)
Meaning(lo, hi, map, sense) ==
    IF lo > hi THEN <<>>
    ELSE LET token == source[lo]
             end == CHOOSE k \in lo + 1..hi : Closes(lo, k)
             items == CASE token.kind = "in" -> given[token.over].value
                        [] token.kind = "range" -> [k \in 1..token.over |-> IntValue(k - 1)]
                        [] token.kind = "rangeOf" -> [k \in 1..given[token.over].value |-> IntValue(k - 1)]
         IN  CASE token.kind = "text" -> <<token>> \o Meaning(lo + 1, hi, map, sense)
               [] token.kind = "name" ->
                    <<IF token.name \in DOMAIN map THEN map[token.name] ELSE Error>>
                    \o Meaning(lo + 1, hi, map, sense)
               [] token.kind = "if" ->
                    (IF token.not # Asked(sense, token.name, map)
                     THEN Meaning(lo + 1, end - 1, map, sense) ELSE <<>>)
                    \o Meaning(end + 1, hi, map, sense)
               [] token.kind \in Loops ->
                    (IF token.var \in DOMAIN map THEN <<Error>>
                     ELSE FlattenSeq([k \in 1..Len(items) |->
                                        Meaning(lo + 1, end - 1, Bind(map, token.var, items[k]), sense)]))
                    \o Meaning(end + 1, hi, map, sense)

\* There is a sense of if, the same for every if of the template, with which the
\* result is what the template stands for; and only a template that is not
\* well-formed, or stands for an error, aborts the guest.
RendersTheMeaning ==
    phase \in {"done", "aborted"} =>
        \E sense \in Senses :
            LET meaning == Meaning(1, Len(source), given, sense)
            IN  IF phase = "done" THEN WellFormed /\ result = meaning
                ELSE ~ WellFormed \/ Error \in Range(meaning)
=============================================================================
