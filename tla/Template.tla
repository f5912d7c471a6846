------------------------------ MODULE Template ------------------------------
(***************************************************************************)
(* Template::render of Jinja2CppLight, the engine of the html_template     *)
(* guest (src/modules/html_template/Jinja2CppLight/src): eatSection reads  *)
(* the source section by section, and then the sections write the result,  *)
(* binding and unbinding loop variables in the one map of values.          *)
(*                                                                         *)
(* A source is a sequence of tokens: text, {{name}} or a {% %} section.    *)
(* Both recursions are written with a stack.  The header turns every throw *)
(* into abort(): no error leaves the engine.                               *)
(***************************************************************************)
EXTENDS Integers, SequencesExt

CONSTANTS Sources,      \* the templates, each a sequence of tokens
          ValueMaps     \* what the client set, names to values

ASSUME SourcesAssumption == \A s \in Sources : s \in Seq(Range(s))

\* Bounds and integers are numbers, tuples have a length.
ASSUME ValuesAssumption ==
    /\ \A s \in Sources : \A i \in 1..Len(s) : s[i].kind = "range" => s[i].over \in Int
    /\ \A map \in ValueMaps :
          /\ map = [n \in DOMAIN map |-> map[n]]
          /\ \A n \in DOMAIN map :
                /\ map[n].kind = "int" => map[n].value \in Int
                /\ map[n].kind = "tuple" => Len(map[n].value) \in Nat

VARIABLES
    source,         \* sourceCode
    given,          \* valueByName before render
    valueByName,    \* and now
    phase, 
    pos,            \* of eatSection
    open,           \* the sections that eatSection is in, each as its token's place
    sections,       \* the sections read so far: where each ends and, of a range, loopEnd
    frames,         \* the sections that are rendered: [section, at, turn]
    result

vars == <<source, given, valueByName, phase, pos, open, sections, frames, result>>
reading == <<pos, open, sections>>
rendering == <<valueByName, frames, result>>

Has(map, name, kind) == name \in DOMAIN map /\ map[name].kind = kind
Bind(map, name, value) == [n \in DOMAIN map \cup {name} |-> IF n = name THEN value ELSE map[n]]
Erase(map, name) == [n \in DOMAIN map \ {name} |-> map[n]]

IntValue(i) == [kind |-> "int", value |-> i]

Loops == {"range", "rangeOf", "in"}

Init ==
    /\ source \in Sources /\ given \in ValueMaps
    /\ valueByName = given
    /\ phase = "read" /\ pos = 1
    /\ open = <<>> /\ sections = <<>>
    /\ frames = <<>> /\ result = <<>>

Abort == phase' = "aborted" /\ UNCHANGED <<source, given, reading, rendering>>

-----------------------------------------------------------------------------
(* eatSection *)

At(kinds) == phase = "read" /\ pos <= Len(source) /\ source[pos].kind \in kinds

EatCode ==
    /\ At({"text", "name"})
    /\ pos' = pos + 1
    /\ UNCHANGED <<source, given, phase, open, sections, rendering>>

\* What a for section loops over is looked up in the values that the client set.
Recognized(token) ==
    CASE token.kind = "rangeOf" -> Has(valueByName, token.over, "int")
      [] token.kind = "in" -> Has(valueByName, token.over, "tuple")
      [] OTHER -> TRUE

LoopEnd(token) ==
    CASE token.kind = "range" -> token.over
      [] token.kind = "rangeOf" -> valueByName[token.over].value
      [] OTHER -> 0

EatOpening ==
    /\ At(Loops \cup {"if"})
    /\ Recognized(source[pos])
    /\ open' = Append(open, pos)
    /\ sections' = Bind(sections, pos, [end |-> 0, loopEnd |-> LoopEnd(source[pos])])
    /\ pos' = pos + 1
    /\ UNCHANGED <<source, given, phase, rendering>>

Opening(closing) == IF closing = "endfor" THEN Loops ELSE {"if"}

\* Mistake: any end closes the section that is open.
EatEndOfAny ==
    /\ At({"endfor", "endif"})
    /\ open # <<>>
    /\ sections' = [sections EXCEPT ![Last(open)].end = pos]
    /\ open' = Front(open)
    /\ pos' = pos + 1
    /\ UNCHANGED <<source, given, phase, rendering>>

EatEnd ==
    /\ At({"endfor", "endif"})
    /\ open # <<>> /\ source[Last(open)].kind \in Opening(source[pos].kind)
    /\ sections' = [sections EXCEPT ![Last(open)].end = pos]
    /\ open' = Front(open)
    /\ pos' = pos + 1
    /\ UNCHANGED <<source, given, phase, rendering>>

\* The source is read, and the root section begins.
EatLast ==
    /\ phase = "read" /\ pos > Len(source) /\ open = <<>>
    /\ phase' = "render"
    /\ frames' = <<[section |-> 0, at |-> 1, turn |-> 0]>>
    /\ UNCHANGED <<source, given, reading, valueByName, result>>

\* A section that nothing ends, an end that nothing opened, an end of the other
\* kind, an unknown section, a loop over something unknown.
EatError ==
    /\ \/ phase = "read" /\ pos > Len(source) /\ open # <<>>
       \/ At({"unknown"})
       \/ At(Loops) /\ ~ Recognized(source[pos])
       \/ At({"endfor", "endif"}) /\ open = <<>>
       \/ At({"endfor", "endif"}) /\ open # <<>> /\ source[Last(open)].kind \notin Opening(source[pos].kind)
    /\ Abort

-----------------------------------------------------------------------------
(* render *)

Top == Last(frames)
End(i) == IF i = 0 THEN Len(source) + 1 ELSE sections[i].end
AtEnd == Top.at = End(Top.section)

Renders(kinds) == phase = "render" /\ ~ AtEnd /\ source[Top.at].kind \in kinds

Advanced(to) == Append(Front(frames), [Top EXCEPT !.at = to])

\* doSubstitutions
RenderCode ==
    /\ Renders({"text", "name"})
    /\ LET token == source[Top.at]
       IN  IF token.kind = "name" /\ token.name \notin DOMAIN valueByName
           THEN Abort
           ELSE /\ result' = Append(result, IF token.kind = "text" THEN token
                                            ELSE valueByName[token.name])
                /\ frames' = Advanced(Top.at + 1)
                /\ UNCHANGED <<source, given, phase, reading, valueByName>>

IsTrue(value) == CASE value.kind = "int" -> value.value # 0
                   [] value.kind = "string" -> value.value # ""
                   [] value.kind = "tuple" -> value.value # <<>>

\* computeExpression, in the map of that moment
Holds(token, map) ==
    token.not # (\/ token.name = "True"
                 \/ /\ token.name \notin {"True", "False"}
                    /\ token.name \in DOMAIN map
                    /\ IsTrue(map[token.name]))

\* After the section its parent goes on; first its own sections are rendered.
Entered(i) == Append(Advanced(End(i) + 1), [section |-> i, at |-> i + 1, turn |-> 0])

RenderIf ==
    /\ Renders({"if"})
    /\ frames' = IF Holds(source[Top.at], valueByName) THEN Entered(Top.at) ELSE Advanced(End(Top.at) + 1)
    /\ UNCHANGED <<source, given, phase, reading, valueByName, result>>

\* A for section's turns, and what its variable is in each.
Turns(i) == IF source[i].kind = "in" THEN Len(valueByName[source[i].over].value)
            ELSE sections[i].loopEnd
Item(i, turn) == IF source[i].kind = "in" THEN valueByName[source[i].over].value[turn + 1]
                 ELSE IntValue(turn)

\* Mistake: the variable is taken over if it is there.
RenderForAnyway ==
    /\ Renders(Loops)
    /\ LET i == Top.at
       IN  IF Turns(i) <= 0
           THEN frames' = Advanced(End(i) + 1) /\ UNCHANGED <<source, given, phase, reading, valueByName, result>>
           ELSE /\ valueByName' = Bind(valueByName, source[i].var, Item(i, 0))
                /\ frames' = Entered(i)
                /\ UNCHANGED <<source, given, phase, reading, result>>

RenderFor ==
    /\ Renders(Loops)
    /\ LET i == Top.at
       IN  IF source[i].var \in DOMAIN valueByName
           THEN Abort
           ELSE IF Turns(i) <= 0
           THEN frames' = Advanced(End(i) + 1) /\ UNCHANGED <<source, given, phase, reading, valueByName, result>>
           ELSE /\ valueByName' = Bind(valueByName, source[i].var, Item(i, 0))
                /\ frames' = Entered(i)
                /\ UNCHANGED <<source, given, phase, reading, result>>

\* Mistake: the turn begins again.
EndTurnAgain ==
    /\ phase = "render" /\ AtEnd /\ Top.section # 0 /\ source[Top.section].kind \in Loops
    /\ frames' = Append(Front(frames), [Top EXCEPT !.at = Top.section + 1])
    /\ UNCHANGED <<source, given, phase, reading, valueByName, result>>

EndTurn ==
    /\ phase = "render" /\ AtEnd /\ Top.section # 0 /\ source[Top.section].kind \in Loops
    /\ LET i == Top.section
           turn == Top.turn + 1
       IN  IF turn < Turns(i)
           THEN /\ valueByName' = Bind(valueByName, source[i].var, Item(i, turn))
                /\ frames' = Append(Front(frames), [section |-> i, at |-> i + 1, turn |-> turn])
           ELSE /\ frames' = Front(frames)
                /\ valueByName' = Erase(valueByName, source[i].var)
    /\ UNCHANGED <<source, given, phase, reading, result>>

EndIf ==
    /\ phase = "render" /\ AtEnd /\ Top.section # 0 /\ source[Top.section].kind = "if"
    /\ frames' = Front(frames)
    /\ UNCHANGED <<source, given, phase, reading, valueByName, result>>

EndRoot ==
    /\ phase = "render" /\ AtEnd /\ Top.section = 0
    /\ phase' = "done" /\ frames' = <<>>
    /\ UNCHANGED <<source, given, reading, valueByName, result>>

Next == EatCode \/ EatOpening \/ EatEnd \/ EatLast \/ EatError
        \/ RenderCode \/ RenderIf \/ RenderFor \/ EndTurn \/ EndIf \/ EndRoot

Spec == Init /\ [][Next]_vars
FairSpec == Spec /\ WF_vars(Next)

-----------------------------------------------------------------------------
(* Properties *)

\* The values are the client's and one more for each loop that is being
\* rendered: no loop hides a value, and none leaves its variable behind.
VariablesScoped ==
    LET loops == {i \in 1..Len(frames) : frames[i].section # 0 /\ source[frames[i].section].kind \in Loops}
        variable(i) == source[frames[i].section].var
    IN  /\ \A i \in loops : variable(i) \notin DOMAIN given
        /\ \A i, j \in loops : i # j => variable(i) # variable(j)
        /\ DOMAIN valueByName = DOMAIN given \cup {variable(i) : i \in loops}
        /\ \A name \in DOMAIN given : valueByName[name] = given[name]

\* Every template is rendered or refused.
RenderEnds == <>(phase \in {"done", "aborted"})
=============================================================================
