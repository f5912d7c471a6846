------------------------------- MODULE Xml2Json -------------------------------
(***************************************************************************)
(* The converter of the guest xml_to_json:                                 *)
(* src/modules/xml_to_json/xml2json/include/xml2json.hpp, from the tree    *)
(* rapidxml has parsed to the value rapidjson prints.  A member of an      *)
(* object is removed the way rapidjson does it: the last one takes its     *)
(* place.  Texts are opaque.  A name is a sequence of pieces: "@" can stand *)
(* before it, and rapidxml lets an element's name begin with it as well.   *)
(***************************************************************************)
EXTENDS Naturals, SequencesExt

CONSTANTS
    Docs,       \* the documents to convert, each the sequence of its top-level nodes
    Nodes       \* their nodes

(* The tree: elements have attributes and children, data and cdata a text, *)
(* and the name of these is empty.                                         *)

Element(name, attrs, kids) ==
    [kind |-> "element", name |-> name, attrs |-> attrs, kids |-> kids]
Data(text) == [kind |-> "data", text |-> text]
Cdata(text) == [kind |-> "cdata", text |-> text]

IsText(n) == n.kind \in {"data", "cdata"}

NameOf(n) == IF IsText(n) THEN <<>> ELSE n.name

\* rapidxml minds neither an element that repeats an attribute nor a document with
\* several roots, or with a cdata section among them.
ASSUME DocsAssumption ==
    /\ \A d \in Docs : d \in Seq(Nodes)
    /\ \A n \in Nodes : ~IsText(n) =>
          /\ n.kids \in Seq(Nodes)
          /\ n.attrs \in Seq(Range(n.attrs))
          /\ \A a \in Range(n.attrs) : a.name \in Seq(Range(a.name))

\* The element holds one data node and nothing else.
PureText(n) == Len(n.kids) = 1 /\ n.kids[1].kind = "data"

(* Values: null, strings, arrays, and objects with their members in order. *)

Null == [type |-> "null"]
Str(text) == [type |-> "string", text |-> text]
Arr(items) == [type |-> "array", items |-> items]
Obj(members) == [type |-> "object", members |-> members]
Member(name, value) == [name |-> name, value |-> value]

FindMember(obj, name) == SelectInSeq(obj.members, LAMBDA m : m.name = name)
AddMember(obj, name, value) == Obj(Append(obj.members, Member(name, value)))

\* The last member moves to the place of the one that goes.
RemoveMember(obj, name) ==
    LET m == FindMember(obj, name)
    IN  Obj(Front([obj.members EXCEPT ![m] = Last(obj.members)]))

\* Keys: "#text", "@" before the name of an attribute, the name of an element.
TextKey == <<"#text">>
AttributeKey(name) == <<"@">> \o name
KeyOf(n) == IF IsText(n) THEN TextKey ELSE n.name

-----------------------------------------------------------------------------
(* The helpers of xml2json.hpp *)

Grown(target, chd) ==
    IF target.type = "array" THEN Arr(Append(target.items, chd)) ELSE Arr(<<target, chd>>)

\* Mistake: the old member stays beside the array.
ToArrayFormKeeping(obj, name, chd) ==
    AddMember(obj, name, Grown(obj.members[FindMember(obj, name)].value, chd))

\* Mistake: every further child wraps what is there once more.
ToArrayFormNested(obj, name, chd) ==
    LET target == obj.members[FindMember(obj, name)].value
    IN  AddMember(RemoveMember(obj, name), name, Arr(<<target, chd>>))

\* xml2json_to_array_form: the second child of a name makes an array, the next
\* ones extend it.
ToArrayForm(obj, name, chd) ==
    LET target == obj.members[FindMember(obj, name)].value
    IN  AddMember(RemoveMember(obj, name), name, Grown(target, chd))

\* xml2json_add_attributes.
AddAttributes(n, obj) ==
    Obj(obj.members \o [i \in 1..Len(n.attrs) |->
                           Member(AttributeKey(n.attrs[i].name), Str(n.attrs[i].text))])

-----------------------------------------------------------------------------
(* xml2json, and xml2json_traverse_node with its recursion on a stack of   *)
(* frames                                                                  *)

VARIABLES
    doc,        \* the document
    js_doc,     \* what it becomes: an object with a member for each top-level node
    stack,      \* calls under way, the innermost last
    result      \* the value the innermost call has returned, if any

vars == <<doc, js_doc, stack, result>>

NoResult == [type |-> "none"]

\* A call: its node, whether it is in the loop over the children, the child it
\* is at, how often each key has come up, and the object made so far.
Call(n) == [node |-> n, looping |-> FALSE, at |-> 1,
            count |-> [k \in {KeyOf(n.kids[i]) : i \in
                                 IF IsText(n) THEN {} ELSE 1..Len(n.kids)} |-> 0],
            value |-> Obj(<<>>)]

Top == Last(stack)
Replaced(frame) == Append(Front(stack), frame)

\* The loop over the top-level nodes is at the one after those in js_doc.
At == Len(js_doc.members) + 1

Init ==
    /\ doc \in Docs
    /\ js_doc = Obj(<<>>)
    /\ stack = <<>>
    /\ result = NoResult

\* xml2json traverses the next top-level node.
VisitTop ==
    /\ stack = <<>>
    /\ result = NoResult
    /\ At <= Len(doc)
    /\ stack' = <<Call(doc[At])>>
    /\ UNCHANGED <<doc, js_doc, result>>

\* It becomes a member.  Nothing is counted here: top-level nodes of one name give
\* members of one name.
PlaceTop ==
    /\ stack = <<>>
    /\ result # NoResult
    /\ js_doc' = AddMember(js_doc, NameOf(doc[At]), result)
    /\ result' = NoResult
    /\ UNCHANGED <<doc, stack>>

Finished == stack = <<>> /\ result = NoResult /\ At > Len(doc)

Entering == stack # <<>> /\ ~Top.looping /\ result = NoResult
Looping == stack # <<>> /\ Top.looping

\* The innermost call ends.
Return(value) ==
    /\ stack' = Front(stack)
    /\ result' = value

\* case: pure_text
ReturnText ==
    /\ Entering
    /\ IsText(Top.node)
    /\ Return(Str(Top.node.text))
    /\ UNCHANGED <<doc, js_doc>>

\* case: <e attr="xxx">text</e>
ReturnTextWithAttributes ==
    /\ Entering
    /\ ~IsText(Top.node)
    /\ Top.node.attrs # <<>>
    /\ PureText(Top.node)
    /\ Return(AddAttributes(Top.node, Obj(<<Member(TextKey, Str(Top.node.kids[1].text))>>)))
    /\ UNCHANGED <<doc, js_doc>>

\* case: <e />
ReturnNull ==
    /\ Entering
    /\ ~IsText(Top.node)
    /\ Top.node.attrs = <<>>
    /\ Top.node.kids = <<>>
    /\ Return(Null)
    /\ UNCHANGED <<doc, js_doc>>

\* case: <e>text</e>
ReturnPureText ==
    /\ Entering
    /\ ~IsText(Top.node)
    /\ Top.node.attrs = <<>>
    /\ PureText(Top.node)
    /\ Return(Str(Top.node.kids[1].text))
    /\ UNCHANGED <<doc, js_doc>>

\* case: <e attr="xxx">...</e>, and the complex case without attributes.
EnterLoop ==
    /\ Entering
    /\ ~IsText(Top.node)
    /\ ~PureText(Top.node)
    /\ Top.node.attrs # <<>> \/ Top.node.kids # <<>>
    /\ stack' = Replaced([Top EXCEPT !.looping = TRUE,
                                     !.value = AddAttributes(Top.node, @)])
    /\ UNCHANGED <<doc, js_doc, result>>

\* The next child is counted and traversed.
VisitChild ==
    /\ Looping
    /\ result = NoResult
    /\ Top.at <= Len(Top.node.kids)
    /\ LET kid == Top.node.kids[Top.at]
       IN  stack' = Append(Replaced([Top EXCEPT !.count[KeyOf(kid)] = @ + 1]), Call(kid))
    /\ UNCHANGED <<doc, js_doc, result>>

\* Its value becomes a member, or joins those of its name in an array.
PlaceChild ==
    /\ Looping
    /\ result # NoResult
    /\ LET key == KeyOf(Top.node.kids[Top.at])
       IN  stack' = Replaced([Top EXCEPT
                        !.at = @ + 1,
                        !.value = IF Top.count[key] > 1 THEN ToArrayForm(@, key, result)
                                  ELSE AddMember(@, key, result)])
    /\ result' = NoResult
    /\ UNCHANGED <<doc, js_doc>>

LeaveLoop ==
    /\ Looping
    /\ result = NoResult
    /\ Top.at > Len(Top.node.kids)
    /\ Return(Top.value)
    /\ UNCHANGED <<doc, js_doc>>

Next ==
    \/ VisitTop
    \/ PlaceTop
    \/ ReturnText
    \/ ReturnTextWithAttributes
    \/ ReturnNull
    \/ ReturnPureText
    \/ EnterLoop
    \/ VisitChild
    \/ PlaceChild
    \/ LeaveLoop

Spec == Init /\ [][Next]_vars

-----------------------------------------------------------------------------
(* Properties *)

Keys(n) == {KeyOf(n.kids[i]) : i \in 1..Len(n.kids)}
AttributeKeys(n) == {AttributeKey(n.attrs[i].name) : i \in 1..Len(n.attrs)}

\* Two attributes of one name.
Repeats(n, key) ==
    \E a, b \in 1..Len(n.attrs) : /\ a # b /\ n.attrs[a].name = n.attrs[b].name
                                  /\ key = AttributeKey(n.attrs[a].name)

\* Keys that an attribute shares with another one, or with a child: <@x/> in <e x="">.
Shared(n, key) == Repeats(n, key) \/ key \in AttributeKeys(n) \cap Keys(n)

\* At no moment has the object of an element two members of one name, but for a key
\* that an attribute shares with another or with a child, though members are
\* removed, moved and added again while the children are gone through: FindMember
\* always finds the one that holds the earlier children.
NamesUnique ==
    \A f \in 1..Len(stack) :
        LET members == stack[f].value.members
        IN  \A i, j \in 1..Len(members) :
                members[i].name = members[j].name =>
                    i = j \/ Shared(stack[f].node, members[i].name)
=============================================================================
