--------------------------- MODULE ResponseService ---------------------------
(***************************************************************************)
(* What the web server promises its clients, with no thread, cell, sandbox *)
(* or directory in sight: a request is answered at most once, an answer    *)
(* with a result carries the report made for this request by the module    *)
(* the request names, and modules that are not loaded on demand come from  *)
(* one catalog that is fixed when the service opens.                       *)
(***************************************************************************)
EXTENDS Naturals

CONSTANTS
    Reqs, Calls, NoCall,
    Names, Builds, Absent,
    Empty,              \* the result of an answer that carries none
    RunsModule(_),      \* the call is served by a module ...
    OnDemand(_),        \* ... loaded for it alone ...
    ModuleOf(_),        \* ... of this name ...
    ReportKind(_),      \* ... that reports in this variant
    Unknown(_)      \* the call matches nothing the service has

VARIABLES
    open,       \* whether the service accepts requests
    catalog,    \* the builds loaded when it opened
    call,       \* what each request asks for
    outcome     \* what its client has seen

vars == <<open, catalog, call, outcome>>

Init ==
    /\ open = FALSE
    /\ catalog \in [Names -> Builds \cup {Absent}]
    /\ call = [r \in Reqs |-> NoCall]
    /\ outcome = [r \in Reqs |-> [st |-> "unsent", res |-> Empty]]

Open ==
    /\ ~open
    /\ open' = TRUE
    /\ catalog' \in [Names -> Builds \cup {Absent}]
    /\ UNCHANGED <<call, outcome>>

Submit(r) ==
    /\ open
    /\ call[r] = NoCall
    /\ \E c \in Calls : call' = [call EXCEPT ![r] = c]
    /\ outcome' = [outcome EXCEPT ![r].st = "waiting"]
    /\ UNCHANGED <<open, catalog>>

\* The results a module may answer request r with.
Reports(r) ==
    LET c == call[r]
        name == ModuleOf(c)
        builds == IF OnDemand(c) THEN Builds ELSE {catalog[name]} \cap Builds
    IN  {[kind |-> ReportKind(c), owner |-> r,
          handle |-> [name |-> name, build |-> b, own |-> OnDemand(c)]] : b \in builds}

\* A module may also end in an error or a lost connection.
Answers(r) ==
    IF RunsModule(call[r])
    THEN [st : {"ok"}, res : Reports(r)] \cup [st : {"error", "dropped"}, res : {Empty}]
    ELSE {[st |-> IF Unknown(call[r]) THEN "error" ELSE "ok", res |-> Empty]}

Answer(r) ==
    /\ call[r] # NoCall
    /\ outcome[r].st = "waiting"
    /\ \E a \in Answers(r) : outcome' = [outcome EXCEPT ![r] = a]
    /\ UNCHANGED <<open, catalog, call>>

Next == Open \/ \E r \in Reqs : Submit(r) \/ Answer(r)

Spec == Init /\ [][Next]_vars
=============================================================================
