------------------------------ MODULE Webserver ------------------------------
(***************************************************************************)
(* The request path of the web server: the route handlers and hostcalls of *)
(* src/src/main.rs and create_wasm_instance of src/src/wasm_module.rs, on  *)
(* top of the module directory of ServiceDirectory.                        *)
(*                                                                         *)
(* A pool of worker threads takes requests.  A handler builds a sandbox,   *)
(* runs the guest in it on the worker's own thread, and finds what the     *)
(* guest reported in the thread-local cell CURRENT_RESULT.                 *)
(***************************************************************************)
EXTENDS ServiceDirectory

CONSTANTS
    Workers,            \* threads of the HTTP server's pool
    Reqs,               \* requests, one per connection
    Calls,              \* what a request may ask for: route, protection, body
    Protections,        \* values of the query parameter `protection'
    AslrProtections,    \* those that contain "_aslr"
    CetProtections,     \* those that contain "cet"
    Foreign,            \* endpoints whose module is not built from src/modules
    MaxReports,         \* bound on the reports of a foreign guest, for TLC
    NoReq, NoCall, NoHandle

-----------------------------------------------------------------------------
(* The handlers: method, variant of ModuleResult wanted, enable_file_access *)

JpegResizeC   == [post |-> FALSE, expects |-> "ByteArray", fileAccess |-> FALSE]
MsghashCheckC == [post |-> TRUE,  expects |-> "String",    fileAccess |-> FALSE]
FibC          == [post |-> FALSE, expects |-> "String",    fileAccess |-> FALSE]
HtmlTemplate  == [post |-> FALSE, expects |-> "String",    fileAccess |-> FALSE]
EchoServer    == [post |-> FALSE, expects |-> "String",    fileAccess |-> FALSE]
Tflite        == [post |-> FALSE, expects |-> "String",    fileAccess |-> TRUE]
XmlToJson     == [post |-> TRUE,  expects |-> "String",    fileAccess |-> FALSE]

Handler == [jpeg_resize_c   |-> JpegResizeC,
            msghash_check_c |-> MsghashCheckC,
            fib_c           |-> FibC,
            html_template   |-> HtmlTemplate,
            echo_server     |-> EchoServer,
            tflite          |-> Tflite,
            xml_to_json     |-> XmlToJson]

Endpoints == {"jpeg_resize_c", "msghash_check_c", "fib_c", "html_template",
              "echo_server", "tflite", "xml_to_json"}
\* "unrouted": a path, method or query that matches no route.
Routes == Endpoints \cup {"index", "bytes", "stream", "unrouted"}

\* The hostcall the guests of src/modules report through, each of them once.
GuestReports(ep) == IF ep = "jpeg_resize_c" THEN "ByteArray" ELSE "String"

\* Classes of a body, as RequestBody derives them from its octets.
BodyClasses == {"none", "text", "nul", "bad_raw", "bad_text"}

\* endpoint + "_" + &protection.  No endpoint is a prefix of another, so the
\* name determines both.
ModuleName(ep, prot) == <<ep, prot>>

\* A module as a request holds it: shared, or loaded for this request alone.
Handles == [name : Names, build : Builds, own : BOOLEAN]

ASSUME ServerAssumption ==
    /\ Calls \subseteq [route : Routes, prot : Protections, body : BodyClasses]
    /\ \A c \in Calls : c.route \in Endpoints => ModuleName(c.route, c.prot) \in Names
    /\ NoReq \notin Reqs
    /\ NoCall \notin Calls
    /\ NoHandle \notin Handles
    /\ MaxReports \in Nat
    /\ Foreign \subseteq Endpoints

\* A ModuleResult, with ghosts that say on whose behalf and by which module.
Results == [kind : {"None", "ByteArray", "String"},
            owner : Reqs \cup {NoReq},
            handle : Handles \cup {NoHandle}]
Empty == [kind |-> "None", owner |-> NoReq, handle |-> NoHandle]

Statuses == {"unsent", "waiting", "ok", "error", "dropped"}
Outcomes == [st : Statuses, res : Results]

Pcs == {"idle", "body", "decode", "lookup", "wasi", "region", "build", "reset",
        "unwrap", "guest", "hostcall", "take", "stream", "dead"}

VARIABLES
    call,       \* what each request asks for, NoCall before it is sent
    outcome,    \* what its client has seen of the answer
    stdinEof,   \* whether the server's standard input has ended
    pc,         \* where each worker is
    cur,        \* the request it serves
    cell,       \* CURRENT_RESULT, one slot per thread
    handle,     \* the module the request runs on
    region,     \* whether the request holds a memory region
    instance,   \* the Result of create_wasm_instance: "none", "ok" or "err"
    domain,     \* MPK domain of the thread: "app", "sandbox" or "all"
    saved,      \* local `domain' of copy_data_out
    copied,     \* local `v' of the running hostcall
    reports     \* hostcalls the running guest has made

serverVars == <<call, outcome, stdinEof, pc, cur, cell, handle, region,
                instance, domain, saved, copied, reports>>
vars == <<dirVars, serverVars>>

-----------------------------------------------------------------------------
TypeOK ==
    /\ DirTypeOK
    /\ call \in [Reqs -> Calls \cup {NoCall}]
    /\ outcome \in [Reqs -> Outcomes]
    /\ stdinEof \in BOOLEAN
    /\ pc \in [Workers -> Pcs]
    /\ cur \in [Workers -> Reqs \cup {NoReq}]
    /\ cell \in [Workers -> Results]
    /\ handle \in [Workers -> Handles \cup {NoHandle}]
    /\ region \in [Workers -> BOOLEAN]
    /\ instance \in [Workers -> {"none", "ok", "err"}]
    /\ domain \in [Workers -> {"app", "sandbox", "all"}]
    /\ saved \in [Workers -> {"app", "sandbox", "all"}]
    /\ copied \in [Workers -> Results]
    /\ reports \in [Workers -> Nat]

Init ==
    /\ DirInit
    /\ call = [r \in Reqs |-> NoCall]
    /\ outcome = [r \in Reqs |-> [st |-> "unsent", res |-> Empty]]
    /\ stdinEof = FALSE
    /\ pc = [w \in Workers |-> "idle"]
    /\ cur = [w \in Workers |-> NoReq]
    /\ cell = [w \in Workers |-> Empty]
    /\ handle = [w \in Workers |-> NoHandle]
    /\ region = [w \in Workers |-> FALSE]
    /\ instance = [w \in Workers |-> "none"]
    /\ domain = [w \in Workers |-> "app"]
    /\ saved = [w \in Workers |-> "app"]
    /\ copied = [w \in Workers |-> Empty]
    /\ reports = [w \in Workers |-> 0]

-----------------------------------------------------------------------------
(* Shorthands *)

CallOf(w) == call[cur[w]]
HandlerOf(w) == Handler[CallOf(w).route]
NameOf(c) == ModuleName(c.route, c.prot)
Aslr(c) == c.prot \in AslrProtections
UsesMpk(c) == c.prot \in CetProtections
\* Lucet enters a guest in the sandbox's domain if it was compiled for MPK.
EntryDomain(c) == IF UsesMpk(c) THEN "sandbox" ELSE "app"

\* Mistake: a plain static, one slot for all threads.
CellOfStatic(w) == CHOOSE v \in Workers : TRUE

\* CURRENT_RESULT is thread_local!: the slot a thread sees is its own.
CellOf(w) == w

\* Where the handler of a call begins.
FirstStep(c) ==
    CASE c.route = "stream" -> "stream"
      [] c.route \in Endpoints -> IF Handler[c.route].post THEN "body" ELSE "lookup"
      [] OTHER -> "respond"

Goto(w, label) == pc' = [pc EXCEPT ![w] = label]

\* The handler is over and its locals are dropped: sandbox, region, module.
Leave(w, label, answer) ==
    /\ Goto(w, label)
    /\ outcome' = [outcome EXCEPT ![cur[w]] = answer]
    /\ cur' = [cur EXCEPT ![w] = NoReq]
    /\ handle' = [handle EXCEPT ![w] = NoHandle]
    /\ region' = [region EXCEPT ![w] = FALSE]
    /\ instance' = [instance EXCEPT ![w] = "none"]
    /\ domain' = [domain EXCEPT ![w] = "app"]
    /\ saved' = [saved EXCEPT ![w] = "app"]
    /\ copied' = [copied EXCEPT ![w] = Empty]
    /\ reports' = [reports EXCEPT ![w] = 0]
    /\ UNCHANGED <<dirVars, call, stdinEof>>

\* `?' in a handler, or a failed guard: status 500 (404 for no route).
Fail(w) == Leave(w, "idle", [st |-> "error", res |-> Empty])
\* A panic unwinds the thread; nothing catches it and the connection closes.
Panic(w) == Leave(w, "dead", [st |-> "dropped", res |-> Empty])

-----------------------------------------------------------------------------
(* Clients, the standard input *)

Submit(r) ==
    /\ phase = "serving"
    /\ call[r] = NoCall
    /\ \E c \in Calls : call' = [call EXCEPT ![r] = c]
    /\ outcome' = [outcome EXCEPT ![r].st = "waiting"]
    /\ UNCHANGED <<dirVars, stdinEof, pc, cur, cell, handle, region, instance,
                   domain, saved, copied, reports>>

CloseStdin ==
    /\ ~stdinEof
    /\ stdinEof' = TRUE
    /\ UNCHANGED <<dirVars, call, outcome, pc, cur, cell, handle, region,
                   instance, domain, saved, copied, reports>>

-----------------------------------------------------------------------------
(* A worker takes a request and finds its route *)

Waiting(r) ==
    /\ call[r] # NoCall
    /\ outcome[r].st = "waiting"
    /\ \A w \in Workers : cur[w] # r

\* index, bytes and "no such route" are answered on the spot.
StaticAnswer(c) ==
    [st |-> IF c.route = "unrouted" THEN "error" ELSE "ok", res |-> Empty]

Accept(w, r) ==
    /\ pc[w] = "idle"
    /\ Waiting(r)
    /\ \/ /\ FirstStep(call[r]) = "respond"
          /\ outcome' = [outcome EXCEPT ![r] = StaticAnswer(call[r])]
          /\ UNCHANGED <<pc, cur>>
       \/ /\ FirstStep(call[r]) # "respond"
          /\ Goto(w, FirstStep(call[r]))
          /\ cur' = [cur EXCEPT ![w] = r]
          /\ UNCHANGED outcome
    /\ UNCHANGED <<dirVars, call, stdinEof, cell, handle, region, instance,
                   domain, saved, copied, reports>>

\* Stream::chunked(io::stdin(), 10): the worker is held until the input ends.
FinishStream(w) ==
    /\ pc[w] = "stream"
    /\ stdinEof
    /\ Leave(w, "idle", [st |-> "ok", res |-> Empty])
    /\ UNCHANGED cell

\* Mistake: the guard unwraps the result of read_to_string.
ReadBodyUnwraps(w) ==
    /\ pc[w] = "body"
    /\ \/ CallOf(w).body = "bad_raw" /\ Panic(w)
       \/ /\ CallOf(w).body # "bad_raw"
          /\ Goto(w, "decode")
          /\ UNCHANGED <<dirVars, call, outcome, stdinEof, cur, handle, region,
                         instance, domain, saved, copied, reports>>
    /\ UNCHANGED cell

\* StringCopy::from_data.  The read blocks, with no time limit, until the client
\* has sent the body or is gone: this step may never come.
ReadBody(w) ==
    /\ pc[w] = "body"
    /\ \/ CallOf(w).body = "bad_raw" /\ Fail(w)
       \/ /\ CallOf(w).body # "bad_raw"
          /\ Goto(w, "decode")
          /\ UNCHANGED <<dirVars, call, outcome, stdinEof, cur, handle, region,
                         instance, domain, saved, copied, reports>>
    /\ UNCHANGED cell

\* percent_decode_str(&str_data).decode_utf8()?
Decode(w) ==
    /\ pc[w] = "decode"
    /\ \/ CallOf(w).body = "bad_text" /\ Fail(w)
       \/ /\ CallOf(w).body # "bad_text"
          /\ Goto(w, "lookup")
          /\ UNCHANGED <<dirVars, call, outcome, stdinEof, cur, handle, region,
                         instance, domain, saved, copied, reports>>
    /\ UNCHANGED cell

-----------------------------------------------------------------------------
(* create_wasm_instance *)

\* Under ASLR the module is loaded from the disk for this request alone ...
LoadedFromDisk(name) ==
    IF files[name] \in Builds
    THEN [name |-> name, build |-> files[name], own |-> TRUE] ELSE NoHandle
\* Mistake: the file on the disk is taken for the one that was loaded.
TakenFromDisk(name) ==
    IF files[name] \in Builds
    THEN [name |-> name, build |-> files[name], own |-> FALSE] ELSE NoHandle
\* Mistake: a module that is not in the map is not noticed.
TakenUnchecked(name) == [name |-> name, build |-> GetModule(name), own |-> FALSE]
\* ... else the one loaded at boot is shared.
TakenFromMap(name) ==
    IF CanRead /\ GetModule(name) # Absent
    THEN [name |-> name, build |-> GetModule(name), own |-> FALSE] ELSE NoHandle
Found(c) == IF Aslr(c) THEN LoadedFromDisk(NameOf(c)) ELSE TakenFromMap(NameOf(c))

Lookup(w) ==
    /\ pc[w] = "lookup"
    /\ \/ Found(CallOf(w)) = NoHandle /\ Panic(w)
       \/ /\ Found(CallOf(w)) # NoHandle
          /\ handle' = [handle EXCEPT ![w] = Found(CallOf(w))]
          /\ Goto(w, "wasi")
          /\ UNCHANGED <<dirVars, call, outcome, stdinEof, cur, region, instance,
                         domain, saved, copied, reports>>
    /\ UNCHANGED cell

\* create_wasm_instance is over; an Err has dropped what it had made.
Returns(w, result) ==
    /\ instance' = [instance EXCEPT ![w] = result]
    /\ region' = [region EXCEPT ![w] = result = "ok"]
    /\ Goto(w, "reset")

\* The WASI context: File::open("/").unwrap() may panic, build()? refuses a NUL.
BuildWasi(w) ==
    /\ pc[w] = "wasi"
    /\ \/ HandlerOf(w).fileAccess /\ Panic(w)
       \/ /\ IF CallOf(w).body = "nul" THEN Returns(w, "err")
             ELSE Goto(w, "region") /\ UNCHANGED <<instance, region>>
          /\ UNCHANGED <<dirVars, call, outcome, stdinEof, cur, handle, domain,
                         saved, copied, reports>>
    /\ UNCHANGED cell

\* MmapRegion::create(..)?
CreateRegion(w) ==
    /\ pc[w] = "region"
    /\ \/ Returns(w, "err")
       \/ /\ region' = [region EXCEPT ![w] = TRUE]
          /\ Goto(w, "build")
          /\ UNCHANGED instance
    /\ UNCHANGED <<dirVars, call, outcome, stdinEof, cur, cell, handle, domain,
                   saved, copied, reports>>

\* new_instance_builder(module)...build()?
BuildInstance(w) ==
    /\ pc[w] = "build"
    /\ Returns(w, "ok") \/ Returns(w, "err")
    /\ UNCHANGED <<dirVars, call, outcome, stdinEof, cur, cell, handle, domain,
                   saved, copied, reports>>

-----------------------------------------------------------------------------
(* The rest of the handler *)

\* Mistake: the cell is trusted to be empty.
ResetCellMissing(w) ==
    /\ pc[w] = "reset"
    /\ Goto(w, "unwrap")
    /\ UNCHANGED <<dirVars, call, outcome, stdinEof, cur, cell, handle, region,
                   instance, domain, saved, copied, reports>>

\* CURRENT_RESULT is emptied, whether there is an instance or not.
ResetCell(w) ==
    /\ pc[w] = "reset"
    /\ cell' = [cell EXCEPT ![CellOf(w)] = Empty]
    /\ Goto(w, "unwrap")
    /\ UNCHANGED <<dirVars, call, outcome, stdinEof, cur, handle, region,
                   instance, domain, saved, copied, reports>>

\* instance?.run(..): an Err is answered, an instance runs.
RunInstance(w) ==
    /\ pc[w] = "unwrap"
    /\ \/ instance[w] = "err" /\ Fail(w)
       \/ /\ instance[w] = "ok"
          /\ domain' = [domain EXCEPT ![w] = EntryDomain(CallOf(w))]
          /\ Goto(w, "guest")
          /\ UNCHANGED <<dirVars, call, outcome, stdinEof, cur, handle, region,
                         instance, saved, copied, reports>>
    /\ UNCHANGED cell

\* The guest may report now, and in this variant of ModuleResult.
MayReport(w, kind) ==
    \/ CallOf(w).route \in Foreign /\ reports[w] < MaxReports
    \/ /\ CallOf(w).route \notin Foreign
       /\ reports[w] = 0
       /\ kind = GuestReports(CallOf(w).route)

\* Mistake: copy_data_out asks for the domain after it has lifted it.
HostcallCopyLate(w, kind) ==
    /\ pc[w] = "guest"
    /\ MayReport(w, kind)
    /\ copied' = [copied EXCEPT ![w] =
                     [kind |-> kind, owner |-> cur[w], handle |-> handle[w]]]
    /\ IF UsesMpk(CallOf(w))
       THEN /\ saved' = [saved EXCEPT ![w] = "all"]
            /\ domain' = [domain EXCEPT ![w] = "all"]
       ELSE UNCHANGED <<saved, domain>>
    /\ reports' = [reports EXCEPT ![w] = @ + 1]
    /\ Goto(w, "hostcall")
    /\ UNCHANGED <<dirVars, call, outcome, stdinEof, cur, cell, handle, region,
                   instance>>

\* A hostcall copies the report out of the guest's heap; copy_data_out lifts
\* the MPK protection for that, and keeps what it was ...
HostcallCopy(w, kind) ==
    /\ pc[w] = "guest"
    /\ MayReport(w, kind)
    /\ copied' = [copied EXCEPT ![w] =
                     [kind |-> kind, owner |-> cur[w], handle |-> handle[w]]]
    /\ IF UsesMpk(CallOf(w))
       THEN /\ saved' = [saved EXCEPT ![w] = domain[w]]
            /\ domain' = [domain EXCEPT ![w] = "all"]
       ELSE UNCHANGED <<saved, domain>>
    /\ reports' = [reports EXCEPT ![w] = @ + 1]
    /\ Goto(w, "hostcall")
    /\ UNCHANGED <<dirVars, call, outcome, stdinEof, cur, cell, handle, region,
                   instance>>

\* ... puts it back, and the hostcall replaces the content of the cell.
HostcallPublish(w) ==
    /\ pc[w] = "hostcall"
    /\ IF UsesMpk(CallOf(w))
       THEN domain' = [domain EXCEPT ![w] = saved[w]]
       ELSE UNCHANGED domain
    /\ cell' = [cell EXCEPT ![CellOf(w)] = copied[w]]
    /\ saved' = [saved EXCEPT ![w] = "app"]
    /\ copied' = [copied EXCEPT ![w] = Empty]
    /\ Goto(w, "guest")
    /\ UNCHANGED <<dirVars, call, outcome, stdinEof, cur, handle, region,
                   instance, reports>>

\* A foreign guest reports memory it has not mapped: the copy faults on the
\* host's side, which Lucet treats as fatal.
HostcallFault(w) ==
    /\ pc[w] = "hostcall"
    /\ CallOf(w).route \in Foreign
    /\ Panic(w)
    /\ UNCHANGED cell

\* A guest traps, aborts or exits with an error, before its report or after it:
\* run(..)? is an Err, and the cell stays as it is.
GuestFault(w) ==
    /\ pc[w] = "guest"
    /\ Fail(w)
    /\ UNCHANGED cell

\* Mistake: the instance has a name, and lives as long as the handler.
GuestReturnKeeps(w) ==
    /\ pc[w] = "guest"
    /\ CallOf(w).route \in Foreign \/ reports[w] = 1
    /\ domain' = [domain EXCEPT ![w] = "app"]
    /\ Goto(w, "take")
    /\ UNCHANGED <<dirVars, call, outcome, stdinEof, cur, cell, handle, region,
                   instance, saved, copied, reports>>

\* The guest returns from main; the instance is dropped with the statement.
\* A guest of src/modules has reported by then.
GuestReturn(w) ==
    /\ pc[w] = "guest"
    /\ CallOf(w).route \in Foreign \/ reports[w] = 1
    /\ handle' = [handle EXCEPT ![w] = NoHandle]
    /\ region' = [region EXCEPT ![w] = FALSE]
    /\ instance' = [instance EXCEPT ![w] = "none"]
    /\ domain' = [domain EXCEPT ![w] = "app"]
    /\ Goto(w, "take")
    /\ UNCHANGED <<dirVars, call, outcome, stdinEof, cur, cell, saved, copied, reports>>

\* Mistake: the clone is returned and the cell left full.
TakeResultKeeps(w) ==
    /\ pc[w] = "take"
    /\ \/ /\ cell[CellOf(w)].kind = HandlerOf(w).expects
          /\ Leave(w, "idle", [st |-> "ok", res |-> cell[CellOf(w)]])
       \/ /\ cell[CellOf(w)].kind # HandlerOf(w).expects
          /\ Panic(w)
    /\ UNCHANGED cell
\* Mistake: the handler waits for the report it expects.
TakeResultWaits(w) ==
    /\ pc[w] = "take"
    /\ cell[CellOf(w)].kind = HandlerOf(w).expects
    /\ Leave(w, "idle", [st |-> "ok", res |-> cell[CellOf(w)]])
    /\ cell' = [cell EXCEPT ![CellOf(w)] = Empty]

\* The match on CURRENT_RESULT: a clone is the answer and the cell is emptied,
\* or "Unexpected response from module".
TakeResult(w) ==
    /\ pc[w] = "take"
    /\ \/ /\ cell[CellOf(w)].kind = HandlerOf(w).expects
          /\ Leave(w, "idle", [st |-> "ok", res |-> cell[CellOf(w)]])
          /\ cell' = [cell EXCEPT ![CellOf(w)] = Empty]
       \/ /\ cell[CellOf(w)].kind # HandlerOf(w).expects
          /\ Panic(w)
          /\ UNCHANGED cell

\* The pool replaces a thread that panicked; the new one has a cell of its own.
Respawn(w) ==
    /\ pc[w] = "dead"
    /\ cell' = [cell EXCEPT ![CellOf(w)] = Empty]
    /\ Goto(w, "idle")
    /\ UNCHANGED <<dirVars, call, outcome, stdinEof, cur, handle, region,
                   instance, domain, saved, copied, reports>>

-----------------------------------------------------------------------------
Step(w) ==
    \/ \E r \in Reqs : Accept(w, r)
    \/ FinishStream(w)
    \/ ReadBody(w)
    \/ Decode(w)
    \/ Lookup(w)
    \/ BuildWasi(w)
    \/ CreateRegion(w)
    \/ BuildInstance(w)
    \/ ResetCell(w)
    \/ RunInstance(w)
    \/ \E kind \in {"ByteArray", "String"} : HostcallCopy(w, kind)
    \/ HostcallPublish(w)
    \/ HostcallFault(w)
    \/ GuestFault(w)
    \/ GuestReturn(w)
    \/ TakeResult(w)
    \/ Respawn(w)

Next ==
    \/ DirNext /\ UNCHANGED serverVars
    \/ \E r \in Reqs : Submit(r)
    \/ CloseStdin
    \/ \E w \in Workers : Step(w)

Spec == Init /\ [][Next]_vars

\* Threads are scheduled and the pool respawns them.  Nothing is assumed of the
\* clients, who may never send a body, of the standard input, or of the guests:
\* how long fib runs, say, is up to the query.
FairSpec ==
    Spec /\ \A w \in Workers : WF_vars(Step(w) /\ pc[w] \notin {"body", "guest"})

-----------------------------------------------------------------------------
(* Properties *)

Answered(r) == outcome[r].st \in {"ok", "error", "dropped"}
AsksModule(r) == call[r] # NoCall /\ call[r].route \in Endpoints

\* The answer of a handler is what the guest run for this very request
\* reported, by the module the query names and in the variant the handler
\* expects: never the leftover of an earlier request on the same thread, nor
\* the report of a guest on another thread.
OwnResult ==
    \A r \in Reqs :
        AsksModule(r) /\ outcome[r].st = "ok" =>
            /\ outcome[r].res.owner = r
            /\ outcome[r].res.handle # NoHandle
            /\ outcome[r].res.handle.name = NameOf(call[r])
            /\ outcome[r].res.kind = Handler[call[r].route].expects

\* Without ASLR every answer of a module comes from the one build that was
\* loaded at boot, however often make has replaced the file since.
OneBuildPerBoot ==
    \A r, s \in Reqs :
        /\ AsksModule(r) /\ AsksModule(s)
        /\ outcome[r].st = "ok" /\ outcome[s].st = "ok"
        /\ NameOf(call[r]) = NameOf(call[s])
        /\ ~Aslr(call[r])
        => outcome[r].res.handle = outcome[s].res.handle

\* A client loses its connection only to a missing module, a failing open of
\* "/", or a guest that is not the repository's: no earlier request, whatever
\* its end, makes a sound request panic.
NoSpuriousPanic ==
    \A r \in Reqs :
        outcome[r].st = "dropped" =>
            /\ AsksModule(r)
            /\ \/ call[r].route \in Foreign
               \/ Aslr(call[r])
               \/ Handler[call[r].route].fileAccess
               \/ mapg[NameOf(call[r])] = Absent

\* A thread between two requests holds a report only if the guest that made it
\* failed afterwards; the report of an answered request never stays behind.
LeftoverOnlyOfError ==
    \A w \in Workers :
        pc[w] = "idle" /\ cell[w] # Empty => outcome[cell[w].owner].st = "error"

\* 8 GiB of address space are given back however the request ends, and
\* before the handler looks at the result.
RegionsReleased ==
    \A w \in Workers :
        region[w] => pc[w] \in {"build", "reset", "unwrap", "guest", "hostcall"}

\* Guest code runs in the domain it was entered with, also after a hostcall
\* that lifted the protection; the copy itself runs with all memory open.
MpkRestored ==
    \A w \in Workers :
        /\ pc[w] = "guest" => domain[w] = EntryDomain(CallOf(w))
        /\ pc[w] = "hostcall" /\ UsesMpk(CallOf(w)) => domain[w] = "all"

\* The worker waits for the standard input or a client's body, or runs a guest:
\* the server sets no limit to any of these.
Held(w) ==
    \/ pc[w] = "stream" /\ ~stdinEof
    \/ pc[w] \in {"body", "guest", "hostcall"}

\* In the end every request that was sent is answered, or the worker that serves
\* it is held for ever, or all of them are: no request is lost to another that
\* merely ends badly, and one worker that is not held serves all the others.
NobodyStarves ==
    \A r \in Reqs :
        <>[]\/ call[r] = NoCall
            \/ Answered(r)
            \/ \E w \in Workers : cur[w] = r /\ Held(w)
            \/ \A w \in Workers : Held(w)
=============================================================================
