# A verification of the HFI/Spectre web server

The repository is a benchmark web server. It serves a few HTTP routes, and each
of its workloads runs in a WebAssembly sandbox (Lucet) that is created for the
request and dropped after it. The modules here model that server in TLA+, TLC
checks them on small instances, and TLAPS proves the main safety properties for
any number of threads, requests and modules. The second half of the project is about the
programs in the sandboxes that have state worth checking: the tensor memory of `tflite`, the
template engine, the XML converter and the JPEG guest.

## 1. The system

| component | state | operations | what is hard |
|---|---|---|---|
| service directory, `src/service_directory.rs`, boot half of `main` | `MODULE_MAP` under an `RwLock`; the files of `modules/` | `load_dir` (once, before the server listens), `get_module` (every request without ASLR) | one bad entry among good ones, errors and panics inside the scan with the lock held, `make` changing files under the scan |
| sandbox creation, `src/wasm_module.rs` | one `MmapRegion` of 8 GiB, one instance, one WASI context per request | `create_wasm_instance` | four places to fail, two of them panics; a module from memory or from a disk that changes |
| handlers and hostcalls, `src/main.rs` | `CURRENT_RESULT`, one cell per thread; the MPK domain of the thread | ten routes, `server_module_bytearr_result`, `server_module_string_result`, `copy_data_out` | a result passed through a side channel, threads reused by later requests, early returns that skip the clean-up |
| request body, `StringCopy` in `src/main.rs` | the string read so far | `from_data`, `percent_decode_str`, `decode_utf8` | chunks, the cut at `LIMIT`, two clients that encode differently |
| `/stream` | standard input of the process | `Stream::chunked` | holds a worker for as long as the input lasts |
| module build, `modules/Makefile` | the `.so` files | `lucetc`, `clean` | runs beside the server |
| guests, `modules/*` | their own heap | `main`, one report each | decide when and what is reported, may fault before or after |
| tensor memory of `tflite`: `GreedyMemoryPlanner`, `MicroAllocator`, `SimpleMemoryAllocator`, `MicroInterpreter` | buffers with lifetimes and offsets; head and tail of a 24 MiB arena; scratch buffer handles | `AddBuffer`, plan, questions; `AllocateTensors` (also as a retry), `Invoke` | lifetimes found by a walk backwards, memory shared by tensors that do not live together, temporaries between two ends that grow, failures half way |
| template engine, `Jinja2CppLight` | the map of values, which loops change | `setValue`, `render` | read in one pass with look-ups, rendered in another; nesting; errors that abort |
| `jpeg_resize_c` and libjpeg's memory destination | image buffer; output block, doubled when full | `read_JPEG_file`, `write_JPEG_file`, `empty_mem_output_buffer` | a pointer moved while it is in use, allocations that fail, a status that lies |
| XML converter, `xml2json.hpp` | the value under construction | one recursive function | repeated names become arrays |
| benchmark clients, `request_spectre_test.js`, `wrk_scripts/*.lua` | none | send requests | one encodes bodies, the other does not |
| benchmark harness, `wrk_scripts/runall*.sh`, `spectre_testfib.sh` | background server, result files | start, test, warm up, measure, kill | readiness, errors that are ignored, files overwritten |
| analysis, `*_analysis.py` | none | tabulate results | offline |
| other vendored code (the rest of TensorFlow, libjpeg's codec, rapidxml, rapidjson, gtest) | | | not the program's own logic |

How they meet: `main` runs `load_dir` and then Rocket. A worker thread of
Rocket's server takes a connection, parses the route, reads the body if there
is one (`StringCopy`), and calls the handler. The handler calls
`create_wasm_instance`, which takes the module from `MODULE_MAP` or, if the
`protection` parameter contains `_aslr`, from the disk. The handler empties
`CURRENT_RESULT`, runs the guest **on the same thread**, and the guest calls a
hostcall which copies the report out of the sandbox into `CURRENT_RESULT`. When
the guest returns, the handler clones the cell's content as the answer and
empties the cell again. The client never talks to the guest; the guest never
learns whose request it serves. Everything depends on the cell holding the right
report at the right moment.

What correctness means, component by component:

- directory: every module that loads and stays is in the map, nothing else is, and no
  thread reads the map while it is written (`ScanComplete`,
  `ServingMeansScanned`, `MapWrittenUnderLock`, `BootEnds`);
- request path: an answer is the report of this request, of the named module, in
  the right variant (`OwnResult`); nothing of one request is seen by the next
  (`LeftoverOnlyOfError`, `NoSpuriousPanic`); a sandbox is given back however
  the request ends (`RegionsReleased`); the guest never goes on with the memory
  protection lifted (`MpkRestored`); rebuilt modules do not mix with loaded ones
  (`OneBuildPerBoot`); every request is answered (`NobodyStarves`);
- harness: a test is measured on its own server, its figures are the measured
  ones, and no server is left behind (`OneServer`, `ResultsAreMeasured`,
  `NoServerLeft`);
- XML converter: the value follows the rules of its README (`FollowsTheRules`,
  `NamesUnique`);
- tensor memory: tensors and scratch buffers that live together share no memory
  (`NoOverlap`), the plan is the one the header promises (`FirstGap`) and covers all buffers
  asked about (`PlanCovers`); what counts in the end is that every operator finds its operands as
  they were written (`OperandsIntact`, `WorkingSetApart`, `ResultsIntact`), that nothing
  in the arena overlaps (`RegionsApart`, `TemporariesApart`, `HandlesIndexed`), and that it ends
  (`PlanEnds`, `InferenceEnds`);
- template engine: the result is what the template means, loops leave no variable behind, and
  it ends (`RendersTheMeaning`, `VariablesScoped`, `RenderEnds`);
- JPEG guest: the report is what the compressor wrote, from the rows that were decoded, and
  no freed memory is used (`ResultIsStream`, `RowsInPlace`, `OneLiveBlock`);
- body: the guest gets what the client meant, or an error, or (over `LIMIT`)
  its beginning (`EncodedTextArrives`, `CutTextIsPrefix`, `RawTextArrives`).

The hazards are listed, line by line with the properties that watch them, in
`PROJECT.json`.

## 2. The modules

| module | models |
|---|---|
| `ServiceDirectory` | `load_dir`, `get_module`, the boot in `main`, `make` beside them |
| `RequestBody` | `StringCopy::from_data`, percent and UTF-8 decoding, what the clients send |
| `Webserver` (extends `ServiceDirectory`) | the handlers, `create_wasm_instance`, the hostcalls, the pool of threads |
| `ResponseService` | the abstract service: what a client may rely on |
| `WebserverRefinement` | the refinement mapping from `Webserver` to `ResponseService` |
| `BenchHarness` | `runall.sh` and its variants, the servers they launch, wrk, Ctrl-C |
| `Xml2Json` | the converter of the guest `xml_to_json` |
| `Xml2JsonRules` (extends `Xml2Json`) | the rules it promises to follow |
| `MemoryPlanner` | `GreedyMemoryPlanner` of the tflite guest |
| `Inference` (extends `MemoryPlanner`) | lifetimes, plan, commit and the run of the operators |
| `TensorArena` | the two-ended arena and everything `AllocateTensors` takes from it |
| `Template` | the template engine of the guest `html_template` |
| `TemplateMeaning` (extends `Template`) | what a template stands for |
| `JpegGuest` | the guest `jpeg_resize_c` with libjpeg's memory destination |
| `MC...`, one for each of the above that is run | values for TLC |
| `Webserver_proofs` (with `ServiceDirectory` and the refinement), `Inference_proofs` (with `MemoryPlanner`), `BenchHarness_proofs`, `TensorArena_proofs`, `JpegGuest_proofs`, `RequestBody_proofs`, `Xml2Json_proofs`, `Template_proofs` | theorems |

**`ServiceDirectory`.** `files` is the directory on disk: each module file is
absent, corrupt (it does not load; also a file being written) or one of the
builds. `odd` holds the other entries: one without the extension `so`, one whose
name is not UTF-8, one `read_dir` yields as an error. `BeginLoad` is
`MODULE_MAP.write()` and `read_dir`; `LoadEntry` and `SkipEntry` are turns of the
loop, in any order, since `read_dir` promises none; `EntryError` is `entry?`,
`EntryPanic` the `unwrap` on the name; `EndLoad` drops the guard; `Launch` starts
Rocket. After `LoadDirFails` the `unwrap` in `main` ends the process. `make` is an
environment: `lucetc` truncates its output (`StartLucetc`), writes it
(`FinishLucetc`), and `clean` removes files one by one. A linker that removes its output and makes
it anew is two such steps.

`read_dir` is lazy: it opens the directory, and the entries are read as the loop asks for them. What
POSIX promises of that is that an entry which is there from the opening to the end is yielded; one that is
added or removed meanwhile may be yielded or not. So `todo` are the files that have been there since the
opening and are still to come, and `late` the entries that came or went since then (each with the step of `make`
that brought it, so that a name removed and made again can be visited twice). `LoadEntry` takes an entry from
either; `EndLoad` waits for `todo` only. `held` is a ghost: the states of each file in which the scan could
meet it. `ScanComplete` says that the map holds a build from among these, and that a file which the scan has passed
and which is not in the map was, at some moment of the scan, absent or unfit to load.

**`Webserver`.** One `pc` per worker; the steps of a request are the statements
of a handler, in its order:

| action | code |
|---|---|
| `Accept` | Rocket finds the route; `index`, `bytes` and unrouted paths are answered on the spot |
| `ReadBody`, `Decode` | `StringCopy`, which waits for the client, and `decode_utf8()?` of the two POST routes |
| `Lookup` | `get_module` or `DlModule::load_aslr`; a missing module is a panic |
| `BuildWasi`, `CreateRegion`, `BuildInstance` | the rest of `create_wasm_instance`, each with its failure |
| `ResetCell` | `CURRENT_RESULT` set to `None`, **before** the error of the creation is looked at |
| `RunInstance` | `instance?.run(..)` |
| `HostcallCopy`, `HostcallPublish`, `HostcallFault` | a hostcall: copy under lifted MPK protection, then the cell |
| `GuestFault`, `GuestReturn` | `run(..)?` is an error, or the guest has returned and the instance is dropped |
| `TakeResult` | the `match` on the cell and the second reset, or the panic |
| `FinishStream` | `/stream`, which ends with standard input |
| `Respawn` | the pool replaces a thread that panicked |

The seven handlers differ in three things, so they are seven records (`JpegResizeC`
to `XmlToJson`): the method, the variant of `ModuleResult` they want, and whether
files are opened. A `ModuleResult` carries two ghosts, the request on whose behalf
it was made and the module that made it; no guard reads them. The guests of
`src/modules` report once, through one hostcall each (`GuestReports`). The
constant `Foreign` names endpoints whose module is something else, as any file put
into `modules/` may be: such a guest reports nothing, several times, or through
the other hostcall.

**`RequestBody`.** The only module in which bytes are bytes, because its
properties are about a conversion. Its five classes of body are the ones
`Webserver` takes as input. `Utf8From`, `DecodedFrom` and `EncodedFrom` are recursive functions
over the places of an octet string, from its end; `Type` lets the client make up any text of at most `MaxText`
octets, so the run covers all of them.

**`BenchHarness`.** The script is sequential, and its tests (workloads times
protections, in the order of the two loops) are numbered. Each command of `run_test`
is an action; the server of test `t`, launched with `&`, is process `t`, and boots,
fails to bind, crashes or obeys SIGTERM in its own time, so that the three seconds of
`sleep 3` may or may not be enough. wrk connects to whatever listens, or ends at once
and leaves the result file of an earlier invocation as it was. Nothing reads an exit
status (the ERR trap is not inherited by functions), so the smoke test has no effect.
Ctrl-C may come at any moment: wrk takes it for the end of its run, background
processes of a script ignore it, and the traps end the rest.

**`Xml2Json`.** `xml2json_traverse_node` with its recursion on an explicit stack: a
frame is a call with its place in the loop over the children, its `name_count` and its
object; around it, `VisitTop` and `PlaceTop` are the loop of `xml2json` over the top-level nodes. The members of
an object are a sequence, and `RemoveMember` puts the last one in
the place of the one removed, as rapidjson does. Texts are opaque. A name is a sequence of pieces, as the code
puts `@` before the name of an attribute and rapidxml takes `<@x/>` and `<#text/>` for elements: keys can meet. rapidxml
is external: it drops text that is only white space, makes one data node of a
text, keeps an attribute that an element repeats, and minds neither several top-level nodes nor a
CDATA section among them.

Two keys of one object are the same in the two cases that `NamesUnique` excepts: an attribute that an element repeats, and a
child with the key of an attribute (`<e x=""><@x/></e>`), which is added without a look at what is there, or, from the second such
child on, is put into an array with whatever `FindMember` finds. `<#text/>` beside a text is no such case: both
are counted under one key. Top-level nodes are not counted at all: those of one name become members of one
name (lines 256-264), and never an array. Rule 6 of the README of xml2json is about the children of an element and
says nothing of them; the converter's own `test_track_1.xml` and `test_track_3.xml` have several.

`ByRules`, in a module of its own
because it is a RECURSIVE operator, is the reference for the value of each top-level node, written from the table in the
README of xml2json, with no order among members. Where that table is silent (a lone CDATA section) it agrees
with the code; of an element with a child that has an attribute's key it asks nothing.

**`MemoryPlanner`.** A plan is made in turns of the loops of `CalculateOffsetsIfNeeded`:
`Compare` and `PassAgain` are the bubble sort, `PlaceLargest` the first buffer, and then, for each
buffer, `PassEntry` looks at one entry of the list and `Place` breaks the loop and inserts the
entry. `placed` is the linked list, `prior` the entry the search stands on, `candidate` the
offset it has come to. `AddBuffer` may come between plans and makes the old one stale.
Buffers are numbered from 1.

**`Inference`.** `Init` is the first half of `AddTensors`; `LifetimesOfOperator` one turn of its loop
over the operators, last one first; `CheckLifetimes` the loop that follows with
`AddScratchBuffers`; `CreatePlan`, `CheckSize` and `CommitPlan` the functions of those names, with
the planner's own steps (`MakePlan`) where the code asks it. Then main fills the input and
`InvokeOperator` runs an operator. Memory maps each cell of the arena to the entry whose
contents it holds, and a kernel overwrites the cells of its outputs and scratch buffers: an
allocation is right if what a kernel then finds in its inputs is still theirs. The model
file is external; `WellFormed` is what it promises (operators in an order in which tensors are
made before they are used, each made once).

**`TensorArena`.** The other half of the same code: not who shares memory, but where memory comes
from. Head and tail move towards each other; `persistent`, `activations` and
`temporaries` are ghosts that remember what was handed out. The phases are the stages of
`AllocateTensors`, any of which may fail, and `AllocateTensors` may be called again. How much is
asked for is open.

**`Template`.** A source is a sequence of tokens. `EatCode`, `EatOpening`, `EatEnd`, `EatLast` and
`EatError` are the branches of `eatSection`, whose recursion is the stack `open`; the `Render...`,
`EndTurn`, `EndIf` and `EndRoot` actions are the `render` methods of the sections, whose recursion is the
stack `frames`. Every throw is an abort, as the header's macro makes it. `Meaning`, in
`TemplateMeaning`, is the reference: what a template stands for, by recursion on its sections, with values substituted
instead of bound. Of an `if` the repository says two things. The engine's README (line 31, "if statements - partially: only
if variable exists or not") and a comment of its header (`Jinja2CppLight.h:350`, of `if not`) have it ask whether the variable
exists; `computeExpression` asks for its value as well, so that a 0 and an empty text or list count as missing. `Template` does
what the code does. The reference takes no side: `Senses` has both, and `RendersTheMeaning` asks that the result is what the template
stands for in one of them, the same for every `if`.

**`JpegGuest`.** `main`, `read_JPEG_file` and `write_JPEG_file` statement by statement, and below the
codec the memory destination: `EmitByte` is the macro of `jchuff.c`, which calls
`empty_mem_output_buffer` when the block is full. A byte is known by the row it was
made from; how many there are is open. Blocks are numbered, and a freed one stays in the
model, so that a use of it would be seen.

**External assumptions**, modelled from how the code uses them. Rocket 0.4 on hyper
0.10 catches no panic of a handler: the worker thread unwinds, its connection is
closed without an answer (`dropped`), and the pool starts a new thread with a new
`thread_local` cell. A Lucet instance runs on the thread that calls `run`, enters
the guest in the sandbox's MPK domain if the protection contains `cet`, and is
released when its handle is dropped. A fault on the host's side of a hostcall is
fatal to the request. `percent_decode_str` leaves a `%` alone that starts no
escape; `encodeURI` escapes every octet that is not an URI character.

**Mistakes.** Operators headed `Mistake:` are not part of the model. Each is the
operator after it with a plausible bug: a reset left out, a lock guard dropped
early, a check forgotten. They exist to show that the properties notice.

## 3. The runs

All runs have `CHECK_DEADLOCK FALSE`: clients stop sending, a boot that failed is over,
and so are a script, a conversion, an allocation, a rendering and a guest at their end; a planner that is full
and has answered has nothing to do.

| run | question | bounds | size |
|---|---|---|---|
| `directory` | does the scan load the good modules, whatever is beside them and however the directory changes under it, and end? | 2 files, 2 builds, all 3 odd entries, 4 steps of make; `WF(Boot)` | 644 000 states |
| `body` | does the text arrive? | every text of up to 4 of 8 octets, every chunking, `Limit` 7 | 78 000 |
| `requests` | does every request leave the server sound, which build answers while make runs, and does the request path implement `ResponseService`? | 2 threads, 2 requests, 2 builds, 2 steps of make; every body class, a foreign guest loaded from the disk that reports at most once, an unrouted path | 291 000 |
| `threads` | do threads and consecutive requests keep apart, and is every request answered? | 2 threads, 3 requests: streams, and POSTs whose body need not come, for a foreign guest under MPK that reports up to twice and need not end; fairness of workers but for these waits | 118 000 |
| `harness` | what do tests do to each other, and to what is left behind? | 3 tests, one without a warm-up | 710 |
| `xml` | does the conversion follow its rules? | a root with up to 4 children of 8 forms (6 of them for 4 children), one of them nested and two with the key of an attribute or of a text, and with no attribute, one, or one twice; or up to 3 top-level nodes of 4 forms | 141 000 |
| `planner` | is every plan sound, and made? | up to 4 buffers, 3 sizes, lifetimes in 3 steps; a plan after any of them | 643 000 |
| `inference` | does every operator find its operands? | 768 models: 3 operators, 5 tensors, up to 3 scratch buffers, sizes 1 and 3 with alignment 2 | 21 900 |
| `arena` | does the arena hold what it gives out? | 15 cells, off alignment at its start; requests of 0 and 3 cells | 61 000 |
| `template` | is the result what the template means? | every source of up to 2 tokens, 5 700 of 5 and 6, the guest's; 5 maps of values | 163 000 |
| `jpeg` | is the report what was compressed? | 3 rows, blocks of 2, 4, 8 and 16 bytes, 9 bytes; arguments in range, out of it and 0 | 36 500 |

One run ends in a violation: `jpegmalloc` (`FailedReadAborts`). `jpeg_resize_c.c:185` says "Reading JPEG failed" and
aborts if the image could not be read; after "Memory alloc failure" (line 141) `read_JPEG_file`
returns 1, its value for success. The run shows `main` go on, the compressor read a row through the null
pointer, and the report made of it.

Three more statements of the repository were found not to hold while the models were written. They have
no run, since each is visible in one line of the code: `micro_allocator.h:96` says `used_bytes` returns
0 until `FinishTensorAllocation`, but it does not after a failure in the constructor;
`Jinja2CppLight/README.md:31` and `Jinja2CppLight.h:350` say that an `if` asks only whether the variable exists, but
`{% if its %}` with `its` set to 0 is passed over (`Jinja2CppLight.cpp:337`); and
`jpeg_resize_c.c:172` asks for a "valid non zero uint32_t", but any text that begins with a number other
than zero is taken.

Why the bounds suffice. A leak from one request into a later one on a thread needs
one to leave something and one to see it, a third to come between them; two threads are what it takes
for guests to interfere, and two requests that hold their workers with a third waiting for all workers to be
held: `threads` has three requests on two threads. The handlers called are one with a body, one with files and one of
the repository under a foreign module; that of `jpeg_resize_c`, which wants the other variant of the report, is like them in
everything else, and there the proofs alone speak of it. A replaced module needs two steps of make, one that
truncates the file and one that writes it. Two builds are what it takes to tell old from
new. Two files have a neighbour, before or behind; with four steps of make one can be removed under the scan, made
again and written while the scan still has the other ahead of it, and be met in each of these states. `Limit` 7 lets an encoded
text of three octets be cut at every place of an escape (`%C2%A0`), and `MaxText` 4
lets it be over the limit. The octets of `MCRequestBody` are those
that spell escapes of NUL, of a lead and of a continuation octet, and the octets
themselves, so every class of body occurs. Three tests have one before and one after, and both
sorts of workload. Four children make a third repetition after a member was moved by a
removal; three top-level nodes repeat a name with another one between or behind. A search for a gap meets a gap that is too small, one that fits and one that would have
fitted only an earlier end with three buffers placed and a fourth to place. In three operators a
tensor can skip one (a residual connection), die early, or be an early result; sizes 1 and 3 are
below and above the alignment. The arena of 15 cells has room for a failed attempt, a second
one, and two handles. Templates of six tokens nest two sections or put two in a row with a
use after them, which is what scoping needs; the guest's own has 29. Nine bytes pass blocks
of 2, 4 and 8, and fill one to its last byte. The proofs remove the bounds for all safety
properties of `ServiceDirectory`, `Webserver`, `BenchHarness`, `MemoryPlanner`, `Inference`,
`TensorArena`, `JpegGuest` and `RequestBody`, for `NamesUnique` and `VariablesScoped`, and for what
`FollowsTheRules` and `RendersTheMeaning` say. What is left to the bounds is liveness, and of that the termination
measures are proved as well: they fall with every step, whatever the size of the instance.

`MaxMakes` and `MaxReports` cap what has no bound in the program: how often make
runs and how often a foreign guest reports. `MaxStream` caps the bytes that are
compressed, and `LONG_MAX` is the width of a long. `MaxBuffers` is the code's own limit.

Symmetry over workers, requests and builds, which the model only compares, is used in `requests`
alone. Its one `PROPERTY`, `ServiceSpec`, is a safety formula that names no element. The runs with
liveness use none.

**Fairness.** `FairSpec` has weak fairness of the steps of every worker, except where it waits for something that
is not the server's: in `body` for the client (`main.rs:116` reads until the body has come, and Rocket 0.4.4 sets no
limit of time), in `guest` for a computation whose length the request may choose (`fib`). The rest the
operating system and the pool bring about, by scheduling the threads and replacing those that panicked. It is per worker,
not per action, so it does not promise that any particular failure does or does not happen.
Nothing is assumed of clients, of guests, of standard input or of make. `FairDirSpec` has weak
fairness of `Boot`: the main thread runs. In `BenchHarness`, `FairSpec` has weak fairness
of the script, whose commands all have a duration, and of each server process (it ends
its boot, and ends on SIGTERM); crashes and Ctrl-C need never happen. `NobodyStarves` has the exceptions the
code has: a request whose own worker is held for ever, by a stream, a body that does not come or a guest that
does not end (`Held`), is not answered, and if all workers are held, the rest waits. The planner, an inference and a rendering
run on the one thread of their guest: `PlanEnds`, `InferenceEnds` and `RenderEnds` assume weak fairness
of their steps (of a plan once it was asked for, not of the client's questions) and nothing
else.

The type invariants of `ServiceDirectory`, `BenchHarness`, `MemoryPlanner` and `TensorArena` are in no
run of their own: they are proved (section 4), and the first is a conjunct of `Webserver`'s `TypeOK`. `OwnResult`
is checked in `threads`; in `requests` it follows from `ServiceSpec`, whose answers carry the request, the module and the
variant.

Every property of every passing run has a mutant in `PROJECT.json`: the run with one
definition replaced by its mistaken form, in which TLC finds the property violated.

## 4. The proofs

Everything is proved from the named assumptions: `DirectoryAssumption`, `ServerAssumption`
and `HarnessAssumption` (the sentinels differ from real values, the module a call names
has a name in `Names`, the bounds are natural numbers), `PlannerAssumption` (sizes are natural
numbers), `InferenceAssumption` (models are well-formed), `ArenaAssumption` (the arena holds at least
its allocator, and requests are smaller than the addresses in it), `JpegAssumption`
(an image has a row, a block a byte), `BodyAssumption` (texts consist of octets, their bounds are natural numbers), `DocsAssumption` (the
top-level nodes of a document and the children of a node are nodes), `SourcesAssumption` (a template is a sequence) and `ValuesAssumption` (the bounds
of its loops and the integers among the values are integers, tuples have a length). TLC evaluates each in every run of its module.

| theorem | of | says |
|---|---|---|
| `DirTypeCorrect`, `ScanIsComplete`, `ServerIsScanned`, `MapIsWrittenUnderLock` | `DirSpec` | the type and the three safety properties of the directory |
| `TypeCorrect` | `Spec` | `TypeOK` |
| `AnswersAreOwn`, `AnswersShareTheBuild`, `PanicsHaveCause`, `LeftoversAreOfErrors`, `RegionsAreReleased`, `MpkIsRestored` | `Spec` | the safety properties of the request path |
| `HarnessTypeCorrect`, `ServersTakeTurns`, `WarmupIsOverwritten` | `Spec` of `BenchHarness` | the type and the safety properties of the scripts |
| `Implements` | `Spec` | `Spec => ServiceSpec`, the refinement |
| `BootsGetCloser`, `RequestsGetCloser`, `ScriptsWindDown` | `DirSpec`, `Spec`, `Spec` of `BenchHarness` | what is left of a boot (on a finite directory), of a request and of the scripts falls, and nothing raises it, but for the files `make` creates under the scan |
| `TypeCorrect`, `NeverOverlap`, `LowestOffset`, `PlansCover` | `PlannerSpec` | the planner, for any buffers |
| `PlansGetCloser`, `SearchesGoOn`, `InferencesGetCloser`, `RanksAreWellFounded` | `PlannerSpec`, `Spec` of `Inference` | no search is stuck; what is left of a plan and of an inference falls, in an order in which nothing falls forever |
| `InferenceTypeCorrect`, `OperandsAreIntact`, `WorkingSetsApart`, `ResultsAreIntact` | `Spec` of `Inference` | the tensors of any model |
| `ArenaTypeCorrect`, `RegionsNeverOverlap`, `TemporariesNeverOverlap`, `HandlesAreIndexed` | `Spec` of `TensorArena` | any arena and any requests |
| `TheResultIsTheStream`, `OneBlockIsLive`, `RowsAreInPlace` | `Spec` of `JpegGuest` | any image, any output |
| `BodyTypeCorrect`, `TheTextArrives`, `TheCutIsAPrefix`, `TheRawTextArrives` | `Spec` of `RequestBody` | any text, limit and chunks |
| `NamesAreUnique`, `ConversionsFollowTheRules` | `Spec` of `Xml2Json` | any document, with any number of top-level nodes |
| `TheVariablesAreScoped`, `TheMeaningIsRendered`, `TemplateInvariant` | `Spec` of `Template` | any template and values |
| `RenderingsGetCloser`, `RanksAreWellFounded` | `Spec` of `Template` | what is left of a rendering falls, in an order in which nothing falls forever |

*Directory.* None of the three properties is inductive. `DirInv` adds who holds the
lock in which phase (`LockInv`), that a file the scan may still come to is in a state that `held` has
recorded (`PendingInv`, so that what a visit inserts is among them, and a visit that inserts nothing is explained),
and that no entry which ends the scan has been passed (`PassedInv`).

*Request path.* `Base` is the typing, `DirInv`, and the fact that no request
exists before the server listens, after which the map and the phase are fixed.
On top of it, `WorkerOK(w)` says what is true at each `pc`: which request the worker
serves, that no other worker serves it, what the cell may hold (nothing from the
reset up to the first report; then only a report made for `cur[w]` by `handle[w]`),
that the copy in a hostcall belongs to the request too, that an idle worker holds no
region, and the domain it runs in. `AnswerOK(r)` says what an answer given is. The
content of the cell **before** the reset is anything a failed request may have left,
which is why the first reset matters and is why `OwnResult` cannot be proved of the
cell alone. One step per action; the safety properties then follow from `Inv`
without looking at actions.

*Refinement.* `open` is `phase = "serving"`, `catalog` the map once it serves. `Launch`
maps to `Open`, `Submit` to `Submit`, every step that gives an answer to `Answer`, the
rest to stutters; that answers are among `Answers(r)` is `Inv`.

*Harness.* `ServerInv` says that the servers of earlier tests are gone, those of later
ones not yet launched; so what wrk reaches is the test's own server (`ClientInv`), and
once the measured run is over the file holds it (`FileInv`, which must also speak of
the places `kill` and `wait` of the test under way). `ScriptsWindDown` is what `NoServerLeft` rests on: each command
lowers the number of those left (`ScriptRank`) and each event of a server brings it further from its launch
to its end (`ServerRank`); the server that `wait` waits for has been told to end or has ended, so that the wait is not in
vain; and once the script has ended no server is left that would go on by itself.

*Termination of requests and of the boot.* `WorkRank` counts the steps a worker has left until it is idle: the statements of
`create_wasm_instance` and of the handler, two steps for each report its guest may still make, the thread's
replacement. `RequestsGetCloser` says that only the worker's own steps change it, and lower it; that an
idle worker's step takes a waiting request; and that a request that was taken waits for no second worker, so
that a request is neither lost nor served twice when threads die. `BootRank` counts the entries `load_dir` has
still to visit, those that came late among them. As `read_dir` is lazy, `make` can prolong the scan: by one turn for
each file it creates while the scan runs (`Creates`), and not by anything else it does. So a boot ends if `make` comes to
an end, or lags behind; in the run that is the bound `MaxMakes`.

*Planner.* The invariant says that `ids` is a permutation of the buffers whose placed part is
that of the list, that the list is sorted by offset, and, of the search, that everything
alive with the wanted buffer up to the prior entry ends at or before the candidate offset
once that entry is taken in, and that at every smaller offset the buffer would hit one of those.
`Place` then gives `NoOverlap` (what follows in the list begins after the gap) and `FirstGap`.
Of the sort the proof needs that its result is a permutation.

That a plan comes to its end is a rank of three numbers (`PlanRank`), compared from the left: the stage; in the sort the
inversions left, one more if this pass has swapped, and the comparisons left of the pass; in the search the buffers
left and the entries left. A swap of two neighbours removes exactly one inversion (`SwapSorts`), so the pass
that a swap makes necessary is paid for by it. This is where the comparison matters: if equal sizes were
swapped too, no inversion would go away. `SearchesGoOn` adds that the loops which look for the next entry alive at
the same time, and for the buffer's place in the list, find one; they have no other end.

*Inference.* Built on the planner's invariant: every step is a planner's step or leaves the
planner alone. `LifeInv` says what a backwards walk that has come to `op` knows of first and last
uses, `GraphInv` what that means once it is over (operands are alive at their operators), `SlotInv` that
counting entries leads to the buffer handed in, `PtrInv` that pointers are the planner's
offsets and fit, and `MemInv` that an entry that was written and is still to be used lies in memory
in full. Overwriting needs two entries alive at one operator on the same cell, which `NeverOverlap`
excludes. Each step lowers `StepsLeft` (operators to walk back over, entries to hand to the planner and to commit,
operators to run), but for those of the planner, which lower `PlanRank`.

*Arena.* `LayoutInv` bounds what is at the tail by `tail` and what is at the head by `head`, with
the temporaries between them; `HandleInv` says that handles are in steps of their size above
the newest one.

*JPEG guest.* The invariant ties the block in use to the stream and to `free_in_buffer`, and
the rows in the image buffer to the counter.

*Body.* What the actions do is simple (`BodyInv`: what was read is a beginning of the body, and the argument
is made of all of it); the theorems are about the conversions. Decoding undoes encoding because the
encoded text is ASCII and `%` itself is escaped, so that every escape in it is one the encoder made
(`OctetArrives`, `TextArrives`). A text cut by the limit is cut between two
octets of the text or inside one escape, of which at most two octets are left (`CutOctet`,
`CutArrives`). These are inductions over the places of a text, from its end. They are made
by a least counterexample: `Induct` says that a set of numbers that holds 0 and each number's successor holds
them all, from `WFMin` of the library, and `InductFromTheEnd` turns it round. That the three
recursive functions satisfy their definitions is proved in the same way (`FromTheEnd` builds such
a function place by place).

*Converter.* `StackInv` says of every call on the stack that a key has been counted exactly if one of its children has
been placed, the child under way once more (`LoopInv`), and that the members are the attributes
and the keys placed, each once unless the document gives it twice (`Shared`; `MembersInv`). So a
count above 1 means that `FindMember` finds a member (`MemberFound`), and what
`xml2json_to_array_form` then does to the names is to swap two of them (`ArrayFormSwaps`); a count of 1
means that the key is new, unless it is that of an attribute too. `DocInv` says that the members of `js_doc` are the top-level nodes
passed so far, in their order and with their names.

`ConversionsFollowTheRules` states the rules without recursion: `ObeysTheRules(R)` says that a relation `R` between
nodes and values obeys them, and the value of each top-level node is related to it by every such relation, hence by the
smallest; `TopsByRules` says so of the members of `js_doc`. Of an element with a child that has the key of one of its attributes
(`Clashes`) `ObeysTheRules` asks only that it becomes an object, whatever its members: no rule says more. (`FollowsTheRules` is the case in which `R` relates a node to the values that are
`ByRules` of it but for the order of members.) The invariant (`RulesInv`) is that of every frame in the loop: its children so far have become values
that `R` allows and that are no arrays, and each member is an attribute or gathers, in the order of the document,
the values of all children of its key so far (`ValuesInv`). A child that is placed leaves the members of other keys as they
are (`MemberStays`), and starts its own (`FirstOfAKey`) or grows it (`FurtherOfAKey`, `GathersNext`): here it matters
that no value of a child is an array, which `Grown` would otherwise extend instead of wrap.

*Template.* `SectionsNest` says that of two sections that were read one lies in the other or behind it, where
an open one has no end yet; it holds because the sections still open are in the order in which they began.
Hence a section that is rendered inside another ends before it (`InsideTheSection`), the root is at the
bottom of `frames` and nowhere else, and every frame stays inside its section (`FrameInv`). `Scoped`, which is
`VariablesScoped` of any frames and values, is then kept by entering and leaving a section.

`TheMeaningIsRendered` states without recursion what a template stands for: `ObeysTheMeaning(R)` says which stretches
of tokens are whole (`ObeysTheNesting`), what a stretch stands for with which values (`ObeysTheText`, with `if` in the sense of `computeExpression`), and what the
first turns of a loop stand for (`ObeysTheTurns`). If `render` ends, each `R` that obeys these, hence
the smallest, has all the tokens whole and the result as what they stand for; in the smallest a stretch stands for one
text at most, as the token that is next and the values decide how it goes on. It speaks of the client's values only
(`Count`, `Value`), while the engine looks up a loop's tuple among those and the variables of the loops around it:
`TurnsAreCounted`, from `Scoped`, says that this is the same. The invariant is `MeaningInv`. While the
source is read, all between the sections that are open is whole (`NestInv`). While it is rendered there is a part for
each frame: its values, what was written before it, what its earlier turns stand for and what its present turn has
written so far; the parts follow from one another (`Follows`), and the result is what the innermost has
before it and has itself (`Written`). A section that ends hands its turns to the part before it (`LeaveMeaning`), with
the values that part had: binding and erasing a variable leave no trace.

If the engine aborts instead, each such `R`, hence the smallest, shows the reason. While the source is read (`CannotBeRead`),
reading has come to something unknown, to a loop over what the client has not set, to an end
that does not match the section it would end, or to the end of the text inside a section (`ReadErrorMeaning`).
After that (`CannotBeRendered`) the source is whole, and rendering has come, with the values it then
has, to a name that is not there or to a loop whose variable is (`RenderErrorMeaning`). In the smallest `R`
only the places that reading and rendering really come to are related, so an error in a part that is never rendered, or in the body of a
loop without turns, is no reason.

A rendering ends because of `RenderRank`: the turns and the tokens left in every open section, the outermost
first. A token passed lowers the innermost pair, a new turn trades tokens for a turn, entering a section adds pairs only
behind the one that has moved on, and leaving one takes its pair away. Sections cannot lie deeper in one another than
the template has tokens (`Ranked`), and sequences of bounded length are well-founded in this order
(`RanksAreWellFounded`, by induction on the depth).

Model-checked only: `BootEnds`, `NobodyStarves`, `NoServerLeft`, `PlanEnds`, `InferenceEnds` and
`RenderEnds`, as liveness under fairness and `ENABLED` are out of the prover's reach. What they rest on is proved: for each
a rank over a well-founded order that every step of the thing that must end lowers and no other
step raises. What remains with TLC is that such a step stays possible until the end, and the way from there, with
fairness, to the temporal formula; for `NobodyStarves` also that the requests which wait get their turn, which
needs the fairness of all workers. `FollowsTheRules` and `RendersTheMeaning` are model-checked as they
stand, since their references are RECURSIVE operators over a tree and over nested sections, about which the prover can be
told nothing; what they say is proved in the form of relations, as described above.

## 5. What is not modelled

- Placement in memory (ASLR, page and heap layout): every build behaves alike, so
  the boot's own test for `_aslr` in the file name, line 23 of `service_directory.rs`,
  has no effect in the model. Nor are the cycle-level protections the benchmark
  measures.
- Sizes: the 4 GiB heap in its 8 GiB reservation, the rounding of the globals, the
  32-bit pointers of a report. They are arithmetic without a state: base + 32-bit pointer +
  32-bit length is below base + 8 GiB whatever the guest says.
- `panic!("wasm module yielded?")`: no hostcall that is linked yields, so
  `is_returned` is true whenever `run` is `Ok`.
- Connections: a request is one connection, which begins when its head has been read. Idle and keep-alive
  connections and heads that come slowly hold a thread of hyper too, and are left out, as are a client that leaves during
  the answer and the server being killed. A body that comes slowly or never is in `Webserver` (`ReadBody` need not happen), a
  disconnect while it is read in `RequestBody`.
- How several streams share standard input.
- The pure computations of guests: `fib` on 32-bit numbers, the hash and its comparison, the bitmap's
  conversion to floats, the kernels of tflite, libjpeg's codec. In `Webserver` a guest is when and how it
  reports.
- Overflow of the planner's `int` offsets: sizes sum up to far less than the 24 MiB arena.
  Optional tensors (index -1), several subgraphs, and models whose operators are out of order.
- The text of a template: splitting it into tokens, with the accesses past the end of a split that a `{{`
  without `}}` or a `for` without its words makes; floats as values.
- libjpeg's other destinations, and its error manager beyond that it exits.
- The figures: the analysis scripts, and what wrk measures.
- The vendored libraries. Nearly all of the repository's 1.6 million lines are TensorFlow, of which
  the guest links the interpreter, the allocator and kernels under `lite/micro`, then
  libjpeg, gtest and generated tables; the program's own code is some 2 000 lines of Rust, C++, shell and
  JavaScript. So the map covers most of what the server does and a negligible share of the
  files that lie beside it.

## 6. Plan

1. Done: directory, request path, body, abstract service, harness, XML converter, memory planner,
   inference, tensor arena, template engine, JPEG guest; proofs about all of them.
2. Open: several `/stream` requests on one standard input; the lexer of the template engine; `InitializeRuntimeTensor`
   with its quantization structures as separate steps of `TensorArena`; the sizes of `wasm_module.rs`.
