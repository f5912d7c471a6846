-------------------------- MODULE ServiceDirectory --------------------------
(***************************************************************************)
(* The module directory of the web server: src/src/service_directory.rs    *)
(* and the boot half of main() in src/src/main.rs.                         *)
(*                                                                         *)
(* load_dir scans the `modules' directory once, before the server listens, *)
(* and fills MODULE_MAP while it holds the map's write lock.  Beside the   *)
(* server, a developer may run src/modules/Makefile at any moment: it      *)
(* compiles, truncates and removes the very files the scan reads.          *)
(***************************************************************************)
EXTENDS Naturals, FiniteSets

CONSTANTS
    Names,      \* stems of the .so files the directory may hold
    Builds,     \* versions of a file that DlModule::load_aslr accepts
    Absent,     \* no such file, or no such key in the map
    Corrupt,    \* a file that is there and does not load
    Oddities,   \* the other kinds of entry a directory may hold
    MaxMakes    \* bound on the steps of make, for TLC

NotSo == "not_so"           \* an entry whose extension is not "so"
BadName == "bad_name"       \* a .so file whose name is not UTF-8
Unreadable == "unreadable"  \* an entry read_dir yields as an error

ASSUME DirectoryAssumption ==
    /\ Absent \notin Builds
    /\ Corrupt \notin Builds
    /\ Absent # Corrupt
    /\ Oddities \subseteq {NotSo, BadName, Unreadable}
    /\ MaxMakes \in Nat

FileStates == Builds \cup {Absent, Corrupt}
Phases == {"boot", "loading", "loaded", "serving", "crashed"}

VARIABLES
    phase,      \* where main() is
    files,      \* contents of the directory: the state of each file
    odd,        \* the other entries of the directory
    todo,       \* names there since the scan opened the directory, not yet visited
    late,       \* entries made or removed since then, which the scan may still yield
    oddTodo,    \* other entries the running scan has still to visit
    mapg,       \* MODULE_MAP: the build loaded under each name, or Absent
    mapLock,    \* the RwLock around the map
    makes,      \* how many steps make has taken
    held        \* ghost: the states of each file in which the scan may meet it

dirVars == <<phase, files, odd, todo, late, oddTodo, mapg, mapLock, makes, held>>

DirTypeOK ==
    /\ phase \in Phases
    /\ files \in [Names -> FileStates]
    /\ odd \subseteq Oddities
    /\ todo \subseteq Names
    /\ late \subseteq Names \X Nat
    /\ oddTodo \subseteq odd
    /\ mapg \in [Names -> Builds \cup {Absent}]
    /\ mapLock \in {"free", "write", "poisoned"}
    /\ makes \in Nat
    /\ held \in [Names -> SUBSET FileStates]

DirInit ==
    /\ phase = "boot"
    /\ files \in [Names -> FileStates]
    /\ odd \in SUBSET Oddities
    /\ todo = {}
    /\ late = {}
    /\ oddTodo = {}
    /\ mapg = [n \in Names |-> Absent]
    /\ mapLock = "free"
    /\ makes = 0
    /\ held = [n \in Names |-> {}]

-----------------------------------------------------------------------------
(* load_dir *)

\* A `?' in load_dir: the guard is dropped, main()'s unwrap ends the process.
LoadDirFails ==
    /\ phase' = "crashed"
    /\ mapLock' = "free"
    /\ UNCHANGED <<late, mapg, held>>

\* Mistake: the write guard is a temporary, gone at the end of its statement.
BeginLoadUnlocked ==
    /\ phase = "boot"
    /\ phase' = "loading"
    /\ mapLock' = "free"
    /\ todo' = {n \in Names : files[n] # Absent}
    /\ oddTodo' = odd
    /\ held' = [n \in Names |-> {files[n]}]
    /\ UNCHANGED <<files, odd, late, mapg, makes>>

\* MODULE_MAP.write() and read_dir, which opens the directory and reads nothing
\* yet: what is there now will be yielded, unless it is removed first.  The
\* directory may be missing.
BeginLoad ==
    /\ phase = "boot"
    /\ \/ /\ phase' = "loading"
          /\ mapLock' = "write"
          /\ todo' = {n \in Names : files[n] # Absent}
          /\ oddTodo' = odd
          /\ held' = [n \in Names |-> {files[n]}]
          /\ UNCHANGED <<late, mapg>>
       \/ LoadDirFails /\ UNCHANGED <<todo, oddTodo>>
    /\ UNCHANGED <<files, odd, makes>>

\* What a visit leaves in the map: a file that does not load is skipped.
Inserted(m, n) ==
    IF files[n] \in Builds THEN [m EXCEPT ![n] = files[n]] ELSE m

\* Mistake: a file that does not load ends the scan.
LoadEntryBreaks(n) ==
    /\ phase = "loading"
    /\ n \in todo
    /\ todo' = IF files[n] \in Builds THEN todo \ {n} ELSE {}
    /\ mapg' = Inserted(mapg, n)
    /\ UNCHANGED <<phase, files, odd, late, oddTodo, mapLock, makes, held>>

\* One turn of the loop, for an entry with extension "so".  The iterator yields
\* every entry that stayed, and it may yield one that came or went meanwhile.
LoadEntry(n) ==
    /\ phase = "loading"
    /\ \/ n \in todo /\ todo' = todo \ {n} /\ UNCHANGED late
       \/ \E e \in late : e[1] = n /\ late' = late \ {e} /\ UNCHANGED todo
    /\ mapg' = Inserted(mapg, n)
    /\ UNCHANGED <<phase, files, odd, oddTodo, mapLock, makes, held>>

\* Mistake: a directory walk that comes back to the entry it skipped.
SkipEntryAgain ==
    /\ phase = "loading"
    /\ NotSo \in oddTodo
    /\ UNCHANGED dirVars

\* One turn of the loop, for an entry with another extension.
SkipEntry ==
    /\ phase = "loading"
    /\ NotSo \in oddTodo
    /\ oddTodo' = oddTodo \ {NotSo}
    /\ UNCHANGED <<phase, files, odd, todo, late, mapg, mapLock, makes, held>>

\* `entry?' on an entry that could not be read.
EntryError ==
    /\ phase = "loading"
    /\ Unreadable \in oddTodo
    /\ oddTodo' = oddTodo \ {Unreadable}
    /\ LoadDirFails
    /\ UNCHANGED <<files, odd, todo, makes>>

\* filename.to_str().unwrap() panics with the write guard alive.
EntryPanic ==
    /\ phase = "loading"
    /\ BadName \in oddTodo
    /\ oddTodo' = oddTodo \ {BadName}
    /\ phase' = "crashed"
    /\ mapLock' = "poisoned"
    /\ UNCHANGED <<files, odd, todo, late, mapg, makes, held>>

\* Mistake: the server starts while the scan is still running.
EndLoadEarly ==
    /\ phase = "loading"
    /\ phase' = "loaded"
    /\ mapLock' = "free"
    /\ UNCHANGED <<files, odd, todo, late, oddTodo, mapg, makes, held>>

\* The iterator is at its end, with what came too late unseen.
EndLoad ==
    /\ phase = "loading"
    /\ todo = {}
    /\ oddTodo = {}
    /\ late' = {}
    /\ phase' = "loaded"
    /\ mapLock' = "free"
    /\ UNCHANGED <<files, odd, todo, oddTodo, mapg, makes, held>>

\* aslr_library_preload and rocket::ignite().launch(), whose socket may be taken.
\* The map is as it will stay, and the ghost of no more use.
Launch ==
    /\ phase = "loaded"
    /\ phase' \in {"serving", "crashed"}
    /\ held' = [n \in Names |-> {}]
    /\ UNCHANGED <<files, odd, todo, late, oddTodo, mapg, mapLock, makes>>

Boot ==
    \/ BeginLoad
    \/ \E n \in Names : LoadEntry(n)
    \/ SkipEntry
    \/ EntryError
    \/ EntryPanic
    \/ EndLoad
    \/ Launch

-----------------------------------------------------------------------------
(* get_module: the read lock is taken, one entry cloned, the lock released. *)

CanRead == mapLock = "free"
GetModule(n) == mapg[n]

-----------------------------------------------------------------------------
(* src/modules/Makefile, run beside the server *)

\* The scan may still come to an entry of that name.
Coming(n) == n \in todo \/ \E e \in late : e[1] = n

\* An entry made during the scan may be yielded or not, once; so may one that is
\* removed before its turn, since the iterator reads ahead.
BecomesLate(n, f) ==
    /\ phase = "loading"
    /\ IF f = Absent THEN n \in todo ELSE files[n] = Absent

Changed(n, f) ==
    /\ makes < MaxMakes
    /\ makes' = makes + 1
    /\ files' = [files EXCEPT ![n] = f]
    /\ todo' = IF f = Absent THEN todo \ {n} ELSE todo
    /\ late' = IF BecomesLate(n, f) THEN late \cup {<<n, makes'>>} ELSE late
    /\ held' = IF Coming(n)' THEN [held EXCEPT ![n] = @ \cup {f}] ELSE held
    /\ UNCHANGED <<phase, odd, oddTodo, mapg, mapLock>>

\* lucetc -o opens and truncates its output ...
StartLucetc(n) == files[n] # Corrupt /\ Changed(n, Corrupt)
\* ... and some time later has written it.
FinishLucetc(n) == \E b \in Builds : files[n] = Corrupt /\ Changed(n, b)
\* One file of `rm -f *.so'.
CleanOne(n) == files[n] # Absent /\ Changed(n, Absent)

Make == \E n \in Names : StartLucetc(n) \/ FinishLucetc(n) \/ CleanOne(n)

-----------------------------------------------------------------------------
DirNext == Boot \/ Make
DirSpec == DirInit /\ [][DirNext]_dirVars
FairDirSpec == DirSpec /\ WF_dirVars(Boot)

-----------------------------------------------------------------------------
(* Properties *)

\* The map holds of each file a build that was on the disk while the scan could
\* come to it; and once the scan is past a file, only one that at some moment of
\* the scan did not load, or was not there, is missing.  So a file make leaves
\* alone is in the map exactly if it loads, as the build it is: no bad neighbour
\* and no order of the entries keeps a good module out.
ScanComplete ==
    phase \in {"loading", "loaded"} =>
        \A n \in Names :
            /\ mapg[n] # Absent => mapg[n] \in held[n]
            /\ n \notin todo /\ mapg[n] = Absent => ~(held[n] \subseteq Builds)

\* A server that accepts requests finished its scan, let go of the write lock
\* (get_module's read().unwrap() would panic on a poisoned one), and met no entry
\* load_dir answers with `?' or a panic.
ServingMeansScanned ==
    phase = "serving" =>
        /\ CanRead
        /\ todo = {}
        /\ oddTodo = {}
        /\ odd \subseteq {NotSo}

\* The map changes only under the write lock, and only before the server
\* listens: the worker threads share it without ever waiting for a writer.
MapWrittenUnderLock ==
    [][mapg' # mapg => mapLock = "write" /\ phase = "loading"]_dirVars

\* The boot ends, one way or the other, whatever the directory holds and
\* however make interferes with the scan.
BootEnds == <>(phase \in {"serving", "crashed"})
=============================================================================
