-------------------------- MODULE Webserver_proofs --------------------------
(***************************************************************************)
(* Proofs about the server: its module directory, for every set of names,  *)
(* of builds and of odd entries and any amount of interference by make;    *)
(* its request path, for every number of threads, of requests and of       *)
(* modules, whatever foreign guests do; and that the whole implements      *)
(* ResponseService.                                                        *)
(***************************************************************************)
EXTENDS WebserverRefinement, FiniteSetTheorems, TLAPS

-----------------------------------------------------------------------------
(* The module directory *)

\* The write lock is held exactly while the scan runs, or died with it.
LockInv ==
    /\ phase = "loading" => mapLock = "write"
    /\ phase \in {"boot", "loaded", "serving"} => mapLock = "free"

\* A file the scan may still come to is in one of the states held records of it.
PendingInv ==
    /\ phase = "boot" => mapg = [n \in Names |-> Absent]
    /\ phase = "loading" => \A n \in Names : Coming(n) => files[n] \in held[n]

\* Entries that end the scan were not among those it has passed.
PassedInv ==
    /\ phase \in {"loading", "loaded", "serving"} => odd \ oddTodo \subseteq {NotSo}
    /\ phase \in {"loaded", "serving"} => todo = {} /\ oddTodo = {}

DirInv ==
    /\ DirTypeOK
    /\ LockInv
    /\ PendingInv
    /\ PassedInv
    /\ ScanComplete

-----------------------------------------------------------------------------
(* Inserting the result of a visit keeps the map a map of builds. *)
LEMMA InsertedType ==
    ASSUME DirTypeOK, NEW n \in Names
    PROVE  /\ Inserted(mapg, n) \in [Names -> Builds \cup {Absent}]
           /\ \A m \in Names \ {n} : Inserted(mapg, n)[m] = mapg[m]
           /\ Inserted(mapg, n)[n] = IF files[n] \in Builds THEN files[n] ELSE mapg[n]
  BY DEF DirTypeOK, Inserted

(* The type of the directory's state, at the start and after each step. *)
LEMMA DirTypeInit == DirInit => DirTypeOK
  BY DirectoryAssumption DEF DirInit, DirTypeOK, Phases, FileStates

LEMMA DirTypeStep == DirTypeOK /\ [DirNext]_dirVars => DirTypeOK'
<1> SUFFICES ASSUME DirTypeOK, [DirNext]_dirVars PROVE DirTypeOK'
  OBVIOUS
<1> USE DEF DirTypeOK, Phases
<1>1. CASE BeginLoad
  BY <1>1 DEF BeginLoad, LoadDirFails
<1>2. ASSUME NEW n \in Names, LoadEntry(n) PROVE DirTypeOK'
  <2>1. mapg' \in [Names -> Builds \cup {Absent}]
    BY <1>2, InsertedType DEF LoadEntry
  <2> QED
    BY <1>2, <2>1 DEF LoadEntry
<1>3. CASE SkipEntry
  BY <1>3 DEF SkipEntry
<1>4. CASE EntryError
  BY <1>4 DEF EntryError, LoadDirFails
<1>5. CASE EntryPanic
  BY <1>5 DEF EntryPanic
<1>6. CASE EndLoad
  BY <1>6 DEF EndLoad
<1>7. CASE Launch
  BY <1>7 DEF Launch
<1>8. ASSUME NEW n \in Names, NEW f \in FileStates, Changed(n, f) PROVE DirTypeOK'
  BY <1>8 DEF Changed, FileStates
<1>9. CASE Make
  BY <1>8, <1>9 DEF Make, StartLucetc, FinishLucetc, CleanOne, FileStates
<1>10. CASE UNCHANGED dirVars
  BY <1>10 DEF dirVars
<1> QED
  BY <1>1, <1>2, <1>3, <1>4, <1>5, <1>6, <1>7, <1>9, <1>10 DEF DirNext, Boot

-----------------------------------------------------------------------------
(* make and the scan *)

\* What make does to a file leaves the others as they are; of this one the scan
\* either records the new state, or cannot come to it.
LEMMA ChangedFrame ==
    ASSUME DirTypeOK, NEW n \in Names, NEW f \in FileStates, Changed(n, f)
    PROVE  /\ UNCHANGED <<phase, odd, oddTodo, mapg, mapLock>>
           /\ todo' \subseteq todo
           /\ \A m \in Names : held[m] \subseteq held'[m]
           /\ \A m \in Names \ {n} : /\ files'[m] = files[m]
                                     /\ m \in todo' <=> m \in todo
                                     /\ Coming(m)' => Coming(m)
           /\ files'[n] = f
           /\ Coming(n)' => f \in held'[n]
           /\ phase = "loading" /\ n \in todo => Coming(n)'
           /\ n \in todo /\ n \notin todo' => f = Absent
<1>1. \A e \in late' : e \in late \/ e[1] = n
  BY DEF Changed
<1>2. phase = "loading" /\ n \in todo => Coming(n)'
  <2> SUFFICES ASSUME phase = "loading", n \in todo, f = Absent PROVE Coming(n)'
    BY DEF Changed, Coming
  <2>1. <<n, makes'>> \in late'
    BY DEF Changed, BecomesLate
  <2> QED
    BY <2>1 DEF Coming
<1>3. /\ \A m \in Names : held[m] \subseteq held'[m]
      /\ Coming(n)' => f \in held'[n]
  <2>1. CASE Coming(n)'
    BY <2>1 DEF Changed, DirTypeOK
  <2>2. CASE ~Coming(n)'
    BY <2>2 DEF Changed
  <2> QED
    BY <2>1, <2>2
<1>4. \A m \in Names \ {n} : /\ files'[m] = files[m]
                             /\ m \in todo' <=> m \in todo
                             /\ Coming(m)' => Coming(m)
  BY <1>1 DEF Changed, Coming, DirTypeOK
<1> QED
  BY <1>2, <1>3, <1>4 DEF Changed, DirTypeOK

\* So make keeps what is known of the scan.
LEMMA ChangedKeeps ==
    ASSUME DirTypeOK, LockInv, PendingInv, PassedInv, ScanComplete,
           NEW n \in Names, NEW f \in FileStates, Changed(n, f)
    PROVE  LockInv' /\ PendingInv' /\ PassedInv' /\ ScanComplete'
<1>1. LockInv'
  BY ChangedFrame DEF LockInv
<1>2. PendingInv'
  BY ChangedFrame DEF PendingInv
<1>3. PassedInv'
  BY ChangedFrame DEF PassedInv
<1>4. ScanComplete'
  <2> SUFFICES ASSUME phase' \in {"loading", "loaded"}, NEW m \in Names
               PROVE  /\ mapg'[m] # Absent => mapg'[m] \in held'[m]
                      /\ m \notin todo' /\ mapg'[m] = Absent => ~(held'[m] \subseteq Builds)
    BY DEF ScanComplete
  <2>1. mapg'[m] # Absent => mapg'[m] \in held'[m]
    BY ChangedFrame DEF ScanComplete
  <2>2. ASSUME m \notin todo', mapg'[m] = Absent PROVE ~(held'[m] \subseteq Builds)
    <3>1. CASE m \notin todo
      BY <2>2, <3>1, ChangedFrame DEF ScanComplete
    <3>2. CASE m \in todo
      <4>1. m = n /\ f = Absent
        BY <2>2, <3>2, ChangedFrame
      <4>2. phase = "loading"
        BY <3>2, ChangedFrame DEF PassedInv
      <4>3. Absent \in held'[n]
        BY <3>2, <4>1, <4>2, ChangedFrame
      <4> QED
        BY <4>1, <4>3, DirectoryAssumption
    <3> QED
      BY <3>1, <3>2
  <2> QED
    BY <2>1, <2>2
<1> QED
  BY <1>1, <1>2, <1>3, <1>4

-----------------------------------------------------------------------------
LEMMA DirInvInit == DirInit => DirInv
  BY DirTypeInit, DirectoryAssumption
  DEF DirInit, DirInv, LockInv, PendingInv, PassedInv, ScanComplete

LEMMA DirInvStep == DirInv /\ [DirNext]_dirVars => DirInv'
<1> SUFFICES ASSUME DirInv, [DirNext]_dirVars PROVE DirInv'
  OBVIOUS
<1>0. DirTypeOK'
  BY DirTypeStep DEF DirInv
<1> USE DEF LockInv, PendingInv, PassedInv, ScanComplete
<1>1. CASE BeginLoad
  BY <1>0, <1>1, DirectoryAssumption
  DEF BeginLoad, LoadDirFails, DirInv, DirTypeOK, FileStates
<1>2. ASSUME NEW n \in Names, LoadEntry(n) PROVE DirInv'
  <2>1. /\ phase = "loading" /\ phase' = "loading" /\ mapg' = Inserted(mapg, n)
        /\ UNCHANGED <<files, held, odd, oddTodo, mapLock>>
        /\ todo \ {n} \subseteq todo' /\ todo' \subseteq todo /\ late' \subseteq late
        /\ Coming(n)
    BY <1>2 DEF LoadEntry, Coming
  <2>2. files[n] \in held[n]
    BY <2>1 DEF DirInv
  <2>3. PendingInv'
    BY <2>1 DEF DirInv, Coming
  <2>4. ScanComplete'
    <3> SUFFICES ASSUME NEW m \in Names
                 PROVE  /\ mapg'[m] # Absent => mapg'[m] \in held[m]
                        /\ m \notin todo' /\ mapg'[m] = Absent => ~(held[m] \subseteq Builds)
      BY <2>1
    <3>0. /\ mapg'[n] = IF files[n] \in Builds THEN files[n] ELSE mapg[n]
          /\ m # n => mapg'[m] = mapg[m]
      BY <2>1, InsertedType DEF DirInv
    <3>1. CASE m = n
      <4>1. CASE files[n] \in Builds
        BY <2>2, <3>0, <3>1, <4>1, DirectoryAssumption
      <4>2. CASE files[n] \notin Builds
        BY <2>1, <2>2, <3>0, <3>1, <4>2 DEF DirInv
      <4> QED
        BY <4>1, <4>2
    <3>2. CASE m # n
      BY <2>1, <3>0, <3>2 DEF DirInv
    <3> QED
      BY <3>1, <3>2
  <2> QED
    BY <1>0, <2>1, <2>3, <2>4 DEF DirInv
<1>3. CASE SkipEntry
  BY <1>0, <1>3 DEF SkipEntry, DirInv, Coming
<1>4. CASE EntryError
  BY <1>0, <1>4 DEF EntryError, LoadDirFails, DirInv
<1>5. CASE EntryPanic
  BY <1>0, <1>5 DEF EntryPanic, DirInv
<1>6. CASE EndLoad
  BY <1>0, <1>6 DEF EndLoad, DirInv
<1>7. CASE Launch
  BY <1>0, <1>7 DEF Launch, DirInv
<1>8. ASSUME NEW n \in Names, NEW f \in FileStates, Changed(n, f) PROVE DirInv'
  BY <1>0, <1>8, ChangedKeeps DEF DirInv
<1>9. CASE Make
  BY <1>8, <1>9 DEF Make, StartLucetc, FinishLucetc, CleanOne, FileStates
<1>10. CASE UNCHANGED dirVars
  BY <1>0, <1>10 DEF dirVars, DirInv, Coming
<1> QED
  BY <1>1, <1>2, <1>3, <1>4, <1>5, <1>6, <1>7, <1>9, <1>10 DEF DirNext, Boot

-----------------------------------------------------------------------------
(* The directory, the map and the scan have their types, whatever make does. *)
THEOREM DirTypeCorrect == DirSpec => []DirTypeOK
  BY DirTypeInit, DirTypeStep, PTL DEF DirSpec

(* Whatever make does during the scan (load_dir): the map holds only builds  *)
(* the scan could meet on the disk, and a file is missing only if the scan   *)
(* could meet it in a state that does not load.                              *)
THEOREM ScanIsComplete == DirSpec => []ScanComplete
<1>1. DirInit => DirInv
  BY DirInvInit
<1>2. DirInv /\ [DirNext]_dirVars => DirInv'
  BY DirInvStep
<1>3. DirInv => ScanComplete
  BY DEF DirInv
<1> QED
  BY <1>1, <1>2, <1>3, PTL DEF DirSpec

(* A server that listens has ended its scan and released the map: no lookup  *)
(* of get_module finds the lock taken or poisoned.                           *)
THEOREM ServerIsScanned == DirSpec => []ServingMeansScanned
<1>1. DirInit => DirInv
  BY DirInvInit
<1>2. DirInv /\ [DirNext]_dirVars => DirInv'
  BY DirInvStep
<1>3. DirInv => ServingMeansScanned
  BY DEF DirInv, LockInv, PassedInv, ServingMeansScanned, CanRead
<1> QED
  BY <1>1, <1>2, <1>3, PTL DEF DirSpec

(* MODULE_MAP is written under its lock, by the scan alone.                  *)
THEOREM MapIsWrittenUnderLock == DirSpec => MapWrittenUnderLock
<1>1. DirInit => DirInv
  BY DirInvInit
<1>2. DirInv /\ [DirNext]_dirVars => DirInv'
  BY DirInvStep
<1>3. DirInv /\ [DirNext]_dirVars
        => [mapg' # mapg => mapLock = "write" /\ phase = "loading"]_dirVars
  <2> SUFFICES ASSUME DirInv, DirNext, mapg' # mapg
               PROVE  mapLock = "write" /\ phase = "loading"
    OBVIOUS
  <2>1. \E n \in Names : LoadEntry(n)
    BY DEF DirNext, Boot, BeginLoad, LoadDirFails, SkipEntry, EntryError, EntryPanic,
           EndLoad, Launch, Make, StartLucetc, FinishLucetc, CleanOne, Changed
  <2> QED
    BY <2>1 DEF LoadEntry, DirInv, LockInv
<1> QED
  BY <1>1, <1>2, <1>3, PTL DEF DirSpec, MapWrittenUnderLock

-----------------------------------------------------------------------------
(* The boot comes to its end, whatever make does to the directory. *)

\* How many statements main() has ahead of it at most until it serves or ends, as
\* the directory is now.
BootRank ==
    CASE phase = "boot"    -> Cardinality(Names) + Cardinality(Oddities) + 3
      [] phase = "loading" -> Cardinality(todo) + Cardinality(late) + Cardinality(oddTodo) + 2
      [] phase = "loaded"  -> 1
      [] OTHER             -> 0

\* A file is created.
Creates == \E n \in Names : files[n] = Absent /\ files'[n] # Absent

\* The boot gets closer to its end with every step of its own.  make throws it
\* back by one entry for each file it creates during the scan, and not otherwise.
BootCloser ==
    /\ Boot => BootRank' < BootRank
    /\ Make => BootRank' = IF phase = "loading" /\ Creates THEN BootRank + 1 ELSE BootRank

\* Entries made or removed during the scan are finitely many, and each is known
\* by the step of make that made or removed it.
LateInv ==
    /\ DirTypeOK
    /\ IsFiniteSet(late)
    /\ \A e \in late : e[2] <= makes
    /\ phase = "boot" => late = {}

LEMMA OdditiesAreFinite == IsFiniteSet(Oddities)
<1>1. IsFiniteSet({NotSo, BadName, Unreadable})
  <2>1. IsFiniteSet({} \cup {NotSo} \cup {BadName} \cup {Unreadable})
    BY FS_EmptySet, FS_AddElement
  <2>2. {} \cup {NotSo} \cup {BadName} \cup {Unreadable} = {NotSo, BadName, Unreadable}
    OBVIOUS
  <2> QED
    BY <2>1, <2>2
<1> QED
  BY <1>1, FS_Subset, DirectoryAssumption

\* What is left of the directory is finite, and no more than all of it.
LEMMA LeftInDirectory ==
    ASSUME IsFiniteSet(Names), NEW F \in SUBSET Names, NEW O \in SUBSET Oddities
    PROVE  /\ IsFiniteSet(F) /\ IsFiniteSet(O)
           /\ Cardinality(F) \in Nat /\ Cardinality(O) \in Nat
           /\ Cardinality(Names) \in Nat /\ Cardinality(Oddities) \in Nat
           /\ Cardinality(F) <= Cardinality(Names)
           /\ Cardinality(O) <= Cardinality(Oddities)
<1>1. IsFiniteSet(F) /\ Cardinality(F) <= Cardinality(Names)
  BY FS_Subset
<1>2. IsFiniteSet(O) /\ Cardinality(O) <= Cardinality(Oddities)
  BY OdditiesAreFinite, FS_Subset
<1> QED
  BY <1>1, <1>2, OdditiesAreFinite, FS_CardinalityType

LEMMA BootRankType ==
    ASSUME IsFiniteSet(Names), LateInv
    PROVE  BootRank \in Nat
<1>1. todo \in SUBSET Names /\ oddTodo \in SUBSET Oddities
  BY DEF LateInv, DirTypeOK
<1>2. Cardinality(late) \in Nat
  BY FS_CardinalityType DEF LateInv
<1> QED
  BY <1>1, <1>2, LeftInDirectory DEF BootRank

LEMMA LateInit == DirInit => LateInv
  BY DirTypeInit, FS_EmptySet DEF DirInit, LateInv

LEMMA LateStep == LateInv /\ [DirNext]_dirVars => LateInv'
<1> SUFFICES ASSUME LateInv, [DirNext]_dirVars PROVE LateInv'
  OBVIOUS
<1>0. DirTypeOK'
  BY DirTypeStep DEF LateInv
<1>1. CASE BeginLoad
  BY <1>0, <1>1 DEF LateInv, BeginLoad, LoadDirFails
<1>2. ASSUME NEW n \in Names, LoadEntry(n) PROVE LateInv'
  <2>1. late' \subseteq late /\ UNCHANGED <<makes, phase>> /\ phase = "loading"
    BY <1>2 DEF LoadEntry
  <2>2. IsFiniteSet(late')
    BY <2>1, FS_Subset DEF LateInv
  <2> QED
    BY <1>0, <2>1, <2>2 DEF LateInv
<1>3. CASE SkipEntry \/ EntryError \/ EntryPanic \/ Launch \/ UNCHANGED dirVars
  BY <1>0, <1>3 DEF LateInv, SkipEntry, EntryError, EntryPanic, LoadDirFails, Launch, dirVars
<1>4. CASE EndLoad
  BY <1>0, <1>4, FS_EmptySet DEF LateInv, EndLoad
<1>5. ASSUME NEW n \in Names, NEW f \in FileStates, Changed(n, f) PROVE LateInv'
  <2>1. UNCHANGED phase /\ makes \in Nat /\ makes' = makes + 1
    BY <1>5 DEF Changed, LateInv, DirTypeOK
  <2>2. CASE late' = late
    BY <1>0, <2>1, <2>2 DEF LateInv, DirTypeOK
  <2>3. CASE late' = late \cup {<<n, makes'>>} /\ phase = "loading"
    <3>1. IsFiniteSet(late')
      BY <2>3, FS_AddElement DEF LateInv
    <3>2. \A e \in late' : e[2] <= makes'
      BY <1>0, <2>1, <2>3 DEF LateInv, DirTypeOK
    <3> QED
      BY <1>0, <2>1, <2>3, <3>1, <3>2 DEF LateInv
  <2> QED
    BY <1>5, <2>2, <2>3 DEF Changed, BecomesLate
<1>6. CASE Make
  BY <1>5, <1>6 DEF Make, StartLucetc, FinishLucetc, CleanOne, FileStates
<1> QED
  BY <1>1, <1>2, <1>3, <1>4, <1>6 DEF DirNext, Boot

LEMMA BootFalls ==
    ASSUME IsFiniteSet(Names), LateInv, Boot
    PROVE  BootRank' < BootRank
<1>0. todo \in SUBSET Names /\ oddTodo \in SUBSET Oddities
  BY DEF LateInv, DirTypeOK
<1>a. /\ IsFiniteSet(todo) /\ IsFiniteSet(late) /\ IsFiniteSet(oddTodo)
      /\ Cardinality(todo) \in Nat /\ Cardinality(late) \in Nat /\ Cardinality(oddTodo) \in Nat
      /\ Cardinality(Names) \in Nat /\ Cardinality(Oddities) \in Nat
  BY <1>0, LeftInDirectory, FS_CardinalityType DEF LateInv
<1>1. CASE BeginLoad
  <2>1. CASE phase' = "crashed"
    BY <1>1, <1>a, <2>1 DEF BeginLoad, BootRank
  <2>2. CASE phase' = "loading"
    <3>1. todo' \in SUBSET Names /\ oddTodo' \in SUBSET Oddities /\ late' = {}
      BY <1>1, <2>2 DEF BeginLoad, LoadDirFails, LateInv, DirTypeOK
    <3>2. /\ Cardinality(todo') \in Nat /\ Cardinality(oddTodo') \in Nat
          /\ Cardinality(todo') <= Cardinality(Names)
          /\ Cardinality(oddTodo') <= Cardinality(Oddities)
          /\ Cardinality(late') = 0
      BY <3>1, LeftInDirectory, FS_EmptySet
    <3>3. BootRank' = Cardinality(todo') + Cardinality(late') + Cardinality(oddTodo') + 2
      BY <2>2 DEF BootRank
    <3>4. BootRank = Cardinality(Names) + Cardinality(Oddities) + 3
      BY <1>1 DEF BeginLoad, BootRank
    <3> QED
      BY <1>a, <3>2, <3>3, <3>4
  <2> QED
    BY <1>1, <2>1, <2>2 DEF BeginLoad, LoadDirFails
<1>2. ASSUME NEW n \in Names, LoadEntry(n) PROVE BootRank' < BootRank
  <2>0. phase = "loading" /\ UNCHANGED <<phase, oddTodo>>
    BY <1>2 DEF LoadEntry
  <2>1. CASE n \in todo /\ todo' = todo \ {n} /\ UNCHANGED late
    <3>1. Cardinality(todo') = Cardinality(todo) - 1
      BY <1>a, <2>1, FS_RemoveElement
    <3> QED
      BY <1>a, <2>0, <2>1, <3>1 DEF BootRank
  <2>2. ASSUME NEW e \in late, late' = late \ {e}, UNCHANGED todo PROVE BootRank' < BootRank
    <3>1. Cardinality(late') = Cardinality(late) - 1
      BY <1>a, <2>2, FS_RemoveElement
    <3> QED
      BY <1>a, <2>0, <2>2, <3>1 DEF BootRank
  <2> QED
    BY <1>2, <2>1, <2>2 DEF LoadEntry
<1>3. CASE SkipEntry
  <2>1. Cardinality(oddTodo \ {NotSo}) = Cardinality(oddTodo) - 1
    BY <1>3, <1>a, FS_RemoveElement DEF SkipEntry
  <2> QED
    BY <1>3, <1>a, <2>1 DEF SkipEntry, BootRank
<1>4. CASE EntryError \/ EntryPanic
  BY <1>4, <1>a DEF EntryError, EntryPanic, LoadDirFails, BootRank
<1>5. CASE EndLoad \/ Launch
  BY <1>5, <1>a DEF EndLoad, Launch, BootRank
<1> QED
  BY <1>1, <1>2, <1>3, <1>4, <1>5 DEF Boot

\* A file that is created is one entry more to visit; one that is removed before
\* its turn is no longer certain to be yielded, and no more than that.
LEMMA MakeRank ==
    ASSUME IsFiniteSet(Names), LateInv, NEW n \in Names, NEW f \in FileStates, Changed(n, f)
    PROVE  BootRank' = IF phase = "loading" /\ Creates THEN BootRank + 1 ELSE BootRank
<1>1. todo \in SUBSET Names /\ oddTodo \in SUBSET Oddities
  BY DEF LateInv, DirTypeOK
<1>2. /\ IsFiniteSet(todo) /\ IsFiniteSet(late)
      /\ Cardinality(todo) \in Nat /\ Cardinality(late) \in Nat /\ Cardinality(oddTodo) \in Nat
  BY <1>1, LeftInDirectory, FS_CardinalityType DEF LateInv
<1>3. Creates <=> files[n] = Absent /\ f # Absent
  BY DEF Creates, Changed, LateInv, DirTypeOK
<1>4. UNCHANGED <<phase, oddTodo>>
  BY DEF Changed
<1>5. CASE phase # "loading"
  BY <1>4, <1>5 DEF BootRank
<1>6. CASE phase = "loading"
  <2>1. <<n, makes'>> \notin late
    BY DEF LateInv, DirTypeOK, Changed
  <2>2. Cardinality(late \cup {<<n, makes'>>}) = Cardinality(late) + 1
    BY <1>2, <2>1, FS_AddElement
  <2>3. CASE f = Absent /\ n \in todo
    <3>1. Cardinality(todo \ {n}) = Cardinality(todo) - 1
      BY <1>2, <2>3, FS_RemoveElement
    <3>2. todo' = todo \ {n} /\ late' = late \cup {<<n, makes'>>}
      BY <1>6, <2>3 DEF Changed, BecomesLate
    <3> QED
      BY <1>2, <1>3, <1>4, <1>6, <2>2, <2>3, <3>1, <3>2 DEF BootRank
  <2>4. CASE f = Absent /\ n \notin todo
    <3>1. todo' = todo /\ late' = late
      BY <1>6, <2>4 DEF Changed, BecomesLate
    <3> QED
      BY <1>3, <1>4, <1>6, <2>4, <3>1 DEF BootRank
  <2>5. CASE f # Absent /\ files[n] = Absent
    <3>1. todo' = todo /\ late' = late \cup {<<n, makes'>>}
      BY <1>6, <2>5 DEF Changed, BecomesLate
    <3> QED
      BY <1>2, <1>3, <1>4, <1>6, <2>2, <2>5, <3>1 DEF BootRank
  <2>6. CASE f # Absent /\ files[n] # Absent
    <3>1. todo' = todo /\ late' = late
      BY <1>6, <2>6 DEF Changed, BecomesLate
    <3> QED
      BY <1>3, <1>4, <1>6, <2>6, <3>1 DEF BootRank
  <2> QED
    BY <2>3, <2>4, <2>5, <2>6
<1> QED
  BY <1>5, <1>6

(* On any finite directory the boot has a bounded number of turns ahead of   *)
(* it, and every one of them lowers that number.  read_dir is lazy, so make  *)
(* can prolong the scan, but only by creating files, and by one turn each.   *)
THEOREM BootsGetCloser ==
    ASSUME IsFiniteSet(Names)
    PROVE  DirSpec => [](BootRank \in Nat) /\ [][BootCloser]_dirVars
<1>1. DirInit => LateInv
  BY LateInit
<1>2. LateInv /\ [DirNext]_dirVars => LateInv'
  BY LateStep
<1>3. LateInv => BootRank \in Nat
  BY BootRankType
<1>4. LateInv /\ [DirNext]_dirVars => [BootCloser]_dirVars
  <2> SUFFICES ASSUME LateInv PROVE BootCloser
    OBVIOUS
  <2>1. Boot => BootRank' < BootRank
    BY BootFalls
  <2>2. Make => BootRank' = IF phase = "loading" /\ Creates THEN BootRank + 1 ELSE BootRank
    BY MakeRank DEF Make, StartLucetc, FinishLucetc, CleanOne, FileStates
  <2> QED
    BY <2>1, <2>2 DEF BootCloser
<1> QED
  BY <1>1, <1>2, <1>3, <1>4, PTL DEF DirSpec

-----------------------------------------------------------------------------
(* The request path *)

\* Who serves what.  A request has one worker at most, which alone answers it.
ServesInv ==
    /\ \A w \in Workers :
        /\ pc[w] \in {"idle", "dead"} <=> cur[w] = NoReq
        /\ cur[w] # NoReq => /\ call[cur[w]] # NoCall
                             /\ outcome[cur[w]].st = "waiting"
        /\ pc[w] = "stream" => CallOf(w).route = "stream"
        /\ pc[w] \notin {"idle", "dead", "stream"} => CallOf(w).route \in Endpoints
    /\ \A v, w \in Workers : v # w /\ cur[v] # NoReq => cur[v] # cur[w]
    /\ \A r \in Reqs : call[r] = NoCall <=> outcome[r].st = "unsent"

Base == TypeOK /\ ServesInv

-----------------------------------------------------------------------------
LEMMA EmptyType == Empty \in Results
  BY DEF Empty, Results

\* A call for a module names one, and is served by a handler.
LEMMA ModuleCall ==
    ASSUME NEW c \in Calls, c.route \in Endpoints
    PROVE  /\ NameOf(c) \in Names
           /\ c.route # "stream"
           /\ Handler[c.route].expects \in {"ByteArray", "String"}
  <1>1. NameOf(c) \in Names
    BY ServerAssumption DEF NameOf
  <1>2. c.route # "stream"
    BY DEF Endpoints
  <1>3. Handler[c.route].expects \in {"ByteArray", "String"}
    BY DEF Endpoints, Handler, JpegResizeC, MsghashCheckC, FibC, HtmlTemplate,
           EchoServer, Tflite, XmlToJson
  <1> QED
    BY <1>1, <1>2, <1>3

\* What Lookup finds is a module of the right name.
LEMMA FoundType ==
    ASSUME DirTypeOK, NEW c \in Calls, c.route \in Endpoints, Found(c) # NoHandle
    PROVE  /\ Found(c) \in Handles
           /\ Found(c).name = NameOf(c)
  <1>1. NameOf(c) \in Names
    BY ModuleCall
  <1>2. CASE Aslr(c)
    BY <1>1, <1>2 DEF Found, LoadedFromDisk, Handles
  <1>3. CASE ~Aslr(c)
    <2>1. mapg[NameOf(c)] \in Builds
      BY <1>1, <1>3 DEF Found, TakenFromMap, GetModule, DirTypeOK
    <2> QED
      BY <1>1, <1>3, <2>1 DEF Found, TakenFromMap, GetModule, Handles
  <1> QED
    BY <1>2, <1>3

\* A worker in the middle of a request has a request and a call.
LEMMA Serving ==
    ASSUME Base, NEW w \in Workers, pc[w] \notin {"idle", "dead"}
    PROVE  /\ cur[w] \in Reqs
           /\ CallOf(w) \in Calls
           /\ outcome[cur[w]].st = "waiting"
           /\ pc[w] # "stream" => CallOf(w).route \in Endpoints
  BY DEF Base, TypeOK, ServesInv, CallOf

-----------------------------------------------------------------------------
(* The type of the state, and who serves what *)

LEMMA BaseInit == Init => Base
  <1> SUFFICES ASSUME Init PROVE Base
    OBVIOUS
  <1>1. TypeOK
    BY DirTypeInit, EmptyType DEF Init, TypeOK, Outcomes, Statuses, Pcs
  <1>2. ServesInv
    BY DEF Init, ServesInv
  <1> QED
    BY <1>1, <1>2 DEF Base

\* A handler that ends frees its worker and answers its request.
LEMMA BaseLeave ==
    ASSUME Base, NEW w \in Workers, pc[w] \notin {"idle", "dead"},
           NEW label \in {"idle", "dead"}, NEW a \in Outcomes,
           a.st \notin {"unsent", "waiting"},
           Leave(w, label, a), cell' \in [Workers -> Results]
    PROVE  Base'
  <1>1. TypeOK'
    BY EmptyType DEF Base, TypeOK, Leave, Goto, Pcs, DirTypeOK, dirVars
  <1>2. ServesInv'
    BY Serving DEF Base, TypeOK, ServesInv, Leave, Goto, CallOf, Outcomes
  <1> QED
    BY <1>1, <1>2 DEF Base

\* The part of the state that belongs to the threads' current requests.
LocalsOK ==
    /\ cell \in [Workers -> Results]
    /\ handle \in [Workers -> Handles \cup {NoHandle}]
    /\ region \in [Workers -> BOOLEAN]
    /\ instance \in [Workers -> {"none", "ok", "err"}]
    /\ domain \in [Workers -> {"app", "sandbox", "all"}]
    /\ saved \in [Workers -> {"app", "sandbox", "all"}]
    /\ copied \in [Workers -> Results]
    /\ reports \in [Workers -> Nat]

Inside == Pcs \ {"idle", "dead", "stream"}

\* A handler that goes on keeps its request.
LEMMA BaseMove ==
    ASSUME Base, NEW w \in Workers, pc[w] \in Inside, NEW label \in Inside,
           Goto(w, label), LocalsOK',
           UNCHANGED <<dirVars, call, outcome, stdinEof, cur>>
    PROVE  Base'
  <1>1. TypeOK'
    BY DEF Base, TypeOK, LocalsOK, Goto, Inside, DirTypeOK, dirVars
  <1>2. ServesInv'
    BY DEF Base, TypeOK, ServesInv, Goto, CallOf, Inside
  <1> QED
    BY <1>1, <1>2 DEF Base

LEMMA LocalsType == Base => LocalsOK
  BY DEF Base, TypeOK, LocalsOK

\* The two ends of a handler that failed.
LEMMA BaseFail ==
    ASSUME Base, NEW w \in Workers, pc[w] \in Inside, Fail(w) \/ Panic(w),
           UNCHANGED cell
    PROVE  Base'
  <1>1. cell' \in [Workers -> Results]
    BY DEF Base, TypeOK
  <1>2. CASE Fail(w)
    BY <1>1, <1>2, BaseLeave, EmptyType DEF Fail, Inside, Outcomes, Statuses
  <1>3. CASE Panic(w)
    BY <1>1, <1>3, BaseLeave, EmptyType DEF Panic, Inside, Outcomes, Statuses
  <1> QED
    BY <1>2, <1>3

LEMMA BaseAccept ==
    ASSUME Base, NEW w \in Workers, NEW r \in Reqs, Accept(w, r)
    PROVE  Base'
  <1>1. call[r] \in Calls /\ call[r] # NoCall
    BY DEF Base, TypeOK, Accept, Waiting
  <1>2. CASE FirstStep(call[r]) = "respond"
    <2>1. StaticAnswer(call[r]) \in Outcomes
          /\ StaticAnswer(call[r]).st \in {"ok", "error"}
      BY EmptyType DEF StaticAnswer, Outcomes, Statuses
    <2>2. /\ outcome' = [outcome EXCEPT ![r] = StaticAnswer(call[r])]
          /\ UNCHANGED <<pc, cur, dirVars, call, stdinEof, cell, handle, region,
                         instance, domain, saved, copied, reports>>
      BY <1>2 DEF Accept
    <2>3. \A v \in Workers : cur[v] # r
      BY DEF Accept, Waiting
    <2>4. TypeOK'
      BY <2>1, <2>2 DEF Base, TypeOK, DirTypeOK, dirVars
    <2>5. ServesInv'
      BY <1>1, <2>1, <2>2, <2>3 DEF Base, TypeOK, ServesInv, CallOf, Outcomes
    <2> QED
      BY <2>4, <2>5 DEF Base
  <1>3. CASE FirstStep(call[r]) # "respond"
    <2>1. /\ Goto(w, FirstStep(call[r]))
          /\ cur' = [cur EXCEPT ![w] = r]
          /\ UNCHANGED <<outcome, dirVars, call, stdinEof, cell, handle, region,
                         instance, domain, saved, copied, reports>>
          /\ pc[w] = "idle"
          /\ outcome[r].st = "waiting"
          /\ \A v \in Workers : cur[v] # r
      BY <1>3 DEF Accept, Waiting
    <2>2. FirstStep(call[r]) \in {"stream", "body", "lookup"}
      BY <1>3 DEF FirstStep
    <2>3. IF FirstStep(call[r]) = "stream" THEN call[r].route = "stream"
                                           ELSE call[r].route \in Endpoints
      BY <1>3 DEF FirstStep
    <2>4. TypeOK'
      BY <2>1, <2>2 DEF Base, TypeOK, Goto, Pcs, DirTypeOK, dirVars
    <2>5. ServesInv'
      BY <1>1, <2>1, <2>2, <2>3, ServerAssumption
      DEF Base, TypeOK, ServesInv, Goto, CallOf
    <2> QED
      BY <2>4, <2>5 DEF Base
  <1> QED
    BY <1>2, <1>3

LEMMA BaseClients ==
    ASSUME Base, (\E r \in Reqs : Submit(r)) \/ CloseStdin
    PROVE  Base'
  <1>1. ASSUME NEW r \in Reqs, Submit(r) PROVE Base'
    <2>1. PICK c \in Calls : call' = [call EXCEPT ![r] = c]
      BY <1>1 DEF Submit
    <2>2. call[r] = NoCall /\ outcome' = [outcome EXCEPT ![r].st = "waiting"]
      BY <1>1 DEF Submit
    <2>3. outcome' \in [Reqs -> Outcomes] /\ outcome'[r].st = "waiting"
      BY <2>2 DEF Base, TypeOK, Outcomes, Statuses
    <2>4. TypeOK'
      BY <1>1, <2>1, <2>3 DEF Submit, Base, TypeOK, DirTypeOK, dirVars
    <2>5. ServesInv'
      BY <1>1, <2>1, <2>2, <2>3, ServerAssumption
      DEF Submit, Base, TypeOK, ServesInv, CallOf
    <2> QED
      BY <2>4, <2>5 DEF Base
  <1>2. CASE CloseStdin
    BY <1>2 DEF CloseStdin, Base, TypeOK, ServesInv, CallOf, DirTypeOK, dirVars
  <1> QED
    BY <1>1, <1>2

LEMMA BaseWorker ==
    ASSUME Base, NEW w \in Workers, Step(w)
    PROVE  Base'
  <1> USE LocalsType
  <1>1. ASSUME NEW r \in Reqs, Accept(w, r) PROVE Base'
    BY <1>1, BaseAccept
  <1>2. CASE FinishStream(w)
    BY <1>2, BaseLeave, EmptyType DEF FinishStream, Outcomes, Statuses, LocalsOK
  <1>3. CASE ReadBody(w)
    BY <1>3, BaseFail, BaseMove DEF ReadBody, Inside, Pcs, LocalsOK
  <1>4. CASE Decode(w)
    BY <1>4, BaseFail, BaseMove DEF Decode, Inside, Pcs, LocalsOK
  <1>5. CASE Lookup(w)
    <2>1. CASE Found(CallOf(w)) = NoHandle
      BY <1>5, <2>1, BaseFail DEF Lookup, Inside, Pcs
    <2>2. CASE Found(CallOf(w)) # NoHandle
      <3>1. Found(CallOf(w)) \in Handles
        BY <1>5, <2>2, Serving, FoundType DEF Lookup, Base, TypeOK
      <3> QED
        BY <1>5, <2>2, <3>1, BaseMove DEF Lookup, Inside, Pcs, LocalsOK
    <2> QED
      BY <2>1, <2>2
  <1>6. CASE BuildWasi(w)
    <2>1. CASE Panic(w)
      BY <1>6, <2>1, BaseFail DEF BuildWasi, Inside, Pcs
    <2>2. CASE ~Panic(w)
      BY <1>6, <2>2, BaseMove DEF BuildWasi, Returns, Inside, Pcs, LocalsOK
    <2> QED
      BY <2>1, <2>2
  <1>7. CASE CreateRegion(w)
    BY <1>7, BaseMove DEF CreateRegion, Returns, Inside, Pcs, LocalsOK
  <1>8. CASE BuildInstance(w)
    BY <1>8, BaseMove DEF BuildInstance, Returns, Inside, Pcs, LocalsOK
  <1>9. CASE ResetCell(w)
    BY <1>9, BaseMove, EmptyType DEF ResetCell, CellOf, Inside, Pcs, LocalsOK
  <1>10. CASE RunInstance(w)
    <2>1. CASE Fail(w)
      BY <1>10, <2>1, BaseFail DEF RunInstance, Inside, Pcs
    <2>2. CASE ~Fail(w)
      BY <1>10, <2>2, BaseMove DEF RunInstance, EntryDomain, Inside, Pcs, LocalsOK
    <2> QED
      BY <2>1, <2>2
  <1>11. ASSUME NEW kind \in {"ByteArray", "String"}, HostcallCopy(w, kind)
         PROVE  Base'
    <2>1. [kind |-> kind, owner |-> cur[w], handle |-> handle[w]] \in Results
      BY DEF Base, TypeOK, Results
    <2> QED
      BY <1>11, <2>1, BaseMove DEF HostcallCopy, Inside, Pcs, LocalsOK
  <1>12. CASE HostcallPublish(w)
    BY <1>12, BaseMove, EmptyType DEF HostcallPublish, CellOf, Inside, Pcs, LocalsOK
  <1>13. CASE HostcallFault(w)
    BY <1>13, BaseFail DEF HostcallFault, Inside, Pcs
  <1>14. CASE GuestFault(w)
    BY <1>14, BaseFail DEF GuestFault, Inside, Pcs
  <1>15. CASE GuestReturn(w)
    BY <1>15, BaseMove DEF GuestReturn, Inside, Pcs, LocalsOK
  <1>16. CASE TakeResult(w)
    <2>1. CASE Panic(w) /\ UNCHANGED cell
      BY <1>16, <2>1, BaseFail DEF TakeResult, Inside, Pcs
    <2>2. CASE /\ Leave(w, "idle", [st |-> "ok", res |-> cell[CellOf(w)]])
               /\ cell' = [cell EXCEPT ![CellOf(w)] = Empty]
      <3>1. cell[w] \in Results /\ cell' \in [Workers -> Results]
        BY <2>2, EmptyType DEF LocalsOK, CellOf
      <3> QED
        BY <1>16, <2>2, <3>1, BaseLeave DEF TakeResult, CellOf, Outcomes, Statuses
    <2> QED
      BY <1>16, <2>1, <2>2 DEF TakeResult
  <1>17. CASE Respawn(w)
    BY <1>17, EmptyType
    DEF Respawn, Goto, CellOf, Base, TypeOK, ServesInv, CallOf, Pcs, DirTypeOK, dirVars
  <1> QED
    BY <1>1, <1>2, <1>3, <1>4, <1>5, <1>6, <1>7, <1>8, <1>9, <1>10, <1>11,
       <1>12, <1>13, <1>14, <1>15, <1>16, <1>17 DEF Step

LEMMA BaseStep == Base /\ [Next]_vars => Base'
<1> SUFFICES ASSUME Base, [Next]_vars PROVE Base'
  OBVIOUS
<1>1. CASE DirNext /\ UNCHANGED serverVars
  <2>1. DirTypeOK'
    BY <1>1, DirTypeStep DEF Base, TypeOK
  <2> QED
    BY <1>1, <2>1 DEF Base, TypeOK, ServesInv, CallOf, serverVars
<1>2. CASE (\E r \in Reqs : Submit(r)) \/ CloseStdin
  BY <1>2, BaseClients
<1>3. CASE \E w \in Workers : Step(w)
  BY <1>3, BaseWorker
<1>4. CASE UNCHANGED vars
  BY <1>4 DEF vars, serverVars, dirVars, Base, TypeOK, ServesInv, CallOf, DirTypeOK
<1> QED
  BY <1>1, <1>2, <1>3, <1>4 DEF Next

(* The state of the server has its type in every reachable state.            *)
THEOREM TypeCorrect == Spec => []TypeOK
<1>1. Init => Base
  BY BaseInit
<1>2. Base /\ [Next]_vars => Base'
  BY BaseStep
<1>3. Base => TypeOK
  BY DEF Base
<1> QED
  BY <1>1, <1>2, <1>3, PTL DEF Spec

-----------------------------------------------------------------------------
(* The strengthening of the safety properties.  A request runs on the right *)
(* module, the cell of a running handler is empty or holds its own report,  *)
(* and what a thread keeps between requests is of a request that failed.    *)

SharedHandle(c) ==
    [name |-> NameOf(c), build |-> mapg[NameOf(c)], own |-> FALSE]
OwnHandles(c) == {[name |-> NameOf(c), build |-> b, own |-> TRUE] : b \in Builds}
RightModule(c, h) ==
    /\ h # NoHandle
    /\ h.name = NameOf(c)
    /\ IF Aslr(c) THEN h \in OwnHandles(c) ELSE h = SharedHandle(c)
Mine(w, res) == res.owner = cur[w] /\ RightModule(CallOf(w), res.handle)

HasModule == {"wasi", "region", "build", "reset", "unwrap", "guest", "hostcall"}
AfterReset == {"unwrap", "guest", "hostcall", "take"}

ModuleOK(w) ==
    /\ pc[w] \in HasModule => RightModule(CallOf(w), handle[w])
    /\ region[w] => pc[w] \in {"build", "reset", "unwrap", "guest", "hostcall"}
CellOK(w) ==
    /\ pc[w] = "hostcall" => Mine(w, copied[w])
    /\ pc[w] \in AfterReset /\ cell[w] # Empty => Mine(w, cell[w])
    /\ pc[w] \notin AfterReset \cup {"dead"} /\ cell[w] # Empty =>
           /\ cell[w].owner \in Reqs
           /\ outcome[cell[w].owner].st = "error"
\* A guest of the repository has reported once, in its variant, when it returns.
ReportOK(w) ==
    LET kind == GuestReports(CallOf(w).route) IN
    pc[w] \in Inside /\ CallOf(w).route \notin Foreign =>
        /\ pc[w] \notin {"guest", "hostcall", "take"} => reports[w] = 0
        /\ pc[w] = "guest" /\ reports[w] # 0 => cell[w].kind = kind
        /\ pc[w] = "hostcall" => copied[w].kind = kind
        /\ pc[w] = "take" => cell[w].kind = kind
DomainOK(w) ==
    /\ pc[w] = "guest" => domain[w] = EntryDomain(CallOf(w))
    /\ pc[w] = "hostcall" =>
           IF UsesMpk(CallOf(w)) THEN domain[w] = "all" /\ saved[w] = "sandbox"
                                 ELSE domain[w] = "app"
IdleOK(w) == pc[w] \in {"idle", "dead", "stream"} => reports[w] = 0

WorkerOK(w) == ModuleOK(w) /\ CellOK(w) /\ ReportOK(w) /\ DomainOK(w) /\ IdleOK(w)

ResultOK(r) ==
    AsksModule(r) /\ outcome[r].st = "ok" =>
        /\ outcome[r].res.owner = r
        /\ RightModule(call[r], outcome[r].res.handle)
        /\ outcome[r].res.kind = Handler[call[r].route].expects
PanicOK(r) ==
    outcome[r].st = "dropped" =>
        /\ AsksModule(r)
        /\ \/ call[r].route \in Foreign
           \/ Aslr(call[r])
           \/ Handler[call[r].route].fileAccess
           \/ mapg[NameOf(call[r])] = Absent
AnswerOK(r) == ResultOK(r) /\ PanicOK(r)

OnlyServing == \A r \in Reqs : call[r] # NoCall => phase = "serving"

Inv ==
    /\ Base
    /\ DirInv
    /\ OnlyServing
    /\ \A w \in Workers : WorkerOK(w)
    /\ \A r \in Reqs : AnswerOK(r)

-----------------------------------------------------------------------------
\* The guests of src/modules report in the variant their handler looks for.
LEMMA ReportsExpected ==
    ASSUME NEW ep \in Endpoints
    PROVE  GuestReports(ep) = Handler[ep].expects
  BY DEF Endpoints, GuestReports, Handler, JpegResizeC, MsghashCheckC, FibC,
         HtmlTemplate, EchoServer, Tflite, XmlToJson

LEMMA InvInit == Init => Inv
  <1> SUFFICES ASSUME Init PROVE Inv
    OBVIOUS
  <1>1. Base /\ DirInv
    BY BaseInit, DirInvInit DEF Init
  <1>2. \A w \in Workers : WorkerOK(w)
    BY DEF Init, WorkerOK, ModuleOK, CellOK, ReportOK, DomainOK, IdleOK, HasModule,
           AfterReset, Inside
  <1>3. (\A r \in Reqs : AnswerOK(r)) /\ OnlyServing
    BY DEF Init, AnswerOK, ResultOK, PanicOK, AsksModule, OnlyServing
  <1> QED
    BY <1>1, <1>2, <1>3 DEF Inv

\* An answer is final.
LEMMA AnswersStay ==
    ASSUME Base, [Next]_vars, NEW r \in Reqs, Answered(r)
    PROVE  outcome'[r] = outcome[r] /\ call'[r] = call[r]
  <1>1. ASSUME NEW q \in Reqs, Submit(q)
        PROVE  outcome'[r] = outcome[r] /\ call'[r] = call[r]
    BY <1>1 DEF Submit, Base, TypeOK, ServesInv, Answered
  <1>2. ASSUME NEW w \in Workers, Step(w)
        PROVE  outcome'[r] = outcome[r] /\ call'[r] = call[r]
    <2>1. ASSUME NEW q \in Reqs, Accept(w, q)
          PROVE  outcome'[r] = outcome[r] /\ call'[r] = call[r]
      BY <2>1 DEF Accept, Waiting, Base, TypeOK, Answered
    <2>2. ASSUME NEW label, NEW a, Leave(w, label, a), pc[w] \notin {"idle", "dead"}
          PROVE  outcome'[r] = outcome[r] /\ call'[r] = call[r]
      BY <2>2, Serving DEF Leave, Base, TypeOK, Answered
    <2> QED
      BY <1>2, <2>1, <2>2
      DEF Step, FinishStream, ReadBody, Decode, Lookup, BuildWasi, CreateRegion,
          BuildInstance, ResetCell, RunInstance, HostcallCopy, HostcallPublish,
          HostcallFault, GuestFault, GuestReturn, TakeResult, Respawn, Fail, Panic
  <1> QED
    BY <1>1, <1>2 DEF Next, CloseStdin, vars, serverVars

\* A step of a worker leaves the map, the calls, the other threads and the
\* other requests alone, but for the answer Accept may give on the spot.
LEMMA StepFrame ==
    ASSUME Base, NEW w \in Workers, Step(w)
    PROVE  /\ UNCHANGED <<dirVars, call>>
           /\ \A v \in Workers \ {w} :
                  /\ pc'[v] = pc[v] /\ cur'[v] = cur[v] /\ cell'[v] = cell[v]
                  /\ handle'[v] = handle[v] /\ region'[v] = region[v]
                  /\ domain'[v] = domain[v] /\ saved'[v] = saved[v]
                  /\ copied'[v] = copied[v] /\ reports'[v] = reports[v]
           /\ \A r \in Reqs :
                  \/ r = cur[w]
                  \/ outcome'[r] = outcome[r]
                  \/ /\ outcome'[r] = StaticAnswer(call[r])
                     /\ call[r].route \notin Endpoints
  <1>1. ASSUME NEW q \in Reqs, Accept(w, q)
        PROVE  \A r \in Reqs :
                  \/ outcome'[r] = outcome[r]
                  \/ /\ outcome'[r] = StaticAnswer(call[r])
                     /\ call[r].route \notin Endpoints
    <2>1. CASE FirstStep(call[q]) # "respond"
      BY <1>1, <2>1 DEF Accept
    <2>2. CASE FirstStep(call[q]) = "respond"
      <3>1. call[q].route \notin Endpoints
        BY <2>2 DEF FirstStep
      <3> QED
        BY <1>1, <2>2, <3>1 DEF Accept, Base, TypeOK
    <2> QED
      BY <2>1, <2>2
  <1>2. \A r \in Reqs :
            \/ r = cur[w]
            \/ outcome'[r] = outcome[r]
            \/ /\ outcome'[r] = StaticAnswer(call[r])
               /\ call[r].route \notin Endpoints
    BY <1>1 DEF Base, TypeOK, Step, FinishStream, ReadBody, Decode, Lookup, BuildWasi,
       CreateRegion, BuildInstance, ResetCell, RunInstance, HostcallCopy,
       HostcallPublish, HostcallFault, GuestFault, GuestReturn, TakeResult,
       Respawn, Fail, Panic, Leave
  <1>3. UNCHANGED <<dirVars, call>>
    BY DEF Step, Accept, FinishStream, ReadBody, Decode, Lookup, BuildWasi,
       CreateRegion, BuildInstance, ResetCell, RunInstance, HostcallCopy,
       HostcallPublish, HostcallFault, GuestFault, GuestReturn, TakeResult,
       Respawn, Fail, Panic, Leave
  <1>4. ASSUME NEW v \in Workers \ {w}
        PROVE  /\ pc'[v] = pc[v] /\ cur'[v] = cur[v] /\ cell'[v] = cell[v]
               /\ handle'[v] = handle[v] /\ region'[v] = region[v]
               /\ domain'[v] = domain[v] /\ saved'[v] = saved[v]
               /\ copied'[v] = copied[v] /\ reports'[v] = reports[v]
    BY DEF Base, TypeOK, Step, Accept, FinishStream, ReadBody, Decode, Lookup,
       BuildWasi, Returns, CreateRegion, BuildInstance, ResetCell, RunInstance,
       HostcallCopy, HostcallPublish, HostcallFault, GuestFault, GuestReturn,
       TakeResult, Respawn, Fail, Panic, Leave, Goto, CellOf
  <1> QED
    BY <1>2, <1>3, <1>4

\* So the other threads and requests stay as the invariant wants them.
LEMMA OthersStay ==
    ASSUME Inv, NEW w \in Workers, Step(w)
    PROVE  /\ \A v \in Workers \ {w} : WorkerOK(v)'
           /\ \A r \in Reqs \ {cur[w]} : AnswerOK(r)'
  <1>0. Base /\ [Next]_vars
    BY DEF Inv, Next
  <1>1. UNCHANGED mapg /\ UNCHANGED call
    BY <1>0, StepFrame DEF dirVars
  <1>2. ASSUME NEW v \in Workers \ {w} PROVE WorkerOK(v)'
    <2>1. /\ pc'[v] = pc[v] /\ cur'[v] = cur[v] /\ cell'[v] = cell[v]
          /\ handle'[v] = handle[v] /\ region'[v] = region[v]
          /\ domain'[v] = domain[v] /\ saved'[v] = saved[v]
          /\ copied'[v] = copied[v] /\ reports'[v] = reports[v]
      BY <1>0, StepFrame
    <2>2. WorkerOK(v)
      BY DEF Inv
    <2>3. CallOf(v)' = CallOf(v)
      BY <1>1, <2>1 DEF CallOf
    <2>4. ModuleOK(v)'
      BY <1>1, <2>1, <2>2, <2>3
      DEF WorkerOK, ModuleOK, RightModule, SharedHandle, HasModule
    <2>5. CellOK(v)'
      <3>1. ASSUME NEW r \in Reqs, outcome[r].st = "error"
            PROVE  outcome'[r].st = "error"
        BY <1>0, <3>1, AnswersStay DEF Answered
      <3> QED
        BY <1>1, <2>1, <2>2, <2>3, <3>1
        DEF WorkerOK, CellOK, Mine, RightModule, SharedHandle, AfterReset
    <2>6. ReportOK(v)'
      BY <2>1, <2>2, <2>3 DEF WorkerOK, ReportOK, Inside
    <2>7. DomainOK(v)' /\ IdleOK(v)'
      BY <2>1, <2>2, <2>3 DEF WorkerOK, DomainOK, IdleOK, EntryDomain
    <2> QED
      BY <2>4, <2>5, <2>6, <2>7 DEF WorkerOK
  <1>3. ASSUME NEW r \in Reqs \ {cur[w]} PROVE AnswerOK(r)'
    <2>1. CASE outcome'[r] = outcome[r]
      BY <1>1, <2>1 DEF Inv, AnswerOK, ResultOK, PanicOK, AsksModule, RightModule,
                        SharedHandle
    <2>2. CASE outcome'[r] = StaticAnswer(call[r]) /\ call[r].route \notin Endpoints
      BY <1>1, <2>2 DEF AnswerOK, ResultOK, PanicOK, AsksModule, StaticAnswer
    <2> QED
      BY <1>0, <2>1, <2>2, StepFrame
  <1> QED
    BY <1>2, <1>3

-----------------------------------------------------------------------------
(* The worker that takes the step *)

\* An error leaves in the cell nothing but what a failed request reported.
LEMMA FailStays ==
    ASSUME Inv, NEW w \in Workers, pc[w] \in Inside, Fail(w), UNCHANGED cell
    PROVE  WorkerOK(w)' /\ \A r \in {cur[w]} : AnswerOK(r)'
  <1>1. Base /\ WorkerOK(w) /\ cur[w] \in Reqs
    BY Serving DEF Inv, Inside
  <1>2. /\ pc'[w] = "idle" /\ region'[w] = FALSE /\ reports'[w] = 0
        /\ cell' = cell
        /\ outcome' = [outcome EXCEPT ![cur[w]] = [st |-> "error", res |-> Empty]]
    BY <1>1 DEF Fail, Leave, Goto, Base, TypeOK
  <1>3. outcome'[cur[w]].st = "error"
    BY <1>1, <1>2 DEF Base, TypeOK
  <1>4. CellOK(w)'
    <2> SUFFICES ASSUME cell[w] # Empty
                 PROVE  cell[w].owner \in Reqs /\ outcome'[cell[w].owner].st = "error"
      BY <1>2 DEF CellOK, AfterReset
    <2>1. CASE pc[w] \in AfterReset
      BY <1>1, <1>3, <2>1 DEF WorkerOK, CellOK, Mine
    <2>2. CASE pc[w] \notin AfterReset
      BY <1>1, <1>2, <2>2 DEF WorkerOK, CellOK, Inside, Base, TypeOK
    <2> QED
      BY <2>1, <2>2
  <1>5. WorkerOK(w)'
    BY <1>2, <1>4 DEF WorkerOK, ModuleOK, ReportOK, DomainOK, IdleOK, HasModule, Inside
  <1>6. \A r \in {cur[w]} : AnswerOK(r)'
    BY <1>3 DEF AnswerOK, ResultOK, PanicOK
  <1> QED
    BY <1>5, <1>6

\* A panic needs a reason.
LEMMA PanicStays ==
    ASSUME Inv, NEW w \in Workers, pc[w] \in Inside, Panic(w), UNCHANGED cell,
           \/ CallOf(w).route \in Foreign
           \/ Aslr(CallOf(w))
           \/ HandlerOf(w).fileAccess
           \/ mapg[NameOf(CallOf(w))] = Absent
    PROVE  WorkerOK(w)' /\ \A r \in {cur[w]} : AnswerOK(r)'
  <1>1. Base /\ cur[w] \in Reqs /\ CallOf(w) # NoCall /\ CallOf(w).route \in Endpoints
    BY Serving, ServerAssumption DEF Inv, Inside
  <1>2. /\ pc'[w] = "dead" /\ region'[w] = FALSE /\ reports'[w] = 0
        /\ outcome' = [outcome EXCEPT ![cur[w]] = [st |-> "dropped", res |-> Empty]]
        /\ call' = call /\ mapg' = mapg
    BY <1>1 DEF Panic, Leave, Goto, Base, TypeOK, dirVars
  <1>3. outcome'[cur[w]].st = "dropped"
    BY <1>1, <1>2 DEF Base, TypeOK
  <1>4. WorkerOK(w)'
    BY <1>2 DEF WorkerOK, ModuleOK, CellOK, ReportOK, DomainOK, IdleOK, HasModule,
                AfterReset, Inside
  <1>5. \A r \in {cur[w]} : AnswerOK(r)'
    BY <1>1, <1>2, <1>3 DEF AnswerOK, ResultOK, PanicOK, AsksModule, CallOf, HandlerOf
  <1> QED
    BY <1>4, <1>5

\* A handler that goes on has not answered yet.
LEMMA NoAnswerYet ==
    ASSUME Base, NEW w \in Workers, pc[w] \in Inside, UNCHANGED outcome
    PROVE  \A r \in {cur[w]} : AnswerOK(r)'
  BY Serving DEF AnswerOK, ResultOK, PanicOK, Inside

\* Every statement of a handler before its guest runs.
LEMMA BuildStays ==
    ASSUME Inv, NEW w \in Workers,
           \/ ReadBody(w) \/ Decode(w) \/ Lookup(w) \/ BuildWasi(w)
           \/ CreateRegion(w) \/ BuildInstance(w) \/ ResetCell(w) \/ RunInstance(w)
    PROVE  WorkerOK(w)' /\ \A r \in {cur[w]} : AnswerOK(r)'
  <1>0. /\ Base /\ TypeOK /\ WorkerOK(w) /\ pc[w] \in Inside
        /\ CallOf(w) \in Calls /\ CallOf(w).route \in Endpoints
    <2>1. pc[w] \in Inside
      BY DEF ReadBody, Decode, Lookup, BuildWasi, CreateRegion, BuildInstance,
             ResetCell, RunInstance, Inside, Pcs
    <2> QED
      BY <2>1, Serving DEF Inv, Base, Inside
  <1> USE DEF WorkerOK, ModuleOK, CellOK, ReportOK, DomainOK, IdleOK, HasModule,
              AfterReset, Inside
  <1>1. CASE Fail(w) /\ UNCHANGED cell
    BY <1>0, <1>1, FailStays
  <1>2. CASE (ReadBody(w) /\ ~Fail(w)) \/ (Decode(w) /\ ~Fail(w))
    BY <1>0, <1>2, NoAnswerYet DEF ReadBody, Decode, Goto, CallOf, TypeOK
  <1>3. CASE Lookup(w)
    <2>1. CASE Found(CallOf(w)) = NoHandle
      <3>1. Aslr(CallOf(w)) \/ mapg[NameOf(CallOf(w))] = Absent
        <4> SUFFICES ASSUME ~Aslr(CallOf(w)), mapg[NameOf(CallOf(w))] # Absent PROVE FALSE
          OBVIOUS
        <4>1. CanRead
          BY <1>0, Serving, ServerAssumption
          DEF Inv, OnlyServing, DirInv, LockInv, CanRead, CallOf
        <4>2. Found(CallOf(w)) = SharedHandle(CallOf(w))
          BY <4>1 DEF Found, TakenFromMap, GetModule, SharedHandle
        <4>3. SharedHandle(CallOf(w)) \in Handles
          BY <1>0, ModuleCall DEF SharedHandle, Handles, TypeOK, DirTypeOK
        <4> QED
          BY <2>1, <4>2, <4>3, ServerAssumption
      <3> QED
        BY <1>0, <1>3, <2>1, <3>1, PanicStays DEF Lookup
    <2>2. CASE Found(CallOf(w)) # NoHandle
      <3>1. RightModule(CallOf(w), Found(CallOf(w)))
        <4>1. CASE Aslr(CallOf(w))
          BY <1>0, <2>2, <4>1, FoundType
          DEF RightModule, OwnHandles, Found, LoadedFromDisk, TypeOK
        <4>2. CASE ~Aslr(CallOf(w))
          BY <1>0, <2>2, <4>2, FoundType
          DEF RightModule, SharedHandle, Found, TakenFromMap, GetModule, TypeOK
        <4> QED
          BY <4>1, <4>2
      <3>2. /\ handle'[w] = Found(CallOf(w)) /\ pc'[w] = "wasi"
            /\ UNCHANGED <<dirVars, call, outcome, cur, cell, region, reports>>
        BY <1>0, <1>3, <2>2 DEF Lookup, Goto, TypeOK
      <3> QED
        BY <1>0, <1>3, <3>1, <3>2, NoAnswerYet
        DEF Lookup, CallOf, RightModule, SharedHandle, dirVars
    <2> QED
      BY <2>1, <2>2
  <1>4. CASE BuildWasi(w)
    <2>1. CASE HandlerOf(w).fileAccess /\ Panic(w)
      BY <1>0, <1>4, <2>1, PanicStays DEF BuildWasi
    <2>2. CASE ~(HandlerOf(w).fileAccess /\ Panic(w))
      BY <1>0, <1>4, <2>2, NoAnswerYet
      DEF BuildWasi, Returns, Goto, CallOf, TypeOK, RightModule, SharedHandle, dirVars
    <2> QED
      BY <2>1, <2>2
  <1>5. CASE CreateRegion(w)
    BY <1>0, <1>5, NoAnswerYet
    DEF CreateRegion, Returns, Goto, CallOf, TypeOK, RightModule, SharedHandle, dirVars
  <1>6. CASE BuildInstance(w)
    BY <1>0, <1>6, NoAnswerYet
    DEF BuildInstance, Returns, Goto, CallOf, TypeOK, RightModule, SharedHandle, dirVars
  <1>7. CASE ResetCell(w)
    BY <1>0, <1>7, NoAnswerYet
    DEF ResetCell, CellOf, Goto, CallOf, TypeOK, RightModule, SharedHandle, dirVars
  <1>8. CASE RunInstance(w) /\ ~Fail(w)
    BY <1>0, <1>8, NoAnswerYet
    DEF RunInstance, Goto, CallOf, TypeOK, RightModule, SharedHandle, Mine, dirVars,
        EntryDomain, UsesMpk
  <1> QED
    BY <1>1, <1>2, <1>3, <1>4, <1>5, <1>6, <1>7, <1>8
    DEF ReadBody, Decode, RunInstance

\* The guest and its hostcalls.
LEMMA GuestStays ==
    ASSUME Inv, NEW w \in Workers,
           \/ \E kind \in {"ByteArray", "String"} : HostcallCopy(w, kind)
           \/ HostcallPublish(w) \/ HostcallFault(w) \/ GuestFault(w) \/ GuestReturn(w)
    PROVE  WorkerOK(w)' /\ \A r \in {cur[w]} : AnswerOK(r)'
  <1>0. /\ Base /\ TypeOK /\ WorkerOK(w) /\ pc[w] \in Inside
        /\ CallOf(w) \in Calls /\ CallOf(w).route \in Endpoints
    <2>1. pc[w] \in Inside
      BY DEF HostcallCopy, HostcallPublish, HostcallFault, GuestFault, GuestReturn,
             Inside, Pcs
    <2> QED
      BY <2>1, Serving DEF Inv, Base, Inside
  <1> USE DEF WorkerOK, ModuleOK, CellOK, ReportOK, DomainOK, IdleOK, HasModule,
              AfterReset, Inside
  <1>1. CASE HostcallFault(w)
    BY <1>0, <1>1, PanicStays DEF HostcallFault
  <1>2. CASE GuestFault(w)
    BY <1>0, <1>2, FailStays DEF GuestFault
  <1>3. ASSUME NEW kind \in {"ByteArray", "String"}, HostcallCopy(w, kind)
        PROVE  WorkerOK(w)' /\ \A r \in {cur[w]} : AnswerOK(r)'
    <2>1. /\ pc[w] = "guest" /\ pc'[w] = "hostcall"
          /\ copied'[w] = [kind |-> kind, owner |-> cur[w], handle |-> handle[w]]
          /\ reports'[w] = reports[w] + 1
          /\ UNCHANGED <<dirVars, call, outcome, cur, cell, handle, region>>
          /\ IF UsesMpk(CallOf(w))
             THEN saved'[w] = domain[w] /\ domain'[w] = "all"
             ELSE UNCHANGED <<saved, domain>>
      BY <1>0, <1>3 DEF HostcallCopy, Goto, TypeOK
    <2>2. CallOf(w)' = CallOf(w) /\ mapg' = mapg
      BY <2>1 DEF CallOf, dirVars
    <2>3. ModuleOK(w)' /\ CellOK(w)'
      BY <1>0, <2>1, <2>2 DEF Mine, RightModule, SharedHandle
    <2>4. ReportOK(w)'
      BY <1>3, <2>1, <2>2 DEF HostcallCopy, MayReport
    <2>5. DomainOK(w)' /\ IdleOK(w)'
      BY <1>0, <2>1, <2>2 DEF EntryDomain, UsesMpk
    <2> QED
      BY <1>0, <2>1, <2>3, <2>4, <2>5, NoAnswerYet
  <1>4. CASE HostcallPublish(w)
    <2>1. /\ pc[w] = "hostcall" /\ pc'[w] = "guest"
          /\ cell'[w] = copied[w]
          /\ UNCHANGED <<dirVars, call, outcome, cur, handle, region, reports>>
          /\ IF UsesMpk(CallOf(w)) THEN domain'[w] = saved[w] ELSE UNCHANGED domain
      BY <1>0, <1>4 DEF HostcallPublish, Goto, CellOf, TypeOK
    <2>2. CallOf(w)' = CallOf(w) /\ mapg' = mapg
      BY <2>1 DEF CallOf, dirVars
    <2>3. ModuleOK(w)' /\ CellOK(w)'
      BY <1>0, <2>1, <2>2 DEF Mine, RightModule, SharedHandle
    <2>4. ReportOK(w)'
      BY <1>0, <2>1, <2>2
    <2>5. DomainOK(w)' /\ IdleOK(w)'
      BY <1>0, <2>1, <2>2 DEF EntryDomain, UsesMpk
    <2> QED
      BY <1>0, <2>1, <2>3, <2>4, <2>5, NoAnswerYet
  <1>5. CASE GuestReturn(w)
    <2>1. /\ pc[w] = "guest" /\ pc'[w] = "take"
          /\ CallOf(w).route \in Foreign \/ reports[w] = 1
          /\ region'[w] = FALSE
          /\ UNCHANGED <<dirVars, call, outcome, cur, cell, reports>>
      BY <1>0, <1>5 DEF GuestReturn, Goto, TypeOK
    <2>2. CallOf(w)' = CallOf(w) /\ mapg' = mapg
      BY <2>1 DEF CallOf, dirVars
    <2>3. WorkerOK(w)'
      BY <1>0, <2>1, <2>2 DEF Mine, RightModule, SharedHandle
    <2> QED
      BY <1>0, <2>1, <2>3, NoAnswerYet
  <1> QED
    BY <1>1, <1>2, <1>3, <1>4, <1>5

\* The match on CURRENT_RESULT: a full cell holds this request's own report.
LEMMA TakeStays ==
    ASSUME Inv, NEW w \in Workers, TakeResult(w)
    PROVE  WorkerOK(w)' /\ \A r \in {cur[w]} : AnswerOK(r)'
  <1>0. /\ Base /\ TypeOK /\ WorkerOK(w) /\ pc[w] = "take" /\ pc[w] \in Inside
        /\ cur[w] \in Reqs /\ CallOf(w) \in Calls /\ CallOf(w).route \in Endpoints
    BY Serving DEF Inv, Base, Inside, Pcs, TakeResult
  <1>1. CASE cell[w].kind # HandlerOf(w).expects
    <2>1. CallOf(w).route \in Foreign
      BY <1>0, <1>1, ReportsExpected DEF WorkerOK, ReportOK, HandlerOf
    <2> QED
      BY <1>0, <1>1, <2>1, PanicStays DEF TakeResult, CellOf
  <1>2. CASE cell[w].kind = HandlerOf(w).expects
    <2>1. /\ pc'[w] = "idle" /\ region'[w] = FALSE /\ reports'[w] = 0
          /\ cell'[w] = Empty
          /\ outcome'[cur[w]] = [st |-> "ok", res |-> cell[w]]
          /\ call' = call /\ mapg' = mapg
      BY <1>0, <1>2 DEF TakeResult, CellOf, Leave, Goto, TypeOK, dirVars
    <2>2. cell[w] # Empty
      BY <1>0, <1>2, ModuleCall DEF HandlerOf, Empty
    <2>3. Mine(w, cell[w])
      BY <1>0, <2>2 DEF WorkerOK, CellOK, AfterReset
    <2>4. WorkerOK(w)'
      BY <2>1 DEF WorkerOK, ModuleOK, CellOK, ReportOK, DomainOK, IdleOK, HasModule,
                  AfterReset, Inside
    <2>5. \A r \in {cur[w]} : AnswerOK(r)'
      <3> SUFFICES ASSUME NEW r \in {cur[w]} PROVE ResultOK(r)' /\ PanicOK(r)'
        BY DEF AnswerOK
      <3>1. outcome'[r].st = "ok" /\ outcome'[r].res = cell[w] /\ call'[r] = CallOf(w)
        BY <2>1 DEF CallOf
      <3> QED
        BY <1>2, <2>1, <2>3, <3>1
        DEF ResultOK, PanicOK, Mine, RightModule, SharedHandle, HandlerOf
    <2> QED
      BY <2>4, <2>5
  <1> QED
    BY <1>1, <1>2

\* Outside the handlers: a request is taken, a stream ends, a thread is replaced.
LEMMA OutsideStays ==
    ASSUME Inv, NEW w \in Workers,
           (\E r \in Reqs : Accept(w, r)) \/ FinishStream(w) \/ Respawn(w)
    PROVE  WorkerOK(w)' /\ \A r \in {cur[w]} \cap Reqs : AnswerOK(r)'
  <1>0. Base /\ TypeOK /\ WorkerOK(w)
    BY DEF Inv, Base
  <1>a. ASSUME NEW q \in Reqs, outcome[q].st = "error", Step(w)
        PROVE  outcome'[q].st = "error"
    BY <1>0, <1>a, AnswersStay DEF Answered, Next
  <1> USE DEF WorkerOK, ModuleOK, CellOK, ReportOK, DomainOK, IdleOK, HasModule,
              AfterReset, Inside
  <1>1. ASSUME NEW r \in Reqs, Accept(w, r)
        PROVE  WorkerOK(w)' /\ \A q \in {cur[w]} \cap Reqs : AnswerOK(q)'
    <2>1. /\ pc[w] = "idle" /\ pc'[w] \in {"idle", "stream", "body", "lookup"}
          /\ UNCHANGED <<dirVars, call, cell, region, reports>>
      BY <1>0, <1>1 DEF Accept, Goto, FirstStep, TypeOK
    <2>2. cur[w] = NoReq
      BY <1>0, <2>1 DEF Base, ServesInv
    <2>3. CellOK(w)'
      BY <1>0, <1>1, <1>a, <2>1 DEF Step
    <2>4. WorkerOK(w)'
      BY <1>0, <2>1, <2>3
    <2> QED
      BY <2>2, <2>4, ServerAssumption
  <1>2. CASE FinishStream(w)
    <2>1. /\ pc[w] = "stream" /\ pc'[w] = "idle" /\ cur[w] \in Reqs
          /\ UNCHANGED <<call, mapg, cell>> /\ region'[w] = FALSE /\ reports'[w] = 0
          /\ outcome'[cur[w]].st = "ok"
      BY <1>0, <1>2, Serving DEF FinishStream, Leave, Goto, TypeOK, dirVars
    <2>2. ~AsksModule(cur[w])
      <3> SUFFICES ASSUME call[cur[w]] # NoCall, call[cur[w]].route \in Endpoints
                   PROVE  FALSE
        BY DEF AsksModule
      <3> QED
        BY <1>0, <2>1, ServerAssumption DEF Base, ServesInv, CallOf, Endpoints
    <2>3. CellOK(w)'
      BY <1>0, <1>2, <1>a, <2>1 DEF Step
    <2>4. WorkerOK(w)'
      BY <1>0, <2>1, <2>3
    <2>5. \A q \in {cur[w]} : AnswerOK(q)'
      BY <2>1, <2>2 DEF AnswerOK, ResultOK, PanicOK, AsksModule
    <2> QED
      BY <2>4, <2>5
  <1>3. CASE Respawn(w)
    <2>1. /\ pc'[w] = "idle" /\ cell'[w] = Empty /\ cur[w] = NoReq
          /\ UNCHANGED <<region, reports>>
          /\ pc[w] = "dead"
      BY <1>0, <1>3 DEF Respawn, Goto, CellOf, TypeOK, Base, ServesInv
    <2> QED
      BY <1>0, <2>1, ServerAssumption
  <1> QED
    BY <1>1, <1>2, <1>3

-----------------------------------------------------------------------------
(* The invariant, and what follows from it *)

LEMMA InvWorker ==
    ASSUME Inv, NEW w \in Workers, Step(w)
    PROVE  Inv'
  <1>1. Base' /\ Base
    BY BaseWorker DEF Inv
  <1>2. UNCHANGED <<dirVars, call>>
    BY <1>1, StepFrame
  <1>3. DirInv'
    BY <1>2, DirInvStep DEF Inv
  <1>4. OnlyServing'
    BY <1>2 DEF Inv, OnlyServing, dirVars
  <1>5. WorkerOK(w)' /\ \A r \in {cur[w]} \cap Reqs : AnswerOK(r)'
    BY BuildStays, GuestStays, TakeStays, OutsideStays DEF Step
  <1>6. \A v \in Workers : WorkerOK(v)'
    BY <1>5, OthersStay
  <1>7. \A r \in Reqs : AnswerOK(r)'
    BY <1>5, OthersStay
  <1> QED
    BY <1>1, <1>3, <1>4, <1>6, <1>7 DEF Inv

\* Clients do not disturb a handler.
LEMMA InvClients ==
    ASSUME Inv, (\E r \in Reqs : Submit(r)) \/ CloseStdin
    PROVE  Inv'
  <1>1. Base /\ Base'
    BY BaseClients DEF Inv
  <1>2. UNCHANGED <<dirVars, pc, cur, cell, handle, region, domain, saved, copied, reports>>
    BY DEF Submit, CloseStdin
  <1>3. DirInv' /\ OnlyServing'
    <2>1. DirInv'
      BY <1>2, DirInvStep DEF Inv
    <2>2. OnlyServing'
      BY <1>2 DEF Inv, OnlyServing, Submit, CloseStdin, Base, TypeOK, dirVars
    <2> QED
      BY <2>1, <2>2
  <1>4. ASSUME NEW r \in Reqs, call[r] # NoCall
        PROVE  call'[r] = call[r] /\ outcome'[r] = outcome[r]
    BY <1>1, <1>4 DEF Submit, CloseStdin, Base, TypeOK
  <1>5. ASSUME NEW w \in Workers PROVE WorkerOK(w)'
    <2>1. WorkerOK(w)
      BY DEF Inv
    <2>2. pc[w] \notin {"idle", "dead"} => CallOf(w)' = CallOf(w)
      BY <1>1, <1>2, <1>4, Serving, ServerAssumption DEF CallOf
    <2>3. ASSUME NEW r \in Reqs, outcome[r].st = "error"
          PROVE  outcome'[r].st = "error"
      BY <1>1, <1>4, <2>3 DEF Base, ServesInv
    <2>4. ModuleOK(w)'
      BY <1>2, <2>1, <2>2
      DEF WorkerOK, ModuleOK, RightModule, SharedHandle, HasModule, dirVars
    <2>5. CellOK(w)'
      BY <1>2, <2>1, <2>2, <2>3
      DEF WorkerOK, CellOK, Mine, RightModule, SharedHandle, AfterReset, dirVars
    <2>6. ReportOK(w)'
      BY <1>2, <2>1, <2>2 DEF WorkerOK, ReportOK, Inside
    <2>7. DomainOK(w)' /\ IdleOK(w)'
      BY <1>2, <2>1, <2>2 DEF WorkerOK, DomainOK, IdleOK, EntryDomain
    <2> QED
      BY <2>4, <2>5, <2>6, <2>7 DEF WorkerOK
  <1>6. ASSUME NEW r \in Reqs PROVE AnswerOK(r)'
    <2>1. CASE call[r] # NoCall
      BY <1>2, <1>4, <2>1
      DEF Inv, AnswerOK, ResultOK, PanicOK, AsksModule, RightModule, SharedHandle, dirVars
    <2>2. CASE call[r] = NoCall
      <3>1. outcome'[r].st \in {"unsent", "waiting"}
        BY <1>1, <2>2 DEF Submit, CloseStdin, Base, TypeOK, ServesInv, Outcomes
      <3> QED
        BY <3>1 DEF AnswerOK, ResultOK, PanicOK
    <2> QED
      BY <2>1, <2>2
  <1> QED
    BY <1>1, <1>3, <1>5, <1>6 DEF Inv

\* Neither does the boot, which is over when the first request comes, nor make.
LEMMA InvDirectory ==
    ASSUME Inv, DirNext, UNCHANGED serverVars
    PROVE  Inv'
  <1>1. Base /\ Base'
    BY BaseStep DEF Inv, Next
  <1>2. DirInv'
    BY DirInvStep DEF Inv
  <1>3. phase = "serving" => phase' = phase /\ mapg' = mapg
    BY DEF DirNext, Boot, BeginLoad, LoadEntry, SkipEntry, EntryError, EntryPanic,
           EndLoad, Launch, Make, StartLucetc, FinishLucetc, CleanOne, Changed
  <1>4. OnlyServing'
    BY <1>3 DEF Inv, OnlyServing, serverVars
  <1>5. CASE \E r \in Reqs : call[r] # NoCall
    <2>1. mapg' = mapg
      BY <1>3, <1>5 DEF Inv, OnlyServing
    <2>2. \A w \in Workers : WorkerOK(w)'
      BY <2>1
      DEF serverVars, Inv, WorkerOK, ModuleOK, CellOK, ReportOK, DomainOK, IdleOK, Mine,
          RightModule, SharedHandle, CallOf, HasModule, AfterReset, Inside, EntryDomain
    <2>3. \A r \in Reqs : AnswerOK(r)'
      BY <2>1 DEF serverVars, Inv, AnswerOK, ResultOK, PanicOK, AsksModule,
                  RightModule, SharedHandle
    <2> QED
      BY <1>1, <1>2, <1>4, <2>2, <2>3 DEF Inv
  <1>6. CASE \A r \in Reqs : call[r] = NoCall
    <2>1. \A r \in Reqs : outcome[r].st = "unsent"
      BY <1>1, <1>6 DEF Base, ServesInv
    <2>2. \A w \in Workers : pc[w] \in {"idle", "dead"}
      BY <1>1, <1>6, Serving DEF Base, TypeOK, ServesInv
    <2>3. \A w \in Workers : WorkerOK(w)'
      BY <2>1, <2>2
      DEF serverVars, Inv, WorkerOK, ModuleOK, CellOK, ReportOK, DomainOK, IdleOK,
          HasModule, AfterReset, Inside
    <2>4. \A r \in Reqs : AnswerOK(r)'
      BY <2>1 DEF serverVars, AnswerOK, ResultOK, PanicOK
    <2> QED
      BY <1>1, <1>2, <1>4, <2>3, <2>4 DEF Inv
  <1> QED
    BY <1>5, <1>6

LEMMA InvStep == Inv /\ [Next]_vars => Inv'
<1> SUFFICES ASSUME Inv, [Next]_vars PROVE Inv'
  OBVIOUS
<1>1. CASE DirNext /\ UNCHANGED serverVars
  BY <1>1, InvDirectory
<1>2. CASE (\E r \in Reqs : Submit(r)) \/ CloseStdin
  BY <1>2, InvClients
<1>3. CASE \E w \in Workers : Step(w)
  BY <1>3, InvWorker
<1>4. CASE UNCHANGED vars
  <2>1. Base' /\ DirInv'
    BY <1>4, BaseStep, DirInvStep DEF Inv, vars
  <2>2. OnlyServing'
    BY <1>4 DEF vars, dirVars, serverVars, Inv, OnlyServing
  <2>3. \A w \in Workers : WorkerOK(w)'
    BY <1>4
    DEF vars, dirVars, serverVars, Inv, WorkerOK, ModuleOK, CellOK, ReportOK, DomainOK,
        IdleOK, Mine, RightModule, SharedHandle, CallOf, HasModule, AfterReset, Inside,
        EntryDomain
  <2>4. \A r \in Reqs : AnswerOK(r)'
    BY <1>4 DEF vars, dirVars, serverVars, Inv, AnswerOK, ResultOK, PanicOK,
                AsksModule, RightModule, SharedHandle
  <2> QED
    BY <2>1, <2>2, <2>3, <2>4 DEF Inv
<1> QED
  BY <1>1, <1>2, <1>3, <1>4 DEF Next

(* Inv holds in every reachable state.                                       *)
THEOREM Invariance == Spec => []Inv
  BY InvInit, InvStep, PTL DEF Spec

(* No handler of main.rs ever answers a request with the result of another   *)
(* request, of another module or in another variant.                         *)
THEOREM AnswersAreOwn == Spec => []OwnResult
<1>1. Inv => OwnResult
  BY DEF Inv, AnswerOK, ResultOK, RightModule, OwnResult
<1> QED
  BY <1>1, Invariance, PTL

(* Without ASLR all answers of a module come from the build loaded at boot.  *)
THEOREM AnswersShareTheBuild == Spec => []OneBuildPerBoot
<1>1. Inv => OneBuildPerBoot
  <2> SUFFICES ASSUME Inv, NEW r \in Reqs, NEW s \in Reqs,
                      AsksModule(r), AsksModule(s),
                      outcome[r].st = "ok", outcome[s].st = "ok",
                      NameOf(call[r]) = NameOf(call[s]), ~Aslr(call[r])
               PROVE  outcome[r].res.handle = outcome[s].res.handle
    BY DEF OneBuildPerBoot
  <2>1. call[r].prot = call[s].prot
    BY DEF NameOf, ModuleName
  <2>2. ~Aslr(call[s])
    BY <2>1 DEF Aslr
  <2>3. /\ outcome[r].res.handle = SharedHandle(call[r])
        /\ outcome[s].res.handle = SharedHandle(call[s])
    BY <2>2 DEF Inv, AnswerOK, ResultOK, RightModule
  <2>4. SharedHandle(call[r]) = SharedHandle(call[s])
    BY DEF SharedHandle
  <2> QED
    BY <2>3, <2>4
<1> QED
  BY <1>1, Invariance, PTL

(* A panic, which costs the client its connection, has a cause in its own    *)
(* request: no leftover of an earlier one makes the match on the cell fail.  *)
THEOREM PanicsHaveCause == Spec => []NoSpuriousPanic
<1>1. Inv => NoSpuriousPanic
  BY DEF Inv, AnswerOK, PanicOK, NoSpuriousPanic
<1> QED
  BY <1>1, Invariance, PTL

(* An idle thread keeps no report but of a request that ended in an error.   *)
THEOREM LeftoversAreOfErrors == Spec => []LeftoverOnlyOfError
<1>1. Inv => LeftoverOnlyOfError
  BY DEF Inv, WorkerOK, CellOK, AfterReset, LeftoverOnlyOfError
<1> QED
  BY <1>1, Invariance, PTL

(* The address space of a sandbox is given back on every path.               *)
THEOREM RegionsAreReleased == Spec => []RegionsReleased
<1>1. Inv => RegionsReleased
  BY DEF Inv, WorkerOK, ModuleOK, RegionsReleased
<1> QED
  BY <1>1, Invariance, PTL

(* copy_data_out puts the MPK domain of the guest back.                      *)
THEOREM MpkIsRestored == Spec => []MpkRestored
<1>1. Inv => MpkRestored
  BY DEF Inv, WorkerOK, DomainOK, MpkRestored
<1> QED
  BY <1>1, Invariance, PTL

-----------------------------------------------------------------------------
(* Every request comes to its end: what a worker still has to do falls with *)
(* each of its steps, whatever the other threads, make and clients do.      *)

\* What a guest may still do: two steps for each report it may make, and its end.
Turns == MaxReports + 1
GuestRank == 3 + 2 * Turns

\* How many steps a worker takes at most until it is idle again, the wait for
\* the end of standard input apart.
WorkRank(w) ==
    CASE pc[w] = "idle"     -> 0
      [] pc[w] = "dead"     -> 1
      [] pc[w] = "stream"   -> 1
      [] pc[w] = "take"     -> 2
      [] pc[w] = "guest"    -> GuestRank - 2 * reports[w]
      [] pc[w] = "hostcall" -> GuestRank - 2 * reports[w] + 1
      [] pc[w] = "unwrap"   -> GuestRank + 1
      [] pc[w] = "reset"    -> GuestRank + 2
      [] pc[w] = "build"    -> GuestRank + 3
      [] pc[w] = "region"   -> GuestRank + 4
      [] pc[w] = "wasi"     -> GuestRank + 5
      [] pc[w] = "lookup"   -> GuestRank + 6
      [] pc[w] = "decode"   -> GuestRank + 7
      [] pc[w] = "body"     -> GuestRank + 8

\* No guest makes more reports than its handler counts on.
ReportsBounded == \A w \in Workers : reports[w] <= Turns
RankInv == Base /\ ReportsBounded

\* A busy worker gets closer to its end by its own steps, and is never thrown back by
\* those of others; an idle worker takes a waiting request; and none that was
\* taken waits for a second time.
GetsCloser ==
    /\ \A w \in Workers :
           /\ pc[w] # "idle" /\ Step(w) => WorkRank(w)' < WorkRank(w)
           /\ pc[w] # "idle" /\ ~Step(w) => WorkRank(w)' = WorkRank(w)
           /\ pc[w] = "idle" /\ Step(w) => \E r \in Reqs : Waiting(r) /\ ~Waiting(r)'
    /\ \A r \in Reqs : call[r] # NoCall /\ Waiting(r)' => Waiting(r)

-----------------------------------------------------------------------------
\* The rank is a natural number, and the end is where it is 0.
LEMMA WorkRankType ==
    ASSUME RankInv, NEW w \in Workers
    PROVE  WorkRank(w) \in Nat
  <1>1. pc[w] \in Pcs /\ reports[w] \in Nat /\ reports[w] <= Turns
    BY DEF RankInv, Base, TypeOK, ReportsBounded
  <1>2. MaxReports \in Nat
    BY ServerAssumption
  <1> QED
    BY <1>1, <1>2 DEF WorkRank, GuestRank, Turns, Pcs

\* A handler that is over has at most the thread's replacement ahead of it.
LEMMA LeaveRank ==
    ASSUME RankInv, NEW w \in Workers, NEW label \in {"idle", "dead"}, NEW a,
           Leave(w, label, a), pc[w] \notin {"idle", "dead", "stream"}
    PROVE  /\ WorkRank(w)' < WorkRank(w)
           /\ reports'[w] <= Turns
  <1>1. /\ pc[w] \in Pcs \ {"idle", "dead", "stream"}
        /\ reports[w] \in Nat /\ reports[w] <= Turns
        /\ MaxReports \in Nat
    BY ServerAssumption DEF RankInv, Base, TypeOK, ReportsBounded
  <1>2. pc'[w] = label /\ reports'[w] = 0
    BY DEF Leave, Goto, RankInv, Base, TypeOK
  <1>3. WorkRank(w) >= 2
    BY <1>1 DEF WorkRank, GuestRank, Turns, Pcs
  <1>4. WorkRank(w)' \in {0, 1}
    BY <1>2 DEF WorkRank
  <1>5. WorkRank(w) \in Nat
    BY WorkRankType
  <1> QED
    BY <1>1, <1>2, <1>3, <1>4, <1>5 DEF Turns

\* A worker on its way to the guest goes from one statement to the next.
LEMMA MoveRank ==
    ASSUME RankInv, NEW w \in Workers, NEW label \in Pcs, Goto(w, label),
           reports' = reports,
           <<pc[w], label>> \in
               {<<"body", "decode">>, <<"decode", "lookup">>, <<"lookup", "wasi">>,
                <<"wasi", "region">>, <<"wasi", "reset">>, <<"region", "build">>,
                <<"region", "reset">>, <<"build", "reset">>, <<"reset", "unwrap">>,
                <<"unwrap", "guest">>, <<"hostcall", "guest">>, <<"guest", "take">>,
                <<"dead", "idle">>}
    PROVE  /\ WorkRank(w)' < WorkRank(w)
           /\ reports'[w] <= Turns
  <1>1. /\ reports[w] \in Nat /\ reports[w] <= Turns
        /\ MaxReports \in Nat
    BY ServerAssumption DEF RankInv, Base, TypeOK, ReportsBounded
  <1>2. pc'[w] = label /\ reports'[w] = reports[w]
    BY DEF Goto, RankInv, Base, TypeOK
  <1> QED
    BY <1>1, <1>2 DEF WorkRank, GuestRank, Turns

\* A report costs one of those the guest may make.
LEMMA ReportRank ==
    ASSUME RankInv, NEW w \in Workers, NEW kind, HostcallCopy(w, kind)
    PROVE  /\ WorkRank(w)' < WorkRank(w)
           /\ reports'[w] <= Turns
  <1>1. /\ reports[w] \in Nat /\ reports[w] <= Turns
        /\ MaxReports \in Nat
    BY ServerAssumption DEF RankInv, Base, TypeOK, ReportsBounded
  <1>2. pc[w] = "guest" /\ pc'[w] = "hostcall" /\ reports'[w] = reports[w] + 1
    BY DEF HostcallCopy, Goto, RankInv, Base, TypeOK
  <1>3. reports[w] < MaxReports \/ reports[w] = 0
    BY DEF HostcallCopy, MayReport
  <1> QED
    BY <1>1, <1>2, <1>3 DEF WorkRank, GuestRank, Turns

\* Every step of a busy worker brings it closer to its end.
LEMMA BusyWorker ==
    ASSUME RankInv, NEW w \in Workers, Step(w), pc[w] # "idle"
    PROVE  /\ WorkRank(w)' < WorkRank(w)
           /\ reports'[w] <= Turns
  <1>1. CASE FinishStream(w)
    <2>1. pc[w] = "stream" /\ pc'[w] = "idle" /\ reports'[w] = 0 /\ MaxReports \in Nat
      BY <1>1, ServerAssumption DEF FinishStream, Leave, Goto, RankInv, Base, TypeOK
    <2> QED
      BY <2>1 DEF WorkRank, Turns
  <1>2. CASE ReadBody(w)
    BY <1>2, LeaveRank, MoveRank DEF ReadBody, Fail, Pcs
  <1>3. CASE Decode(w)
    BY <1>3, LeaveRank, MoveRank DEF Decode, Fail, Pcs
  <1>4. CASE Lookup(w)
    BY <1>4, LeaveRank, MoveRank DEF Lookup, Panic, Pcs
  <1>5. CASE BuildWasi(w)
    BY <1>5, LeaveRank, MoveRank DEF BuildWasi, Returns, Panic, Pcs
  <1>6. CASE CreateRegion(w)
    BY <1>6, MoveRank DEF CreateRegion, Returns, Pcs
  <1>7. CASE BuildInstance(w)
    BY <1>7, MoveRank DEF BuildInstance, Returns, Pcs
  <1>8. CASE ResetCell(w)
    BY <1>8, MoveRank DEF ResetCell, Pcs
  <1>9. CASE RunInstance(w)
    BY <1>9, LeaveRank, MoveRank DEF RunInstance, Fail, Pcs
  <1>10. CASE \E kind \in {"ByteArray", "String"} : HostcallCopy(w, kind)
    BY <1>10, ReportRank
  <1>11. CASE HostcallPublish(w)
    BY <1>11, MoveRank DEF HostcallPublish, Pcs
  <1>12. CASE HostcallFault(w)
    BY <1>12, LeaveRank DEF HostcallFault, Panic
  <1>13. CASE GuestFault(w)
    BY <1>13, LeaveRank DEF GuestFault, Fail
  <1>14. CASE GuestReturn(w)
    BY <1>14, MoveRank DEF GuestReturn, Pcs
  <1>15. CASE TakeResult(w)
    BY <1>15, LeaveRank DEF TakeResult, Panic
  <1>16. CASE Respawn(w)
    BY <1>16, MoveRank DEF Respawn, Pcs
  <1> QED
    BY <1>1, <1>2, <1>3, <1>4, <1>5, <1>6, <1>7, <1>8, <1>9, <1>10, <1>11, <1>12,
       <1>13, <1>14, <1>15, <1>16 DEF Step, Accept

\* An idle worker can only take a request, which then waits no longer.
LEMMA IdleWorker ==
    ASSUME RankInv, NEW w \in Workers, Step(w), pc[w] = "idle"
    PROVE  /\ \E r \in Reqs : Waiting(r) /\ ~Waiting(r)'
           /\ reports'[w] <= Turns
  <1>1. PICK r \in Reqs : Accept(w, r)
    BY DEF Step, FinishStream, ReadBody, Decode, Lookup, BuildWasi, CreateRegion,
           BuildInstance, ResetCell, RunInstance, HostcallCopy, HostcallPublish,
           HostcallFault, GuestFault, GuestReturn, TakeResult, Respawn
  <1>2. Waiting(r) /\ reports' = reports
    BY <1>1 DEF Accept
  <1>3. CASE FirstStep(call[r]) = "respond"
    <2>1. outcome'[r] = StaticAnswer(call[r])
      BY <1>1, <1>3 DEF Accept, RankInv, Base, TypeOK
    <2>2. outcome'[r].st # "waiting"
      BY <2>1 DEF StaticAnswer
    <2> QED
      BY <1>2, <2>2 DEF Waiting, RankInv, ReportsBounded
  <1>4. CASE FirstStep(call[r]) # "respond"
    <2>1. cur'[w] = r
      BY <1>1, <1>4 DEF Accept, RankInv, Base, TypeOK
    <2> QED
      BY <1>2, <2>1 DEF Waiting, RankInv, ReportsBounded
  <1> QED
    BY <1>3, <1>4

\* What does not touch the workers leaves them where they are.
LEMMA OutsideRank ==
    ASSUME Next, \A w \in Workers : ~Step(w)
    PROVE  pc' = pc /\ reports' = reports /\ cur' = cur
  BY DEF Next, serverVars, Submit, CloseStdin

LEMMA RankStep == RankInv /\ [Next]_vars => RankInv'
<1> SUFFICES ASSUME RankInv, [Next]_vars PROVE RankInv'
  OBVIOUS
<1>1. Base'
  BY BaseStep DEF RankInv
<1>2. CASE UNCHANGED vars \/ \A w \in Workers : ~Step(w)
  <2>1. reports' = reports
    BY <1>2, OutsideRank DEF vars, serverVars
  <2> QED
    BY <1>1, <2>1 DEF RankInv, ReportsBounded, Turns
<1>3. ASSUME NEW w \in Workers, Step(w) PROVE RankInv'
  <2>1. reports'[w] <= Turns
    BY <1>3, BusyWorker, IdleWorker
  <2>2. \A v \in Workers \ {w} : reports'[v] = reports[v]
    BY <1>3, StepFrame DEF RankInv
  <2> QED
    BY <1>1, <2>1, <2>2 DEF RankInv, ReportsBounded, Turns
<1> QED
  BY <1>2, <1>3

LEMMA RankInit == Init => RankInv
<1> SUFFICES ASSUME Init PROVE RankInv
  OBVIOUS
<1>1. Base /\ MaxReports \in Nat
  BY BaseInit, ServerAssumption
<1>2. ReportsBounded
  BY <1>1 DEF Init, ReportsBounded, Turns
<1> QED
  BY <1>1, <1>2 DEF RankInv

\* A request that was taken is answered before its worker forgets it.
LEMMA TakenOnce ==
    ASSUME RankInv, Next, NEW r \in Reqs, call[r] # NoCall, Waiting(r)'
    PROVE  Waiting(r)
  <1>1. outcome[r].st = "waiting"
    <2>1. ~Answered(r)
      BY AnswersStay DEF RankInv, Answered, Waiting
    <2>2. outcome[r].st \in Statuses /\ outcome[r].st # "unsent"
      BY DEF RankInv, Base, ServesInv, TypeOK, Outcomes
    <2> QED
      BY <2>1, <2>2 DEF Answered, Statuses
  <1>2. ASSUME NEW w \in Workers, cur[w] = r PROVE FALSE
    <2>1. cur'[w] # r /\ outcome'[r].st = "waiting"
      BY DEF Waiting
    <2>2. PICK v \in Workers : Step(v)
      BY <1>2, <2>1, OutsideRank
    <2>3. v = w
      BY <1>2, <2>1, <2>2, StepFrame DEF RankInv
    <2>4. pc[w] # "idle" /\ pc[w] # "dead"
      BY <1>2, ServerAssumption DEF RankInv, Base, ServesInv
    <2>5. PICK a, label : Leave(w, label, a) /\ a.st # "waiting"
      BY <1>2, <2>1, <2>2, <2>3, <2>4
      DEF Step, Accept, FinishStream, ReadBody, Decode, Lookup, BuildWasi, CreateRegion,
          BuildInstance, ResetCell, RunInstance, HostcallCopy, HostcallPublish,
          HostcallFault, GuestFault, GuestReturn, TakeResult, Respawn, Fail, Panic
    <2>6. outcome'[r] = a
      BY <1>2, <2>5 DEF Leave, RankInv, Base, TypeOK
    <2> QED
      BY <2>1, <2>5, <2>6
  <1> QED
    BY <1>1, <1>2 DEF Waiting

LEMMA CloserStep == RankInv /\ [Next]_vars => [GetsCloser]_vars
<1> SUFFICES ASSUME RankInv, Next PROVE GetsCloser
  OBVIOUS
<1>1. ASSUME NEW w \in Workers, ~Step(w) PROVE WorkRank(w)' = WorkRank(w)
  <2>1. pc'[w] = pc[w] /\ reports'[w] = reports[w]
    <3>1. CASE \A v \in Workers : ~Step(v)
      BY <3>1, OutsideRank
    <3>2. ASSUME NEW v \in Workers, Step(v)
          PROVE  pc'[w] = pc[w] /\ reports'[w] = reports[w]
      BY <1>1, <3>2, StepFrame DEF RankInv
    <3> QED
      BY <3>1, <3>2
  <2> QED
    BY <2>1 DEF WorkRank
<1>2. \A w \in Workers : pc[w] # "idle" /\ Step(w) => WorkRank(w)' < WorkRank(w)
  BY BusyWorker
<1>3. \A w \in Workers :
          pc[w] = "idle" /\ Step(w) => \E r \in Reqs : Waiting(r) /\ ~Waiting(r)'
  BY IdleWorker
<1>4. \A r \in Reqs : call[r] # NoCall /\ Waiting(r)' => Waiting(r)
  BY TakenOnce
<1> QED
  BY <1>1, <1>2, <1>3, <1>4 DEF GetsCloser

(* A request is taken by one worker, once, and the handler of main.rs that   *)
(* serves it has a bounded number of steps ahead of it, hostcalls of a       *)
(* foreign guest included, which only its own steps change, and lower: no    *)
(* other thread, no rebuild and no client sends it back.                     *)
THEOREM RequestsGetCloser ==
    Spec => [](\A w \in Workers : WorkRank(w) \in Nat) /\ [][GetsCloser]_vars
<1>1. Init => RankInv
  BY RankInit
<1>2. RankInv /\ [Next]_vars => RankInv'
  BY RankStep
<1>3. RankInv => \A w \in Workers : WorkRank(w) \in Nat
  BY WorkRankType
<1>4. RankInv /\ [Next]_vars => [GetsCloser]_vars
  BY CloserStep
<1> QED
  BY <1>1, <1>2, <1>3, <1>4, PTL DEF Spec

-----------------------------------------------------------------------------
(* The refinement: the first state maps to a first state of the service, and *)
(* every step to a step or to none. *)

LEMMA ServiceInit == Init => Service!Init
  BY DEF Init, DirInit, Service!Init, Catalog

\* The catalog is fixed once the server listens, and empty before.
LEMMA DirectoryImplements ==
    ASSUME Inv, DirNext, UNCHANGED serverVars
    PROVE  [Service!Next]_(Service!vars)
  <1>1. call' = call /\ outcome' = outcome
    BY DEF serverVars
  <1>2. CASE Launch /\ phase' = "serving"
    <2>1. Service!Open
      BY <1>1, <1>2 DEF Launch, Service!Open, Catalog, Inv, DirInv, DirTypeOK
    <2> QED
      BY <2>1 DEF Service!Next
  <1>3. CASE ~(Launch /\ phase' = "serving")
    <2>1. /\ (phase = "serving") <=> (phase' = "serving")
          /\ phase = "serving" => mapg' = mapg
      BY <1>3 DEF DirNext, Boot, BeginLoad, LoadDirFails, LoadEntry, SkipEntry, EntryError,
           EntryPanic, EndLoad, Launch, Make, StartLucetc, FinishLucetc, CleanOne, Changed
    <2>2. UNCHANGED Service!vars
      BY <1>1, <2>1 DEF Service!vars, Catalog
    <2> QED
      BY <2>2
  <1> QED
    BY <1>2, <1>3

LEMMA SubmitImplements ==
    ASSUME NEW r \in Reqs, Submit(r)
    PROVE  Service!Next
  <1>1. Service!Submit(r)
    BY DEF Submit, Service!Submit, Catalog, dirVars
  <1> QED
    BY <1>1 DEF Service!Next

\* An answer the service allows, given to a request that waits for one.
LEMMA AnswerImplements ==
    ASSUME Inv, NEW r \in Reqs, call[r] # NoCall, outcome[r].st = "waiting",
           NEW a \in Service!Answers(r), outcome' = [outcome EXCEPT ![r] = a],
           UNCHANGED <<dirVars, call>>
    PROVE  Service!Next
  <1>1. Service!Answer(r)
    BY DEF Service!Answer, Catalog, dirVars
  <1> QED
    BY <1>1 DEF Service!Next

\* Whatever ends a handler, the request gets such an answer.
LEMMA FailImplements ==
    ASSUME Inv, NEW w \in Workers, pc[w] \in Inside, Fail(w) \/ Panic(w)
    PROVE  Service!Next
  <1> DEFINE a == IF Fail(w) THEN [st |-> "error", res |-> Empty]
                             ELSE [st |-> "dropped", res |-> Empty]
  <1>1. /\ cur[w] \in Reqs /\ call[cur[w]] # NoCall /\ outcome[cur[w]].st = "waiting"
        /\ call[cur[w]].route \in Endpoints
    BY Serving, ServerAssumption DEF Inv, Inside, CallOf
  <1>2. outcome' = [outcome EXCEPT ![cur[w]] = a] /\ UNCHANGED <<dirVars, call>>
    BY DEF Fail, Panic, Leave
  <1>3. a \in Service!Answers(cur[w])
    BY <1>1 DEF Service!Answers, IsModuleCall
  <1> QED
    BY <1>1, <1>2, <1>3, AnswerImplements

LEMMA TakeImplements ==
    ASSUME Inv, NEW w \in Workers, TakeResult(w)
    PROVE  Service!Next
  <1>0. pc[w] = "take" /\ pc[w] \in Inside
    BY DEF TakeResult, Inside, Pcs
  <1>1. /\ cur[w] \in Reqs /\ call[cur[w]] # NoCall /\ outcome[cur[w]].st = "waiting"
        /\ CallOf(w) \in Calls /\ CallOf(w).route \in Endpoints
    BY <1>0, Serving, ServerAssumption DEF Inv, CallOf
  <1>2. CASE Panic(w)
    BY <1>0, <1>2, FailImplements
  <1>3. CASE /\ cell[w].kind = HandlerOf(w).expects
             /\ Leave(w, "idle", [st |-> "ok", res |-> cell[w]])
    <2>1. cell[w] \in Results /\ cell[w] # Empty
      BY <1>1, <1>3, ModuleCall DEF HandlerOf, Empty, Inv, Base, TypeOK
    <2>2. Mine(w, cell[w])
      BY <1>0, <2>1 DEF Inv, WorkerOK, CellOK, AfterReset
    <2>3. cell[w] = [kind |-> Expects(CallOf(w)), owner |-> cur[w],
                     handle |-> cell[w].handle]
      BY <1>3, <2>1, <2>2 DEF Results, Mine, Expects, HandlerOf
    <2>4. cell[w] \in Service!Reports(cur[w])
      <3>1. CASE Aslr(CallOf(w))
        <4>1. PICK b \in Builds :
                  cell[w].handle = [name |-> NameOf(CallOf(w)), build |-> b, own |-> TRUE]
          BY <2>2, <3>1 DEF Mine, RightModule, OwnHandles
        <4>2. Aslr(CallOf(w)) = TRUE
          BY <3>1 DEF Aslr
        <4> QED
          BY <2>3, <3>1, <4>1, <4>2 DEF Service!Reports, CallOf
      <3>2. CASE ~Aslr(CallOf(w))
        <4>1. cell[w].handle = SharedHandle(CallOf(w))
          BY <2>2, <3>2 DEF Mine, RightModule
        <4>2. cell[w].handle \in Handles
          BY <2>1, <2>2 DEF Results, Mine, RightModule
        <4>3. mapg[NameOf(CallOf(w))] \in Builds
          BY <4>1, <4>2 DEF SharedHandle, Handles
        <4>4. Catalog = mapg
          BY <1>1 DEF Catalog, Inv, OnlyServing
        <4>5. Aslr(CallOf(w)) = FALSE
          BY <3>2 DEF Aslr
        <4> QED
          BY <2>3, <3>2, <4>1, <4>3, <4>4, <4>5 DEF Service!Reports, CallOf, SharedHandle
      <3> QED
        BY <3>1, <3>2
    <2>5. [st |-> "ok", res |-> cell[w]] \in Service!Answers(cur[w])
      BY <1>1, <2>4 DEF Service!Answers, IsModuleCall, CallOf
    <2>6. /\ outcome' = [outcome EXCEPT ![cur[w]] = [st |-> "ok", res |-> cell[w]]]
          /\ UNCHANGED <<dirVars, call>>
      BY <1>3 DEF Leave
    <2> QED
      BY <1>1, <2>5, <2>6, AnswerImplements
  <1> QED
    BY <1>2, <1>3 DEF TakeResult, CellOf

LEMMA OutsideImplements ==
    ASSUME Inv, NEW w \in Workers, (\E r \in Reqs : Accept(w, r)) \/ FinishStream(w)
    PROVE  Service!Next \/ UNCHANGED <<dirVars, call, outcome>>
  <1>1. ASSUME NEW r \in Reqs, Accept(w, r), FirstStep(call[r]) = "respond"
        PROVE  Service!Next
    <2>1. call[r].route \notin Endpoints
      BY <1>1 DEF FirstStep
    <2>2. StaticAnswer(call[r]) \in Service!Answers(r)
      BY <2>1 DEF StaticAnswer, Service!Answers, IsModuleCall, IsUnrouted
    <2> QED
      BY <1>1, <2>2, AnswerImplements DEF Accept, Waiting
  <1>2. ASSUME NEW r \in Reqs, Accept(w, r), FirstStep(call[r]) # "respond"
        PROVE  UNCHANGED <<dirVars, call, outcome>>
    BY <1>2 DEF Accept
  <1>3. CASE FinishStream(w)
    <2>1. /\ cur[w] \in Reqs /\ call[cur[w]] # NoCall /\ outcome[cur[w]].st = "waiting"
      BY <1>3, Serving, ServerAssumption DEF FinishStream, Inv, CallOf
    <2>2. call[cur[w]].route = "stream"
      BY <1>3 DEF FinishStream, Inv, Base, ServesInv, CallOf
    <2>3. [st |-> "ok", res |-> Empty] \in Service!Answers(cur[w])
      BY <2>2 DEF Service!Answers, IsModuleCall, IsUnrouted, Endpoints
    <2> QED
      BY <1>3, <2>1, <2>3, AnswerImplements DEF FinishStream, Leave
  <1> QED
    BY <1>1, <1>2, <1>3

LEMMA WorkerImplements ==
    ASSUME Inv, NEW w \in Workers, Step(w)
    PROVE  [Service!Next]_(Service!vars)
  <1>1. CASE UNCHANGED <<dirVars, call, outcome>>
    BY <1>1 DEF Service!vars, Catalog, dirVars
  <1>2. CASE pc[w] \in Inside /\ (Fail(w) \/ Panic(w))
    BY <1>2, FailImplements
  <1>3. CASE TakeResult(w)
    BY <1>3, TakeImplements
  <1>4. CASE (\E r \in Reqs : Accept(w, r)) \/ FinishStream(w)
    BY <1>1, <1>4, OutsideImplements
  <1> QED
    BY <1>1, <1>2, <1>3, <1>4
    DEF Step, ReadBody, Decode, Lookup, BuildWasi, CreateRegion, BuildInstance,
        ResetCell, RunInstance, HostcallCopy, HostcallPublish, HostcallFault,
        GuestFault, GuestReturn, Respawn, Inside, Pcs

LEMMA ServiceStep == Inv /\ [Next]_vars => [Service!Next]_(Service!vars)
<1> SUFFICES ASSUME Inv, [Next]_vars PROVE [Service!Next]_(Service!vars)
  OBVIOUS
<1>1. CASE DirNext /\ UNCHANGED serverVars
  BY <1>1, DirectoryImplements
<1>2. CASE \E r \in Reqs : Submit(r)
  BY <1>2, SubmitImplements
<1>3. CASE CloseStdin
  BY <1>3 DEF CloseStdin, Service!vars, Catalog, dirVars
<1>4. CASE \E w \in Workers : Step(w)
  BY <1>4, WorkerImplements
<1>5. CASE UNCHANGED vars
  BY <1>5 DEF vars, dirVars, serverVars, Service!vars, Catalog
<1> QED
  BY <1>1, <1>2, <1>3, <1>4, <1>5 DEF Next

(* The server implements the abstract service: whatever its threads, its     *)
(* guests, make and the loader do, its clients see a behaviour of            *)
(* ResponseService.                                                          *)
THEOREM Implements == Spec => ServiceSpec
<1>1. Init => Service!Init
  BY ServiceInit
<1>2. Inv /\ [Next]_vars => [Service!Next]_(Service!vars)
  BY ServiceStep
<1> QED
  BY <1>1, <1>2, Invariance, PTL DEF Spec, ServiceSpec, Service!Spec
=============================================================================
