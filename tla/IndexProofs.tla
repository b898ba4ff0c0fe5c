----------------------------- MODULE IndexProofs -----------------------------
(***************************************************************************)
(* The index in memory, one section each: its definitions, subtypes and    *)
(* bare names (IndexMaps), and the tasks that add the members of a library *)
(* class to it in the background (Enrichment).                             *)
(***************************************************************************)
EXTENDS IndexMaps, Enrichment, TLAPS, FiniteSetTheorems, SequenceTheorems

(***************************************************************************)
(* The maps and the name caches of the index keep up with the file data,   *)
(* for every set of files, texts and names and any number of operations.   *)
(*                                                                         *)
(* The maps are exact at rest because of what holds while they are being   *)
(* written.  A library file is exact at every step (LibraryInv), since no  *)
(* job touches it and a reset keeps it.  A workspace file is exact until a *)
(* job has removed what is stale, and from then on the job has all of it   *)
(* still to write (ExactInv); where jobs overlap, a name that is missing   *)
(* has at least one job that will write it (ReachInv).                     *)
(***************************************************************************)

Counts == [Names \X Files -> Nat]
Known == Names \cup JarNames
JobRecord == [at : JobSteps, file : Maybe(Files), text : Maybe(Texts), ensure : BOOLEAN]
TaskRecord == [at : TaskSteps, found : [Workspace -> Maybe(Texts)], todo : SUBSET Files]
RequestRecord == [at : RequestSteps, bare : BOOLEAN, epoch : Nat, result : SUBSET Known]
RebuildRecord == [at : RebuildSteps, map : SUBSET Known]

(* The types of the variables; how high a count may get is Counted.        *)
FilesTyped ==
  /\ files \in [Files -> Maybe(SUBSET Names)]
  /\ content_hashes \in [Files -> Maybe(Texts)]
  /\ library_uris \subseteq External
MapsTyped ==
  /\ definitions \in Counts /\ subtypes \in Counts
  /\ definition_keys \subseteq Names
  /\ qualified \in [Names -> Maybe(Files)]
  /\ overlap \in {"None", "File", "Scan"}
  /\ started \in 0..MaxOperations
JobsTyped ==
  /\ jobs \in [JobIds -> JobRecord]
  /\ \A j \in JobIds : jobs[j].at # "None" => jobs[j].file \in Workspace /\ jobs[j].text \in Texts
TaskTyped ==
  /\ task \in TaskRecord
  /\ task.todo \subseteq {f \in Workspace : task.found[f] # None}
  /\ task.at \in {"Idle", "Rebuild", "Paths", "RestoreDirty", "PathsRebuild"} => task.todo = {}
CachesTyped ==
  /\ jar_names \subseteq JarNames /\ noted \subseteq JarNames
  /\ bare_names \subseteq Known /\ importable \subseteq Known
  /\ dirty \in BOOLEAN
  /\ completion_epoch \in Nat
  /\ last_completion \in Maybe(SUBSET Known)
  /\ populate \in {"Idle", "Clear", "Bump", "Done"}
  /\ request \in RequestRecord
  /\ rebuild \in [Rebuilders -> RebuildRecord]

(* A file of the library is exact, whatever overlaps.                      *)
LibraryInv ==
  \A f \in External :
    /\ files[f] \in {None, LibraryNames(f)}
    /\ files[f] # None => f \in library_uris
    /\ \A n \in Names : /\ definitions[<<n, f>>] > 0 <=> n \in NamesIn(f)
                        /\ subtypes[<<n, f>>] > 0 <=> n \in NamesIn(f)
                        /\ qualified[n] = f => n \in NamesIn(f)

(* A job that does not overlap the scan finds the scan elsewhere.  A reset *)
(* starts with the file data.                                              *)
ScanInv ==
  overlap # "Scan" =>
    /\ task.at \in Applying => \A j \in JobIds : ~Active(j)
    /\ task.at = "ResetMaps" => \A f \in Workspace : files[f] = None

(* The job will write name n of file f.                                    *)
WillWrite(j, f, n) ==
  /\ jobs[j].file = f
  /\ \/ jobs[j].at \in {"StoreHash", "StoreFile"}
     \/ jobs[j].at = "StoreMaps" /\ n \in Declares[jobs[j].text]

ReachInv ==
  overlap # "Scan" =>
    \A f \in Workspace : \A n \in NamesIn(f) :
      \/ definitions[<<n, f>>] > 0 /\ subtypes[<<n, f>>] > 0
      \/ \E j \in JobIds : WillWrite(j, f, n)

Writing(j) == jobs[j].at \in {"StoreHash", "StoreFile", "StoreMaps"}
BeingWritten(f) == \E j \in JobIds : Writing(j) /\ jobs[j].file = f

ExactInv ==
  overlap = "None" =>
    /\ \A i, j \in JobIds : Active(i) /\ Active(j) /\ jobs[i].file = jobs[j].file => i = j
    /\ \A f \in Workspace :
         /\ task.at \in Resetting \/ f \in task.todo => files[f] = None
         /\ task.at # "ResetMaps" =>
              \A n \in Names :
                IF n \in NamesIn(f) /\ ~BeingWritten(f)
                  THEN definitions[<<n, f>>] = 1 /\ subtypes[<<n, f>>] = 1
                  ELSE definitions[<<n, f>>] = 0 /\ subtypes[<<n, f>>] = 0 /\ qualified[n] # f

HashIsOf(f) ==
  IF content_hashes[f] = None THEN files[f] = None ELSE files[f] = Declares[content_hashes[f]]

HashInv ==
  overlap = "None" =>
    /\ task.at \notin {"ResetMaps", "ResetRest"} =>
         \A f \in Workspace :
           HashIsOf(f) \/ \E j \in JobIds : jobs[j].at = "StoreFile" /\ jobs[j].file = f
    /\ \A j \in JobIds :
         /\ jobs[j].at = "StoreFile" => content_hashes[jobs[j].file] = jobs[j].text
         /\ jobs[j].at = "StoreMaps" => files[jobs[j].file] = Declares[jobs[j].text]

(* How often a map may have an entry: one operation adds at most one.      *)
Due(f) ==
  \/ f \in Workspace /\ (task.at \in Resetting \/ f \in task.todo)
  \/ f \in External /\ task.at \in Scanning \cup {"Paths"}
Pending(f) == IF Due(f) THEN 1 ELSE 0
Counted ==
  \A f \in Files :
    /\ Pending(f) <= started
    /\ (\E j \in JobIds : Active(j)) => Pending(f) + 1 <= started
    /\ \A n \in Names : /\ definitions[<<n, f>>] + Pending(f) <= started
                        /\ subtypes[<<n, f>>] + Pending(f) <= started

MapsInv == LibraryInv /\ ScanInv /\ ReachInv /\ ExactInv /\ HashInv /\ Counted

(* Who called rebuild_bare_name_cache waits for it.                        *)
CallInv == \A p \in Rebuilders : rebuild[p].at # "No" => Calls(p)

(* What a request has not seen of the JARs was announced after it began.   *)
SeenInv ==
  /\ noted \subseteq jar_names
  /\ request.epoch <= completion_epoch
  /\ request.at = "Store" /\ ~request.bare /\ request.epoch = completion_epoch =>
       noted \subseteq request.result

Typed == FilesTyped /\ MapsTyped /\ JobsTyped /\ TaskTyped /\ CachesTyped
IndexInv == Typed /\ MapsInv /\ CallInv /\ SeenInv

-----------------------------------------------------------------------------
(* None is no set of names.                                                *)
LEMMA NoneIsNone ==
  /\ None \notin Files /\ None \notin Texts /\ None \notin Names
  /\ None \notin SUBSET Names /\ None \notin SUBSET Known
  /\ External \subseteq Files /\ Workspace \subseteq Files
  /\ \A f \in Files : f \in External <=> f \notin Workspace
  /\ MaxOperations \in Nat
BY IndexMapsAssumption DEF Known, Workspace

LEMMA DeclaresTyped == \A t \in Texts : Declares[t] \in SUBSET Names
BY IndexMapsAssumption

LEMMA LibraryNamesTyped == \A f \in External : LibraryNames(f) \in SUBSET Names
BY IndexMapsAssumption DEF LibraryNames

LEMMA NamesInTyped == ASSUME FilesTyped PROVE \A f \in Files : NamesIn(f) \subseteq Names
BY DEF FilesTyped, NamesIn, Maybe

-----------------------------------------------------------------------------
(* The operators on maps, entry by entry.                                  *)
(* An entry of a map is that of a pair.                                    *)
LEMMA PairEntry ==
  ASSUME NEW map, NEW n, NEW f
  PROVE  map[n, f] = map[<<n, f>>]
BY Zenon

(* What ResetMaps and Compute do, but for the names they list.             *)
LEMMA ResetMapsDoes ==
  ResetMaps =>
    /\ TaskStep("ResetMaps", "ResetRest")
    /\ definitions' = Retained(definitions) /\ subtypes' = Retained(subtypes)
    /\ definition_keys' \subseteq Names
    /\ qualified' = [n \in Names |->
                       IF qualified[n] \in library_uris THEN qualified[n] ELSE None]
    /\ UNCHANGED <<fileVars, nameVars, dirty, lastVars, jarVars, jobs,
                   request, rebuild,
                   overlap>>
BY Zenon DEF ResetMaps

LEMMA ComputeDoes ==
  ASSUME Compute, {bare_names} \subseteq SUBSET Known, jar_names \subseteq Known
  PROVE  \E result \in SUBSET Known :
           /\ request.at = "Compute"
           /\ request' = [request EXCEPT !.at = "Store", !.result = result]
           /\ ~request.bare => jar_names \subseteq result
           /\ UNCHANGED <<OutsideRequest, last_completion>>
<1> DEFINE members == {n \in Names : \E f \in Files : definitions[n, f] > 0}
           result == IF request.bare THEN bare_names ELSE members \cup jar_names
<1>1. members \subseteq Names
  BY Zenon
<1>2. /\ request.at = "Compute"
      /\ request' = [request EXCEPT !.at = "Store", !.result = result]
      /\ UNCHANGED <<OutsideRequest, last_completion>>
  BY Zenon DEF Compute
<1> HIDE DEF members
<1>3. result \in SUBSET Known /\ (~request.bare => jar_names \subseteq result)
  BY <1>1 DEF Known
<1> HIDE DEF result
<1>4. QED
  BY <1>2, <1>3

LEMMA EntryTyped ==
  ASSUME NEW map \in Counts
  PROVE  \A n \in Names, f \in Files : map[<<n, f>>] \in Nat
BY DEF Counts

LEMMA InsertedAt ==
  ASSUME NEW map \in Counts, NEW new
  PROVE  /\ Inserted(map, new) \in Counts
         /\ \A n \in Names, f \in Files :
              Inserted(map, new)[<<n, f>>] =
                IF <<n, f>> \in new /\ map[<<n, f>>] = 0 THEN 1 ELSE map[<<n, f>>]
BY DEF Inserted, Counts

LEMMA ExtendedAt ==
  ASSUME NEW map \in Counts, NEW new
  PROVE  /\ Extended(map, new) \in Counts
         /\ \A n \in Names, f \in Files :
              Extended(map, new)[<<n, f>>] =
                IF <<n, f>> \in new THEN map[<<n, f>>] + 1 ELSE map[<<n, f>>]
BY DEF Extended, Counts

LEMMA RemovedAt ==
  ASSUME NEW map \in Counts, NEW old
  PROVE  /\ RemovedByKey(map, old) \in Counts
         /\ \A n \in Names, f \in Files :
              RemovedByKey(map, old)[<<n, f>>] = IF <<n, f>> \in old THEN 0 ELSE map[<<n, f>>]
BY DEF RemovedByKey, Counts

LEMMA SweptAt ==
  ASSUME NEW map \in Counts, NEW g
  PROVE  /\ Swept(map, g) \in Counts
         /\ \A n \in Names, f \in Files :
              Swept(map, g)[<<n, f>>] = IF f = g THEN 0 ELSE map[<<n, f>>]
BY DEF Swept, Counts

LEMMA RetainedAt ==
  ASSUME NEW map \in Counts
  PROVE  /\ Retained(map) \in Counts
         /\ \A n \in Names, f \in Files :
              Retained(map)[<<n, f>>] = IF f \in library_uris THEN map[<<n, f>>] ELSE 0
BY DEF Retained, Counts

LEMMA EntryOf ==
  ASSUME NEW g, NEW names, NEW n, NEW f
  PROVE  <<n, f>> \in EntriesOf(g, names) <=> f = g /\ n \in names
BY DEF EntriesOf

LEMMA LibraryEntry ==
  ASSUME NEW n, NEW f
  PROVE  <<n, f>> \in LibraryEntries <=> f \in External /\ n \in LibraryNames(f)
BY DEF LibraryEntries, EntriesOf

LEMMA QualifiedAt ==
  ASSUME MapsTyped, NEW g \in Files, NEW names
  PROVE  /\ Qualified(g, names) \in [Names -> Maybe(Files)]
         /\ \A n \in Names : Qualified(g, names)[n] = IF n \in names THEN g ELSE qualified[n]
BY DEF Qualified, MapsTyped, Maybe

-----------------------------------------------------------------------------
(* The name caches.                                                        *)

(* rebuild_bare_name_cache takes the flag before it collects the names.    *)
LEMMA BareNamesInit == Init => BareNamesAreComplete
BY DEF Init, BareNamesAreComplete

LEMMA BareNamesNext ==
  ASSUME BareNamesAreComplete, CallInv, rebuild \in [Rebuilders -> RebuildRecord],
         task \in TaskRecord, JobsTyped, [Next]_vars
  PROVE  BareNamesAreComplete'
<1>1. CASE Start
  <2>1. /\ UNCHANGED <<definition_keys, bare_names, dirty, rebuild>>
        /\ \/ jar_names' = jar_names /\ populate' = populate
           \/ populate' = "Clear"
        /\ task' = task \/ task'.at = "ResetMaps"
        /\ \A i \in JobIds : jobs'[i].at # "SetDirty" => jobs[i].at # "SetDirty"
    <3>1. CASE \E j \in JobIds : IndexContent(j) \/ EnsureIndexed(j)
      BY <3>1
      DEF IndexContent, EnsureIndexed, StartJob, JobsTyped, mapVars, nameVars, jarVars
    <3>2. CASE (\E f \in Workspace : DeleteFile(f)) \/ ResetFiles
      BY <3>2 DEF DeleteFile, ResetFiles, mapVars, nameVars, jarVars
    <3>3. CASE PopulateJars \/ BeginRequest
      BY <3>3 DEF PopulateJars, BeginRequest, OutsideJars, OutsideRequest,
         mapVars, nameVars, jarVars
    <3>4. QED
      BY <1>1, <3>1, <3>2, <3>3 DEF Start
  <2>2. QED
    BY <2>1 DEF BareNamesAreComplete, Applying, Resetting
<1>2. CASE \E j \in JobIds : Job(j)
  <2>1. PICK j \in JobIds : Job(j)
    BY <1>2
  <2>2. UNCHANGED <<bare_names, rebuild, task, populate, jar_names>>
    BY <2>1
    DEF Job, JobInvalidates, JobBumps, RemoveStale, StoreHash, StoreFile, StoreMaps, SetDirty,
        fileVars, mapVars, nameVars, lastVars, jarVars
  <2>3. CASE StoreMaps(j)
    <3>1. jobs'[j].at = "SetDirty"
      BY <2>3 DEF StoreMaps, Step, JobsTyped, JobRecord
    <3>2. QED
      BY <3>1 DEF BareNamesAreComplete
  <2>4. CASE SetDirty(j)
    BY <2>4 DEF SetDirty, BareNamesAreComplete
  <2>5. CASE ~StoreMaps(j) /\ ~SetDirty(j)
    <3>1. UNCHANGED <<dirty, definition_keys>> /\ jobs[j].at # "SetDirty"
      BY <2>1, <2>5
      DEF Job, JobInvalidates, JobBumps, RemoveStale, StoreHash, StoreFile, Step, mapVars
    <3>2. \A i \in JobIds \ {j} : jobs'[i] = jobs[i]
      BY <2>1, <2>5
      DEF Job, JobInvalidates, JobBumps, RemoveStale, StoreHash, StoreFile, Step, JobsTyped
    <3>3. QED
      BY <2>2, <3>1, <3>2 DEF BareNamesAreComplete
  <2>6. QED
    BY <2>3, <2>4, <2>5
<1>3. CASE Task
  <2>1. /\ UNCHANGED <<rebuild, populate, jar_names, jobs>>
        /\ \/ dirty' = TRUE
           \/ task'.at \in Applying \cup {"RestoreDirty"}
           \/ /\ task.at = "Paths"
              /\ UNCHANGED <<dirty, definition_keys, bare_names>>
    BY <1>3, ResetMapsDoes
    DEF Task, ResetRest, ResetBump, ApplyFresh, MarkDirty, RestoreLibrary,
        RestoreDirty, ApplySourcePathScan, NoSourcePaths, AddLibrary, TaskStep, Applying,
        Resetting, TaskRecord, fileVars, mapVars, nameVars, lastVars, jarVars
  <2>2. QED
    BY <2>1 DEF BareNamesAreComplete, Applying, Resetting
<1>4. CASE NoteClears \/ NoteBumps
  BY <1>4
  DEF NoteClears, NoteBumps, BareNamesAreComplete, OutsideJars, mapVars, nameVars
<1>5. CASE \E p \in Rebuilders : Rebuild(p)
  <2>1. PICK p \in Rebuilders : Rebuild(p)
    BY <1>5
  <2>2. UNCHANGED <<definition_keys, jar_names, populate, jobs>>
    BY <2>1
    DEF Rebuild, RebuildTakesDirty, RebuildIsFresh, RebuildNames, RebuildCollects,
        RebuildPublishes, RebuildDropsLast, OutsideNames, mapVars, jarVars
  <2>3. \/ rebuild'[p].at = "Names"
        \/ bare_names' = definition_keys \cup jar_names
        \/ /\ UNCHANGED <<bare_names, dirty>> /\ rebuild[p].at # "Names"
           /\ \A q \in Rebuilders \ {p} : rebuild'[q] = rebuild[q]
           /\ \/ task' = task
              \/ task.at \notin Applying \cup {"RestoreDirty"}
    <3>1. CASE RebuildTakesDirty(p) \/ RebuildNames(p)
      BY <3>1 DEF RebuildTakesDirty, RebuildNames, RebuildStep, RebuildRecord
    <3>2. CASE RebuildIsFresh(p)
      BY <3>2 DEF RebuildIsFresh, Calls, Returns, Applying, Resetting,
         nameVars
    <3>3. CASE RebuildCollects(p) \/ RebuildPublishes(p)
      BY <3>3 DEF RebuildCollects, RebuildPublishes, RebuildStep,
         RebuildRecord, nameVars
    <3>4. CASE RebuildDropsLast(p)
      BY <3>4 DEF RebuildDropsLast, RebuildRecord, Returns, CallInv, Calls,
         Applying, Resetting, nameVars
    <3>5. QED
      BY <2>1, <3>1, <3>2, <3>3, <3>4 DEF Rebuild
  <2>4. QED
    BY <2>1, <2>2, <2>3 DEF BareNamesAreComplete
<1>6. CASE Request \/ UNCHANGED vars
  <2> DEFINE same == UNCHANGED <<definition_keys, bare_names, dirty, rebuild,
                                 jar_names,
                                 populate, task, jobs>>
  <2>1. same
    <3>1. CASE Lookup \/ StoreInCache \/ UNCHANGED vars
      BY <3>1
      DEF Lookup, StoreInCache, OutsideRequest, vars, fileVars, mapVars, nameVars, jarVars
    <3>2. CASE Compute
      BY <3>2, Zenon DEF Compute, OutsideRequest, mapVars, nameVars, jarVars
    <3>3. QED
      BY <1>6, <3>1, <3>2 DEF Request
  <2>2. QED
    BY <2>1 DEF BareNamesAreComplete
<1>7. QED
  BY <1>1, <1>2, <1>3, <1>4, <1>5, <1>6 DEF Next, Continue

LEMMA CallNext ==
  ASSUME CallInv, rebuild \in [Rebuilders -> RebuildRecord], task \in TaskRecord,
         request \in RequestRecord, [Next]_vars
  PROVE  CallInv'
<1>1. CASE UNCHANGED <<task, request, rebuild>>
  BY <1>1 DEF CallInv, Calls
<1>2. CASE ResetFiles \/ Task \/ BeginRequest \/ Request
  <2>1. /\ rebuild' = rebuild
        /\ task' = task \/ task.at \notin {"Rebuild", "PathsRebuild"}
        /\ request' = request \/ request.at # "Fresh"
    <3>1. CASE ResetFiles \/ BeginRequest \/ Lookup \/ StoreInCache
      BY <3>1 DEF ResetFiles, BeginRequest, Lookup, StoreInCache,
         OutsideRequest
    <3>2. CASE Compute
      BY <3>2, Zenon DEF Compute, OutsideRequest
    <3>3. CASE Task
      BY <3>3, ResetMapsDoes
      DEF Task, ResetRest, ResetBump, ApplyFresh, MarkDirty, RestoreLibrary, RestoreDirty,
          ApplySourcePathScan, NoSourcePaths, TaskStep
    <3>4. QED
      BY <1>2, <3>1, <3>2, <3>3 DEF Request
  <2>2. QED
    BY <2>1 DEF CallInv, Calls, Rebuilders
<1>3. CASE \E p \in Rebuilders : Rebuild(p)
  <2>1. PICK p \in Rebuilders : Rebuild(p)
    BY <1>3
  <2>2. Calls(p)
    BY <2>1
    DEF Rebuild, RebuildTakesDirty, RebuildIsFresh, RebuildNames, RebuildCollects,
        RebuildPublishes, RebuildDropsLast, RebuildStep, CallInv
  <2>3. \/ UNCHANGED <<task, request>>
        \/ rebuild'[p].at = "No" /\ Returns(p)
    <3>1. CASE RebuildTakesDirty(p) \/ RebuildNames(p) \/ RebuildPublishes(p)
      BY <3>1 DEF RebuildTakesDirty, RebuildNames, RebuildPublishes
    <3>2. CASE RebuildCollects(p)
      BY <3>2 DEF RebuildCollects
    <3>3. CASE RebuildIsFresh(p) \/ RebuildDropsLast(p)
      BY <3>3 DEF RebuildIsFresh, RebuildDropsLast
    <3>4. QED
      BY <2>1, <3>1, <3>2, <3>3 DEF Rebuild
  <2>4. \A q \in Rebuilders \ {p} : rebuild'[q] = rebuild[q]
    <3>1. CASE RebuildCollects(p)
      BY <3>1 DEF RebuildCollects
    <3>2. CASE ~RebuildCollects(p)
      BY <2>1, <3>2
      DEF Rebuild, RebuildTakesDirty, RebuildIsFresh, RebuildNames, RebuildPublishes,
          RebuildDropsLast, RebuildStep
    <3>3. QED
      BY <3>1, <3>2
  <2>5. \A q \in Rebuilders \ {p} : Calls(q) => Calls(q)'
    BY <2>3 DEF Returns, Calls, Rebuilders
  <2>6. rebuild'[p].at # "No" => Calls(p)'
    BY <2>2, <2>3 DEF Calls
  <2>7. QED
    BY <2>4, <2>5, <2>6 DEF CallInv
<1>4. QED
  <2>1. CASE Start /\ ~ResetFiles /\ ~BeginRequest
    BY <1>1, <2>1
    DEF Start, IndexContent, EnsureIndexed, StartJob, DeleteFile, PopulateJars, OutsideJars
  <2>2. CASE \E j \in JobIds : Job(j)
    BY <1>1, <2>2
    DEF Job, JobInvalidates, JobBumps, RemoveStale, StoreHash, StoreFile, StoreMaps, SetDirty
  <2>3. CASE NoteClears \/ NoteBumps \/ UNCHANGED vars
    BY <1>1, <2>3 DEF NoteClears, NoteBumps, OutsideJars, vars
  <2>4. QED
    BY <1>2, <1>3, <2>1, <2>2, <2>3 DEF Next, Start, Continue

-----------------------------------------------------------------------------
(* The types.                                                              *)

Others == <<jar_names, noted, bare_names, importable, dirty, completion_epoch,
            last_completion, populate, request, rebuild>>

LEMMA InitTyped == Init => Typed
<1> SUFFICES ASSUME Init PROVE Typed
  OBVIOUS
<1> USE NoneIsNone
<1>1. FilesTyped /\ MapsTyped
  BY DEF Init, FilesTyped, MapsTyped, Counts, Maybe
<1>2. JobsTyped /\ TaskTyped
  BY DEF Init, JobsTyped, JobRecord, JobSteps, TaskTyped, TaskRecord,
     TaskSteps, Maybe
<1>3. CachesTyped
  BY DEF Init, CachesTyped, RequestRecord, RequestSteps, RebuildRecord,
     RebuildSteps, Maybe
<1>4. QED
  BY <1>1, <1>2, <1>3 DEF Typed

LEMMA StartedJobTyped ==
  ASSUME Typed, NEW j \in JobIds, NEW f \in Workspace, NEW t \in Texts, NEW e \in BOOLEAN,
         StartJob(j, f, t, e), started' = started + 1, started < MaxOperations
  PROVE  Typed'
<1> USE NoneIsNone
<1>1. FilesTyped' /\ TaskTyped' /\ CachesTyped'
  BY DEF Typed, StartJob, FilesTyped, TaskTyped, CachesTyped, fileVars,
     nameVars, lastVars,
     jarVars
<1>2. MapsTyped'
  BY DEF Typed, StartJob, MapsTyped, mapVars, Joined
<1>3. JobsTyped'
  BY DEF Typed, StartJob, JobsTyped, JobRecord, JobSteps, Maybe
<1>4. QED
  BY <1>1, <1>2, <1>3 DEF Typed

LEMMA StartTyped ==
  ASSUME Typed, Start
  PROVE  Typed'
<1> USE NoneIsNone
<1>1. CASE \E j \in JobIds : IndexContent(j) \/ EnsureIndexed(j)
  BY <1>1, StartedJobTyped DEF IndexContent, EnsureIndexed, Starts
<1>2. CASE \E f \in Workspace : DeleteFile(f)
  <2>1. FilesTyped' /\ MapsTyped'
    BY <1>2 DEF Typed, DeleteFile, Starts, FilesTyped, MapsTyped, Joined,
       mapVars, Maybe
  <2>2. JobsTyped' /\ TaskTyped' /\ CachesTyped'
    BY <1>2 DEF Typed, DeleteFile, JobsTyped, TaskTyped, CachesTyped,
       nameVars, lastVars, jarVars
  <2>3. QED
    BY <2>1, <2>2 DEF Typed
<1>3. CASE ResetFiles
  <2>1. FilesTyped' /\ MapsTyped'
    BY <1>3 DEF Typed, ResetFiles, Starts, FilesTyped, MapsTyped, mapVars,
       Maybe
  <2>2. TaskTyped'
    BY <1>3 DEF Typed, ResetFiles, TaskTyped, TaskRecord, TaskSteps,
       Scanning, Applying, Resetting
  <2>3. JobsTyped' /\ CachesTyped'
    BY <1>3 DEF Typed, ResetFiles, JobsTyped, CachesTyped, nameVars,
       lastVars, jarVars
  <2>4. QED
    BY <2>1, <2>2, <2>3 DEF Typed
<1>4. CASE PopulateJars
  <2>1. FilesTyped' /\ MapsTyped' /\ JobsTyped' /\ TaskTyped'
    BY <1>4
    DEF Typed, PopulateJars, Starts, OutsideJars, FilesTyped, MapsTyped, JobsTyped, TaskTyped,
        Maybe, fileVars, mapVars
  <2>2. CachesTyped'
    BY <1>4 DEF Typed, PopulateJars, OutsideJars, CachesTyped, Maybe,
       nameVars, lastVars
  <2>3. QED
    BY <2>1, <2>2 DEF Typed
<1>5. CASE BeginRequest
  <2>1. FilesTyped' /\ MapsTyped' /\ JobsTyped' /\ TaskTyped'
    BY <1>5
    DEF Typed, BeginRequest, Starts, OutsideRequest, FilesTyped, MapsTyped, JobsTyped, TaskTyped,
        Maybe, fileVars, mapVars
  <2>2. CachesTyped'
    BY <1>5
    DEF Typed, BeginRequest, OutsideRequest, CachesTyped, Maybe, RequestRecord, RequestSteps,
        nameVars, jarVars
  <2>3. QED
    BY <2>1, <2>2 DEF Typed
<1>6. QED
  BY <1>1, <1>2, <1>3, <1>4, <1>5 DEF Start

LEMMA JobTyped ==
  ASSUME Typed, NEW j \in JobIds, Job(j), started' = started
  PROVE  Typed'
<1> USE NoneIsNone
<1>1. /\ jobs[j].at # "None" /\ jobs[j].file \in Workspace /\ jobs[j].text \in Texts
      /\ \E to \in JobSteps : jobs' = [jobs EXCEPT ![j].at = to]
      /\ UNCHANGED <<library_uris, task, overlap>>
  <2>1. jobs[j].at # "None" /\ UNCHANGED <<library_uris, task, overlap>>
    BY DEF Job, JobInvalidates, JobBumps, RemoveStale, StoreHash, StoreFile,
       StoreMaps, SetDirty, Step,
       fileVars
  <2>2. \E to \in JobSteps : jobs' = [jobs EXCEPT ![j].at = to]
    BY DEF Job, JobInvalidates, JobBumps, RemoveStale, StoreHash, StoreFile,
       StoreMaps, SetDirty, Step,
       JobSteps
  <2>3. QED
    BY <2>1, <2>2 DEF Typed, JobsTyped
<1>2. JobsTyped' /\ TaskTyped'
  BY <1>1 DEF Typed, JobsTyped, JobRecord, TaskTyped
<1>3. CachesTyped'
  <2>1. /\ UNCHANGED <<jar_names, noted, bare_names, importable, populate,
                       request, rebuild>>
        /\ dirty' = dirty \/ dirty' = TRUE
        /\ completion_epoch' \in {completion_epoch, completion_epoch + 1}
        /\ last_completion' = last_completion \/ last_completion' = None
    BY DEF Job, JobInvalidates, JobBumps, RemoveStale, StoreHash, StoreFile,
       StoreMaps, SetDirty,
       nameVars, lastVars, jarVars
  <2>2. dirty' \in BOOLEAN
    BY <2>1, Zenon DEF Typed, CachesTyped
  <2>3. completion_epoch' \in Nat /\ last_completion' \in Maybe(SUBSET Known)
    BY <2>1 DEF Typed, CachesTyped, Maybe
  <2>4. QED
    BY <2>1, <2>2, <2>3 DEF Typed, CachesTyped
<1>4. FilesTyped'
  <2>1. Declares[jobs[j].text] \in SUBSET Names
    BY <1>1, DeclaresTyped
  <2>2. QED
    BY <1>1, <2>1
    DEF Job, JobInvalidates, JobBumps, RemoveStale, StoreHash, StoreFile, StoreMaps, SetDirty,
       Typed, FilesTyped, Maybe, fileVars
<1>5. MapsTyped'
  <2>1. CASE RemoveStale(j)
    BY <1>1, <2>1, RemovedAt, SweptAt
    DEF RemoveStale, Typed, MapsTyped, Maybe
  <2>2. CASE StoreMaps(j)
    BY <1>1, <2>2, InsertedAt, QualifiedAt, DeclaresTyped DEF StoreMaps,
       Typed, MapsTyped
  <2>3. CASE JobInvalidates(j) \/ JobBumps(j) \/ StoreHash(j) \/ StoreFile(j) \/ SetDirty(j)
    BY <2>3 DEF JobInvalidates, JobBumps, StoreHash, StoreFile, SetDirty, Typed,
       MapsTyped, mapVars
  <2>4. QED
    BY <2>1, <2>2, <2>3 DEF Job
<1>6. QED
  BY <1>2, <1>3, <1>4, <1>5 DEF Typed

(* What the steps of index_source_paths have in common.                    *)
LEMMA AddLibraryTyped ==
  ASSUME FilesTyped, MapsTyped, AddLibrary
  PROVE  /\ FilesTyped'
         /\ definition_keys' \subseteq Names
         /\ qualified' \in [Names -> Maybe(Files)]
<1> USE NoneIsNone
<1>1. \A e \in LibraryEntries : e[1] \in Names
  BY LibraryNamesTyped DEF LibraryEntries, EntriesOf
<1>2. definition_keys' \subseteq Names
  BY <1>1 DEF AddLibrary, MapsTyped
<1>3. qualified' \in [Names -> Maybe(Files)]
  BY DEF AddLibrary
<1>4. \A f \in External : SourceText[f] \in Texts
  BY IndexMapsAssumption
<1>5. FilesTyped'
  BY <1>4, LibraryNamesTyped DEF AddLibrary, FilesTyped, Maybe
<1>6. QED
  BY <1>2, <1>3, <1>5

LEMMA TaskStepTyped ==
  ASSUME Typed, Task, started' = started
  PROVE  Typed'
<1> USE NoneIsNone
<1>1. UNCHANGED <<jobs, overlap>>
  BY ResetMapsDoes
  DEF Task, ResetRest, ResetBump, ApplyFresh, MarkDirty, RestoreLibrary, RestoreDirty,
      ApplySourcePathScan, NoSourcePaths
<1>2. JobsTyped'
  BY <1>1 DEF Typed, JobsTyped
<1>3. TaskTyped'
  <2>1. CASE \E f \in Workspace : ApplyFresh(f)
    BY <2>1 DEF ApplyFresh, Typed, TaskTyped, TaskRecord
  <2>2. \/ \E f \in Workspace : ApplyFresh(f)
        \/ \E from, to \in TaskSteps :
             /\ TaskStep(from, to)
             /\ \/ to \in {"ResetRest", "ResetBump", "Fresh"}
                \/ from = "Fresh" /\ task.todo = {}
                \/ from \in {"Paths", "RestoreDirty"}
    BY ResetMapsDoes
    DEF Task, ResetRest, ResetBump, MarkDirty, RestoreLibrary, RestoreDirty,
        ApplySourcePathScan, NoSourcePaths, TaskSteps, Scanning, Applying, Resetting
  <2>3. ASSUME NEW from \in TaskSteps, NEW to \in TaskSteps, TaskStep(from, to),
               \/ to \in {"ResetRest", "ResetBump", "Fresh"}
               \/ from = "Fresh" /\ task.todo = {}
               \/ from \in {"Paths", "RestoreDirty"}
        PROVE  TaskTyped'
    BY <2>3 DEF TaskStep, Typed, TaskTyped, TaskRecord
  <2>4. QED
    BY <2>1, <2>2, <2>3
<1>4. CachesTyped'
  <2>1. /\ UNCHANGED <<jar_names, noted, populate, request, rebuild>>
        /\ dirty' = dirty \/ dirty' = TRUE
        /\ completion_epoch' = completion_epoch \/ completion_epoch' = completion_epoch + 1
        /\ last_completion' = last_completion \/ last_completion' = None
        /\ bare_names' = bare_names \/ bare_names' = {}
        /\ importable' = importable \/ importable' = {}
    BY ResetMapsDoes
    DEF Task, ResetRest, ResetBump, ApplyFresh, MarkDirty, RestoreLibrary, RestoreDirty,
        ApplySourcePathScan, NoSourcePaths, nameVars, lastVars, jarVars
  <2>2. dirty' \in BOOLEAN
    BY <2>1, Zenon DEF Typed, CachesTyped
  <2>3. completion_epoch' \in Nat /\ last_completion' \in Maybe(SUBSET Known)
    BY <2>1 DEF Typed, CachesTyped, Maybe
  <2>4. bare_names' \subseteq Known /\ importable' \subseteq Known
    BY <2>1 DEF Typed, CachesTyped
  <2>5. QED
    BY <2>1, <2>2, <2>3, <2>4 DEF Typed, CachesTyped
<1>5. FilesTyped' /\ MapsTyped'
  <2>1. CASE ResetMaps
    BY <2>1, <1>1, ResetMapsDoes, RetainedAt DEF Typed, FilesTyped,
       MapsTyped, Maybe, fileVars
  <2>2. CASE ResetRest
    BY <2>2, <1>1 DEF ResetRest, Typed, FilesTyped, MapsTyped, Maybe, mapVars
  <2>3. CASE ResetBump \/ MarkDirty \/ RestoreDirty \/ NoSourcePaths
    BY <2>3, <1>1
    DEF ResetBump, MarkDirty, RestoreDirty, NoSourcePaths, Typed, FilesTyped, MapsTyped, Maybe,
        fileVars, mapVars
  <2>4. CASE \E f \in Workspace : ApplyFresh(f)
    <3>1. PICK f \in Workspace : ApplyFresh(f)
      BY <2>4
    <3>2. f \in task.todo /\ task.found[f] \in Texts
      BY <3>1 DEF ApplyFresh, Typed, TaskTyped, TaskRecord, Maybe
    <3>3. Declares[task.found[f]] \in SUBSET Names
      BY <3>2, DeclaresTyped
    <3>4. FilesTyped'
      BY <3>1, <3>2, <3>3 DEF ApplyFresh, Typed, FilesTyped, Maybe
    <3>5. MapsTyped'
      BY <1>1, <3>1, <3>3, ExtendedAt, QualifiedAt DEF ApplyFresh, Typed,
         MapsTyped
    <3>6. QED
      BY <3>4, <3>5
  <2>5. CASE RestoreLibrary \/ ApplySourcePathScan
    <3>1. FilesTyped' /\ definition_keys' \subseteq Names /\ qualified' \in [Names -> Maybe(Files)]
      BY <2>5, AddLibraryTyped DEF RestoreLibrary, ApplySourcePathScan, Typed
    <3>2. definitions' \in Counts /\ subtypes' \in Counts
      BY <2>5, ExtendedAt, InsertedAt DEF RestoreLibrary,
         ApplySourcePathScan, Typed, MapsTyped
    <3>3. QED
      BY <1>1, <3>1, <3>2 DEF Typed, MapsTyped
  <2>6. QED
    BY <2>1, <2>2, <2>3, <2>4, <2>5 DEF Task
<1>6. QED
  BY <1>2, <1>3, <1>4, <1>5 DEF Typed

LEMMA CacheStepTyped ==
  ASSUME Typed, CallInv, started' = started,
         NoteClears \/ NoteBumps \/ Request \/ \E p \in Rebuilders : Rebuild(p)
  PROVE  Typed'
<1> USE NoneIsNone
<1>1. CASE NoteClears \/ NoteBumps
  <2>1. FilesTyped' /\ MapsTyped' /\ JobsTyped' /\ TaskTyped'
    BY <1>1
    DEF NoteClears, NoteBumps, OutsideJars, Typed, FilesTyped, MapsTyped, JobsTyped, TaskTyped,
        Maybe, fileVars, mapVars
  <2>2. CachesTyped'
    <3>1. CASE NoteClears
      BY <3>1 DEF NoteClears, OutsideJars, Typed, CachesTyped, Maybe, nameVars
    <3>2. CASE NoteBumps
      BY <3>2 DEF NoteBumps, OutsideJars, Typed, CachesTyped, Maybe, nameVars
    <3>3. QED
      BY <1>1, <3>1, <3>2
  <2>3. QED
    BY <2>1, <2>2 DEF Typed
<1>2. CASE Request
  <2>1. PICK r \in RequestRecord, l \in Maybe(SUBSET Known) :
          /\ request' = r /\ last_completion' = l
          /\ UNCHANGED OutsideRequest
    <3>1. CASE Compute
      BY <3>1, ComputeDoes DEF Typed, CachesTyped, RequestRecord,
         RequestSteps, Known
    <3>2. CASE Lookup
      BY <3>2 DEF Lookup, Typed, CachesTyped, RequestRecord, RequestSteps
    <3>3. CASE StoreInCache
      BY <3>3 DEF StoreInCache, Typed, CachesTyped, RequestRecord,
         RequestSteps, Maybe
    <3>4. QED
      BY <1>2, <3>1, <3>2, <3>3 DEF Request
  <2>2. FilesTyped' /\ MapsTyped' /\ JobsTyped' /\ TaskTyped'
    BY <2>1 DEF OutsideRequest, Typed, FilesTyped, MapsTyped, JobsTyped,
       TaskTyped,
        Maybe, fileVars, mapVars
  <2>3. CachesTyped'
    BY <2>1 DEF OutsideRequest, Typed, CachesTyped, Maybe, nameVars, jarVars
  <2>4. QED
    BY <2>2, <2>3 DEF Typed
<1>3. CASE \E p \in Rebuilders : Rebuild(p)
  <2>1. PICK p \in Rebuilders : Rebuild(p)
    BY <1>3
  <2>2. UNCHANGED OutsideNames
    BY <2>1
    DEF Rebuild, RebuildTakesDirty, RebuildIsFresh, RebuildNames, RebuildCollects,
        RebuildPublishes, RebuildDropsLast
  <2>3. FilesTyped' /\ MapsTyped' /\ JobsTyped'
    BY <2>2 DEF OutsideNames, Typed, FilesTyped, MapsTyped, JobsTyped, Maybe,
       fileVars, mapVars
  <2>4. \/ UNCHANGED <<task, request>>
        \/ Calls(p) /\ Returns(p)
    BY <2>1
    DEF Rebuild, RebuildTakesDirty, RebuildIsFresh, RebuildNames, RebuildCollects,
        RebuildPublishes, RebuildDropsLast, CallInv
  <2>5. TaskTyped' /\ request' \in RequestRecord
    <3>1. CASE UNCHANGED <<task, request>>
      BY <3>1 DEF Typed, TaskTyped, CachesTyped
    <3>2. CASE Calls(p) /\ Returns(p)
      <4>1. CASE p = "Task"
        <5>1. /\ request' = request
              /\ \E to \in {"Paths", "Idle"} : task' = [task EXCEPT !.at = to]
              /\ task.at \in {"Rebuild", "PathsRebuild"}
          BY <3>2, <4>1 DEF Calls, Returns, Typed, TaskTyped, TaskRecord
        <5>2. {"Paths", "Idle"} \subseteq TaskSteps
          BY DEF TaskSteps
        <5>3. PICK to \in {"Paths", "Idle"} : task' = [task EXCEPT !.at = to]
          BY <5>1
        <5>4. task' \in TaskRecord
          BY <5>2, <5>3 DEF Typed, TaskTyped, TaskRecord
        <5>5. task'.todo = task.todo /\ task'.found = task.found /\ task.todo = {}
          BY <5>1, <5>3 DEF Typed, TaskTyped, TaskRecord
        <5>6. TaskTyped'
          BY <5>4, <5>5 DEF TaskTyped
        <5>7. QED
          BY <5>1, <5>6 DEF Typed, CachesTyped
      <4>2. CASE p # "Task"
        BY <3>2, <4>2 DEF Returns, Typed, TaskTyped, CachesTyped,
           RequestRecord, RequestSteps
      <4>3. QED
        BY <4>1, <4>2
    <3>3. QED
      BY <2>4, <3>1, <3>2
  <2>6. rebuild' \in [Rebuilders -> RebuildRecord]
    <3>1. (UNION {NamesIn(f) : f \in Files}) \cup jar_names \subseteq Known
      <4>1. \A f \in Files : NamesIn(f) \subseteq Names
        BY NamesInTyped DEF Typed
      <4>2. jar_names \subseteq Known
        BY DEF Typed, CachesTyped, Known
      <4>3. UNION {NamesIn(f) : f \in Files} \subseteq Names
        BY <4>1
      <4>4. QED
        BY <4>2, <4>3 DEF Known
    <3>2. CASE RebuildCollects(p)
      BY <3>1, <3>2 DEF RebuildCollects, Typed, CachesTyped, RebuildRecord,
         RebuildSteps
    <3>3. CASE RebuildIsFresh(p)
      BY <3>3 DEF RebuildIsFresh, Typed, CachesTyped
    <3>4. CASE \E from, to \in RebuildSteps : RebuildStep(p, from, to)
      BY <3>4 DEF RebuildStep, Typed, CachesTyped, RebuildRecord
    <3>5. CASE RebuildDropsLast(p)
      BY <3>5 DEF RebuildDropsLast, Typed, CachesTyped, RebuildRecord,
         RebuildSteps
    <3>6. QED
      BY <2>1, <3>2, <3>3, <3>4, <3>5
      DEF Rebuild, RebuildTakesDirty, RebuildNames, RebuildPublishes, RebuildSteps
  <2>7. bare_names' \subseteq Known /\ importable' \subseteq Known
    BY <2>1
    DEF Rebuild, RebuildTakesDirty, RebuildIsFresh, RebuildNames, RebuildCollects,
        RebuildPublishes, RebuildDropsLast, Typed, CachesTyped, MapsTyped, RebuildRecord, Known,
        nameVars
  <2>8. dirty' \in BOOLEAN
    <3>1. dirty' = dirty \/ dirty' = FALSE
      BY <2>1
      DEF Rebuild, RebuildTakesDirty, RebuildIsFresh, RebuildNames, RebuildCollects,
          RebuildPublishes, RebuildDropsLast
    <3>2. QED
      BY <3>1, Zenon DEF Typed, CachesTyped
  <2>9. last_completion' \in Maybe(SUBSET Known)
    BY <2>1
    DEF Rebuild, RebuildTakesDirty, RebuildIsFresh, RebuildNames, RebuildCollects,
        RebuildPublishes, RebuildDropsLast, Typed, CachesTyped, Maybe
  <2>10. QED
    BY <2>2, <2>3, <2>5, <2>6, <2>7, <2>8, <2>9
    DEF OutsideNames, Typed, CachesTyped, jarVars
<1>4. QED
  BY <1>1, <1>2, <1>3

LEMMA TypedNext ==
  ASSUME Typed, CallInv, [Next]_vars
  PROVE  Typed'
<1>1. CASE UNCHANGED vars
  <2>1. FilesTyped' /\ MapsTyped' /\ JobsTyped' /\ TaskTyped'
    BY <1>1 DEF vars, Typed, FilesTyped, MapsTyped, JobsTyped, TaskTyped,
       Maybe, fileVars, mapVars
  <2>2. CachesTyped'
    BY <1>1 DEF vars, Typed, CachesTyped, Maybe, nameVars, lastVars, jarVars
  <2>3. QED
    BY <2>1, <2>2 DEF Typed
<1>2. QED
  BY <1>1, StartTyped, JobTyped, TaskStepTyped, CacheStepTyped DEF Next,
     Continue

-----------------------------------------------------------------------------
(* Stored completions.                                                     *)

LEMMA SeenNext ==
  ASSUME Typed, SeenInv, [Next]_vars
  PROVE  SeenInv'
<1> USE DEF Typed, CachesTyped, RequestRecord
<1>1. CASE UNCHANGED <<jar_names, noted, completion_epoch, request>>
  BY <1>1 DEF SeenInv
<1>2. CASE UNCHANGED <<jar_names, noted,
                       request>> /\ completion_epoch' = completion_epoch + 1
  BY <1>2 DEF SeenInv
<1>3. CASE PopulateJars
  BY <1>3 DEF SeenInv, PopulateJars, OutsideJars, lastVars
<1>4. CASE NoteBumps
  BY <1>4 DEF SeenInv, NoteBumps, OutsideJars
<1>5. CASE BeginRequest
  <2>1. /\ request'.at = "Lookup" /\ request'.epoch = completion_epoch
        /\ UNCHANGED <<jar_names, noted, completion_epoch>>
    BY <1>5 DEF BeginRequest, OutsideRequest, jarVars
  <2>2. QED
    BY <2>1 DEF SeenInv
<1>6. CASE Lookup \/ StoreInCache
  BY <1>6 DEF SeenInv, Lookup, StoreInCache, OutsideRequest, jarVars
<1>7. CASE Compute
  <2>1. {bare_names} \subseteq SUBSET Known /\ jar_names \subseteq Known
    BY DEF Known
  <2>2. PICK result \in SUBSET Known :
          /\ request' = [request EXCEPT !.at = "Store", !.result = result]
          /\ ~request.bare => jar_names \subseteq result
          /\ UNCHANGED <<OutsideRequest, last_completion>>
    BY <1>7, <2>1, ComputeDoes, Zenon
  <2>3. UNCHANGED <<jar_names, noted, completion_epoch>>
    BY <2>2 DEF OutsideRequest, jarVars
  <2>4. QED
    BY <2>2, <2>3 DEF SeenInv
<1>8. CASE \E p \in Rebuilders : Rebuild(p)
  <2>1. /\ UNCHANGED <<jar_names, noted, completion_epoch>>
        /\ request' = request \/ request' = [request EXCEPT !.at = "Compute"]
    BY <1>8
    DEF Rebuild, RebuildTakesDirty, RebuildIsFresh, RebuildNames, RebuildCollects,
        RebuildPublishes, RebuildDropsLast, Returns, OutsideNames, jarVars
  <2>2. QED
    BY <2>1 DEF SeenInv
<1>9. QED
  <2>1. CASE Start
    BY <1>1, <1>3, <1>5, <2>1
    DEF Start, IndexContent, EnsureIndexed, StartJob, DeleteFile, ResetFiles, jarVars, lastVars
  <2>2. CASE \E j \in JobIds : Job(j)
    BY <1>1, <1>2, <2>2
    DEF Job, JobInvalidates, JobBumps, RemoveStale, StoreHash, StoreFile, StoreMaps, SetDirty, jarVars,
        lastVars
  <2>3. CASE Task
    BY <1>1, <1>2, <2>3, ResetMapsDoes
    DEF Task, ResetRest, ResetBump, ApplyFresh, MarkDirty, RestoreLibrary, RestoreDirty,
        ApplySourcePathScan, NoSourcePaths, jarVars, lastVars
  <2>4. CASE NoteClears \/ UNCHANGED vars
    BY <1>1, <2>4 DEF NoteClears, OutsideJars, vars, jarVars, lastVars
  <2>5. QED
    BY <1>4, <1>6, <1>7, <1>8, <2>1, <2>2, <2>3, <2>4 DEF Next, Continue,
       Request

-----------------------------------------------------------------------------
(* The maps: one lemma for each operation that writes them.                *)

(* Steps that write neither the maps nor what they are compared with.      *)
Waiting == {"Invalidate", "Bump", "RemoveStale"}
LEMMA QuietStep ==
  ASSUME Typed, MapsInv,
         UNCHANGED <<files, content_hashes, library_uris, definitions,
                     subtypes, qualified,
                     overlap>>,
         started' \in Nat, started <= started',
         \A j \in JobIds :
           /\ jobs'[j].file = jobs[j].file /\ jobs'[j].text = jobs[j].text
           /\ \/ jobs'[j].at = jobs[j].at \/ {jobs[j].at, jobs'[j].at} \subseteq Waiting
              \/ jobs[j].at = "SetDirty" /\ jobs'[j].at = "Done",
         task'.todo = task.todo,
         task'.at = task.at \/ /\ task.at \notin {"ResetMaps", "ResetRest"}
                               /\ task'.at \notin Resetting
                               /\ task'.at \in Applying => task.at \in Applying
                               /\ task'.at \in Scanning \cup {"Paths"} =>
                                    task.at \in Scanning \cup {"Paths"}
  PROVE  MapsInv'
<1>1. \A j \in JobIds : /\ (jobs'[j].at \notin {"None", "Done"}) => Active(j)
                        /\ (jobs'[j].at \in {"StoreHash", "StoreFile", "StoreMaps"}) <=> Writing(j)
                        /\ (jobs'[j].at = "StoreFile") <=> (jobs[j].at = "StoreFile")
                        /\ (jobs'[j].at = "StoreMaps") <=> (jobs[j].at = "StoreMaps")
  BY DEF Waiting, Active, Writing
<1>2. LibraryInv'
  BY DEF MapsInv, LibraryInv, NamesIn
<1>3. ScanInv'
  BY <1>1 DEF MapsInv, ScanInv, Active, Applying, Resetting
<1>4. ReachInv'
  <2>1. \A j \in JobIds, f \in Files, n \in Names : WillWrite(j, f, n) => WillWrite(j, f, n)'
    BY DEF WillWrite, Waiting
  <2>2. QED
    BY <2>1, NamesInTyped, NoneIsNone DEF MapsInv, ReachInv, NamesIn, Typed
<1>5. ExactInv'
  BY <1>1 DEF MapsInv, ExactInv, BeingWritten, Writing, Active, NamesIn,
     Resetting
<1>6. HashInv'
  BY <1>1 DEF MapsInv, HashInv, HashIsOf, Resetting
<1>7. Counted'
  BY <1>1 DEF MapsInv, Counted, Pending, Due, Active, Typed, MapsTyped, Counts
<1>8. QED
  BY <1>2, <1>3, <1>4, <1>5, <1>6, <1>7 DEF MapsInv

LEMMA StepAt ==
  ASSUME JobsTyped, NEW j \in JobIds, NEW from, NEW to, Step(j, from, to)
  PROVE  /\ jobs[j].at = from
         /\ jobs'[j].at = to /\ jobs'[j].file = jobs[j].file /\ jobs'[j].text = jobs[j].text
         /\ \A i \in JobIds \ {j} : jobs'[i] = jobs[i]
BY DEF JobsTyped, JobRecord, Step

LEMMA StartJobMaps ==
  ASSUME Typed, MapsInv, NEW j \in JobIds, NEW f \in Workspace, NEW t \in Texts,
         NEW ensure \in BOOLEAN, StartJob(j, f, t, ensure), started' = started + 1
  PROVE  MapsInv'
<1>1. /\ jobs[j].at = "None" /\ jobs'[j].at \in {"Done", "Invalidate"} /\ jobs'[j].file = f
      /\ \A i \in JobIds \ {j} : jobs'[i] = jobs[i]
      /\ UNCHANGED <<files, content_hashes, library_uris, definitions,
                     subtypes, qualified, task>>
  BY DEF StartJob, Typed, JobsTyped, fileVars, mapVars
<1>2. /\ overlap' # "Scan" => overlap # "Scan" /\ task.at \notin Applying
      /\ overlap' = "None" => /\ overlap = "None"
                              /\ \A i \in JobIds : Active(i) => jobs[i].file # f
  BY DEF StartJob, Joined, Typed, MapsTyped
<1>3. /\ \A i \in JobIds, g \in Files, n \in Names : WillWrite(i, g, n)' <=> WillWrite(i, g, n)
      /\ \A i \in JobIds : Writing(i)' <=> Writing(i)
  BY <1>1 DEF WillWrite, Writing
<1>4. LibraryInv'
  BY <1>1 DEF MapsInv, LibraryInv, NamesIn
<1>5. ScanInv'
  BY <1>1, <1>2 DEF ScanInv, Applying, Resetting
<1>6. ReachInv'
  BY <1>1, <1>2, <1>3, NamesInTyped, NoneIsNone DEF MapsInv, ReachInv,
     NamesIn, Typed
<1>7. ExactInv'
  <2>1. overlap' = "None" =>
          \A i, k \in JobIds :
            Active(i)' /\ Active(k)' /\ jobs'[i].file = jobs'[k].file => i = k
    BY <1>1, <1>2 DEF MapsInv, ExactInv, Active
  <2>2. \A g \in Files : BeingWritten(g)' <=> BeingWritten(g)
    BY <1>1, <1>3 DEF BeingWritten, Writing
  <2>3. QED
    BY <1>1, <1>2, <2>1, <2>2, NoneIsNone DEF MapsInv, ExactInv, NamesIn
<1>8. HashInv'
  BY <1>1, <1>2 DEF MapsInv, HashInv, HashIsOf
<1>9. Counted'
  BY <1>1 DEF MapsInv, Counted, Pending, Due, Typed, MapsTyped, Counts
<1>10. QED
  BY <1>4, <1>5, <1>6, <1>7, <1>8, <1>9 DEF MapsInv

LEMMA DeleteFileMaps ==
  ASSUME Typed, MapsInv, NEW f \in Workspace, DeleteFile(f)
  PROVE  MapsInv'
<1>1. /\ files' = [files EXCEPT ![f] = None]
      /\ overlap' # "None" /\ (overlap' # "Scan" => overlap # "Scan")
      /\ UNCHANGED <<library_uris, definitions, subtypes, qualified, jobs,
                     task>>
      /\ started' = started + 1
  BY DEF DeleteFile, Starts, Joined, fileVars, mapVars, Typed, MapsTyped
<1>2. files'[f] = None /\ \A g \in Files \ {f} : files'[g] = files[g]
  BY <1>1 DEF Typed, FilesTyped, Workspace
<1>3. LibraryInv'
  BY <1>1, <1>2, NoneIsNone DEF MapsInv, LibraryInv, NamesIn
<1>4. ScanInv'
  BY <1>1, <1>2, NoneIsNone DEF MapsInv, ScanInv, Active
<1>5. ReachInv'
  <2>1. \A g \in Files : NamesIn(g) \subseteq Names /\ NamesIn(g)' \subseteq NamesIn(g)
    BY <1>2, NamesInTyped DEF NamesIn, Typed
  <2>2. \A j \in JobIds, g \in Files, n \in Names : WillWrite(j, g, n)' <=> WillWrite(j, g, n)
    BY <1>1 DEF WillWrite
  <2>3. QED
    BY <1>1, <2>1, <2>2, NoneIsNone DEF MapsInv, ReachInv
<1>6. ExactInv' /\ HashInv'
  BY <1>1 DEF ExactInv, HashInv
<1>7. Counted'
  BY <1>1 DEF MapsInv, Counted, Pending, Due, Active, Typed, MapsTyped, Counts
<1>8. QED
  BY <1>3, <1>4, <1>5, <1>6, <1>7 DEF MapsInv

(* reset_index_state starts with the file data: what is not of the library *)
(* is gone.                                                                *)
LEMMA ResetFilesMaps ==
  ASSUME Typed, MapsInv, ResetFiles
  PROVE  MapsInv'
<1>1. /\ task.at = "Idle" /\ task'.at = "ResetMaps"
      /\ overlap' # "Scan" => \A j \in JobIds : ~Active(j)
      /\ UNCHANGED <<content_hashes, library_uris, definitions, subtypes,
                     qualified, jobs>>
      /\ started' = started + 1
  BY DEF ResetFiles, Starts, fileVars, mapVars
<1>2. /\ \A f \in Workspace : files'[f] = None
      /\ \A f \in External : files'[f] = files[f]
  BY NoneIsNone DEF ResetFiles, Typed, FilesTyped, MapsInv, LibraryInv
<1>3. LibraryInv'
  BY <1>1, <1>2 DEF MapsInv, LibraryInv, NamesIn
<1>4. ScanInv'
  BY <1>1, <1>2 DEF ScanInv, Active
<1>5. ReachInv'
  BY <1>2 DEF ReachInv, NamesIn
<1>6. ExactInv'
  BY <1>1, <1>2 DEF ExactInv, Active
<1>7. HashInv'
  BY <1>1 DEF HashInv, Active
<1>8. Counted'
  <2>1. \A f \in Files : ~Due(f)
    BY <1>1 DEF Due, Typed, TaskTyped, Scanning, Applying, Resetting
  <2>2. \A f \in Files : Pending(f) = 0 /\ Pending(f)' \in {0, 1}
    BY <2>1 DEF Pending
  <2>3. QED
    BY <1>1, <2>2 DEF MapsInv, Counted, Active, Typed, MapsTyped, Counts
<1>9. QED
  BY <1>3, <1>4, <1>5, <1>6, <1>7, <1>8 DEF MapsInv

LEMMA ResetMapsMaps ==
  ASSUME Typed, MapsInv, ResetMaps, started' = started
  PROVE  MapsInv'
<1>1. /\ task.at = "ResetMaps" /\ task'.at = "ResetRest" /\ task'.todo = task.todo
      /\ definitions' = Retained(definitions) /\ subtypes' = Retained(subtypes)
      /\ qualified' = [n \in Names |->
                         IF qualified[n] \in library_uris THEN qualified[n] ELSE None]
      /\ UNCHANGED <<files, content_hashes, library_uris, overlap, jobs>>
  BY ResetMapsDoes DEF TaskStep, Typed, TaskTyped, TaskRecord, fileVars
<1>2. /\ definitions \in Counts /\ subtypes \in Counts
      /\ definitions' \in Counts /\ subtypes' \in Counts
      /\ \A n \in Names, f \in Files :
           /\ definitions'[<<n, f>>] = IF f \in library_uris THEN definitions[<<n, f>>] ELSE 0
           /\ subtypes'[<<n, f>>] = IF f \in library_uris THEN subtypes[<<n, f>>] ELSE 0
           /\ qualified'[n] = f => f \in library_uris /\ qualified[n] = f
  BY <1>1, RetainedAt, NoneIsNone DEF Typed, MapsTyped
<1>3. \A f \in Workspace : f \in Files /\ f \notin library_uris
  BY NoneIsNone DEF Typed, FilesTyped
<1>4. overlap # "Scan" =>
        (\A j \in JobIds : ~Active(j)) /\ (\A f \in Workspace : files[f] = None)
  BY <1>1 DEF MapsInv, ScanInv, Applying, Resetting
<1>5. LibraryInv'
  BY <1>1, <1>2, NoneIsNone DEF MapsInv, LibraryInv, NamesIn
<1>6. ScanInv'
  BY <1>1, <1>4 DEF ScanInv, Active
<1>7. ReachInv'
  BY <1>1, <1>4 DEF ReachInv, NamesIn
<1>8. ExactInv'
  BY <1>1, <1>2, <1>3, <1>4 DEF ExactInv, NamesIn, Active
<1>9. HashInv'
  BY <1>1, <1>4 DEF HashInv, Active
<1>10. Counted'
  <2>1. /\ \A f \in Files : Pending(f)' = Pending(f)
        /\ \A j \in JobIds : Active(j)' <=> Active(j)
    BY <1>1 DEF Pending, Due, Scanning, Applying, Resetting, Active
  <2>2. \A f \in Files : Pending(f) \in {0, 1}
    BY DEF Pending
  <2>3. QED
    BY <1>2, <2>1, <2>2 DEF MapsInv, Counted, Typed, MapsTyped, Counts
<1>11. QED
  BY <1>5, <1>6, <1>7, <1>8, <1>9, <1>10 DEF MapsInv

LEMMA ResetRestMaps ==
  ASSUME Typed, MapsInv, ResetRest, started' = started
  PROVE  MapsInv'
<1>1. /\ task.at = "ResetRest" /\ task'.at = "ResetBump" /\ task'.todo = task.todo
      /\ library_uris' = {f \in library_uris : files[f] # None}
      /\ \A f \in Workspace : content_hashes'[f] = None
      /\ UNCHANGED <<files, definitions, subtypes, qualified, overlap, jobs>>
  BY NoneIsNone DEF ResetRest, TaskStep, Typed, TaskTyped, TaskRecord,
     FilesTyped, mapVars
<1>2. overlap # "Scan" => \A j \in JobIds : ~Active(j)
  BY <1>1 DEF MapsInv, ScanInv, Applying, Resetting
<1>3. LibraryInv'
  BY <1>1 DEF MapsInv, LibraryInv, NamesIn
<1>4. ScanInv'
  BY <1>1, <1>2 DEF ScanInv, Active
<1>5. ReachInv'
  BY <1>1 DEF MapsInv, ReachInv, WillWrite, NamesIn
<1>6. ExactInv'
  BY <1>1 DEF MapsInv, ExactInv, BeingWritten, Writing, Active, NamesIn,
     Resetting
<1>7. HashInv'
  BY <1>1, <1>2 DEF MapsInv, ExactInv, HashInv, HashIsOf, Active, Resetting
<1>8. Counted'
  BY <1>1
  DEF MapsInv, Counted, Pending, Due, Scanning, Applying, Resetting, Active
<1>9. QED
  BY <1>3, <1>4, <1>5, <1>6, <1>7, <1>8 DEF MapsInv

(* A file read by the scan is not indexed yet: its entries are the first.  *)
LEMMA ApplyFreshMaps ==
  ASSUME Typed, MapsInv, NEW f \in Workspace, ApplyFresh(f), started' = started
  PROVE  MapsInv'
<1> DEFINE names == Declares[task.found[f]]
<1>1. /\ task.at = "Fresh" /\ f \in task.todo /\ task.found[f] \in Texts
      /\ task'.at = "Fresh" /\ task'.todo = task.todo \ {f}
      /\ UNCHANGED <<library_uris, overlap, jobs>>
  BY DEF ApplyFresh, Typed, TaskTyped, TaskRecord, Maybe
<1>2. names \in SUBSET Names
  BY <1>1, DeclaresTyped
<1>3. /\ files'[f] = names /\ content_hashes'[f] = task.found[f]
      /\ \A g \in Files \ {f} : files'[g] = files[g] /\ content_hashes'[g] = content_hashes[g]
  BY NoneIsNone DEF ApplyFresh, Typed, FilesTyped
<1> HIDE DEF names
<1>4. /\ definitions' = Extended(definitions, EntriesOf(f, names))
      /\ subtypes' = Extended(subtypes, EntriesOf(f, names))
      /\ qualified' = Qualified(f, names)
  BY DEF ApplyFresh, names
<1>5. /\ definitions \in Counts /\ subtypes \in Counts
      /\ \A n \in Names, g \in Files :
           /\ definitions'[<<n, g>>] =
                IF g = f /\ n \in names THEN definitions[<<n, g>>] + 1 ELSE definitions[<<n, g>>]
           /\ subtypes'[<<n, g>>] =
                IF g = f /\ n \in names THEN subtypes[<<n, g>>] + 1 ELSE subtypes[<<n, g>>]
      /\ \A n \in Names : qualified'[n] = IF n \in names THEN f ELSE qualified[n]
  BY <1>4, ExtendedAt, QualifiedAt, EntryOf, NoneIsNone DEF Typed, MapsTyped
<1>6. \A n \in Names, g \in Files : definitions[<<n, g>>] \in Nat /\ subtypes[<<n, g>>] \in Nat
  BY <1>5, EntryTyped
<1>7. overlap # "Scan" => \A j \in JobIds : ~Active(j)
  BY <1>1 DEF MapsInv, ScanInv, Applying
<1>8. names # None /\ f \in Files
  BY <1>2, NoneIsNone
<1>9. LibraryInv'
  BY <1>1, <1>3, <1>5, NoneIsNone DEF MapsInv, LibraryInv, NamesIn
<1>10. ScanInv'
  BY <1>1, <1>7 DEF ScanInv, Active
<1>11. ReachInv'
  <2>1. \A g \in Files : /\ NamesIn(g)' = IF g = f THEN names ELSE NamesIn(g)
                         /\ NamesIn(g) \subseteq Names
    BY <1>3, <1>8, NamesInTyped DEF NamesIn, Typed
  <2>2. \A j \in JobIds, g \in Files, n \in Names : WillWrite(j, g, n)' <=> WillWrite(j, g, n)
    BY <1>1 DEF WillWrite
  <2>3. \A n \in names : definitions'[<<n, f>>] > 0 /\ subtypes'[<<n, f>>] > 0
    BY <1>2, <1>5, <1>6, <1>8
  <2>4. ASSUME overlap' # "Scan", NEW g \in Workspace, NEW n, n \in NamesIn(g)'
        PROVE  \/ definitions'[<<n, g>>] > 0 /\ subtypes'[<<n, g>>] > 0
               \/ \E j \in JobIds : WillWrite(j, g, n)'
    <3>1. CASE g = f
      BY <2>1, <2>3, <2>4, <3>1, NoneIsNone
    <3>2. CASE g # f
      <4>1. n \in NamesIn(g) /\ n \in Names /\ g \in Files
        BY <2>1, <2>4, <3>2, NoneIsNone
      <4>2. \/ definitions[<<n, g>>] > 0 /\ subtypes[<<n, g>>] > 0
            \/ \E j \in JobIds : WillWrite(j, g, n)
        BY <1>1, <2>4, <4>1 DEF MapsInv, ReachInv
      <4>3. QED
        BY <1>5, <2>2, <3>2, <4>1, <4>2
    <3>3. QED
      BY <3>1, <3>2
  <2>5. QED
    BY <2>4 DEF ReachInv
<1>12. ExactInv'
  BY <1>1, <1>3, <1>5, <1>7, <1>8, NoneIsNone
  DEF MapsInv, ExactInv, BeingWritten, Writing, Active, NamesIn, Resetting
<1>13. HashInv'
  BY <1>1, <1>3, <1>7, <1>8, NoneIsNone DEF MapsInv, HashInv, HashIsOf,
     Active, names
<1>14. Counted'
  <2>1. /\ Pending(f) = 1 /\ Pending(f)' = 0
        /\ \A g \in Files \ {f} : Pending(g)' = Pending(g) /\ Pending(g) \in {0, 1}
        /\ \A j \in JobIds : Active(j)' <=> Active(j)
    BY <1>1, NoneIsNone DEF Pending, Due, Active, Resetting
  <2>2. QED
    BY <1>5, <1>6, <2>1 DEF MapsInv, Counted, Typed, MapsTyped
<1>15. QED
  BY <1>9, <1>10, <1>11, <1>12, <1>13, <1>14 DEF MapsInv

(* The library is stored whole, each file with the names it exports.       *)
LEMMA AddLibraryMaps ==
  ASSUME Typed, MapsInv, AddLibrary, RestoreLibrary \/ ApplySourcePathScan, started' = started
  PROVE  MapsInv'
<1>1. /\ task.at = "Paths" /\ task'.at \in {"RestoreDirty", "PathsRebuild"}
      /\ task'.todo = task.todo /\ task.todo = {}
      /\ UNCHANGED <<overlap, jobs>>
  BY DEF RestoreLibrary, ApplySourcePathScan, TaskStep, Typed, TaskTyped,
     TaskRecord
<1>2. /\ \A f \in Workspace : files'[f] = files[f] /\ content_hashes'[f] = content_hashes[f]
      /\ \A f \in External : files'[f] = LibraryNames(f) /\ f \in library_uris'
  BY NoneIsNone DEF AddLibrary, Typed, FilesTyped
<1>3. /\ definitions \in Counts /\ subtypes \in Counts
      /\ definitions' \in Counts /\ subtypes' \in Counts
      /\ \A n \in Names, f \in Files :
           IF f \in External /\ n \in LibraryNames(f)
             THEN /\ definitions'[<<n, f>>] > 0 /\ subtypes'[<<n, f>>] > 0
                  /\ definitions'[<<n, f>>] <= definitions[<<n, f>>] + 1
                  /\ subtypes'[<<n, f>>] <= subtypes[<<n, f>>] + 1
             ELSE /\ definitions'[<<n, f>>] = definitions[<<n, f>>]
                  /\ subtypes'[<<n, f>>] = subtypes[<<n, f>>]
  <2>1. definitions \in Counts /\ subtypes \in Counts
    BY DEF Typed, MapsTyped
  <2>2. \A n \in Names, f \in Files :
          /\ definitions[<<n, f>>] \in Nat /\ subtypes[<<n, f>>] \in Nat
          /\ <<n, f>> \in LibraryEntries <=> f \in External /\ n \in LibraryNames(f)
    BY <2>1, EntryTyped, LibraryEntry
  <2>3. CASE RestoreLibrary
    BY <2>1, <2>2, <2>3, ExtendedAt DEF RestoreLibrary
  <2>4. CASE ApplySourcePathScan
    BY <2>1, <2>2, <2>4, InsertedAt DEF ApplySourcePathScan
  <2>5. QED
    BY <2>3, <2>4
<1>4. \A n \in Names, f \in Files :
        qualified'[n] = f =>
          \/ f \in External /\ n \in LibraryNames(f)
          \/ qualified[n] = f /\ (f \in External => n \notin LibraryNames(f))
  BY LibraryEntry DEF AddLibrary
<1>5. \A f \in External : f \in Files /\ LibraryNames(f) # None /\ LibraryNames(f) \in SUBSET Names
  BY LibraryNamesTyped, NoneIsNone
<1>6. LibraryInv'
  BY <1>2, <1>3, <1>4, <1>5 DEF MapsInv, LibraryInv, NamesIn, Counts
<1>7. ScanInv'
  BY <1>1 DEF ScanInv, Applying, Resetting
<1>8. ReachInv'
  <2>1. \A f \in Workspace : NamesIn(f)' = NamesIn(f) /\ NamesIn(f) \subseteq Names /\ f \in Files
    BY <1>2, NamesInTyped, NoneIsNone DEF NamesIn, Typed
  <2>2. \A j \in JobIds, f \in Files, n \in Names : WillWrite(j, f, n)' <=> WillWrite(j, f, n)
    BY <1>1 DEF WillWrite
  <2>3. QED
    BY <1>1, <1>3, <2>1, <2>2, NoneIsNone DEF MapsInv, ReachInv
<1>9. ExactInv'
  BY <1>1, <1>2, <1>3, <1>4, NoneIsNone
  DEF MapsInv, ExactInv, BeingWritten, Writing, Active, NamesIn, Resetting
<1>10. HashInv'
  BY <1>1, <1>2 DEF MapsInv, HashInv, HashIsOf, Typed, JobsTyped
<1>11. Counted'
  <2>1. /\ \A f \in External : Pending(f) = 1
        /\ \A f \in Files : Pending(f)' = 0 /\ (f \notin External => Pending(f) = 0)
        /\ \A j \in JobIds : Active(j)' <=> Active(j)
    BY <1>1, NoneIsNone DEF Pending, Due, Active, Scanning, Applying,
       Resetting
  <2>2. QED
    BY <1>3, <2>1, NoneIsNone DEF MapsInv, Counted, Typed, MapsTyped, Counts
<1>12. QED
  BY <1>6, <1>7, <1>8, <1>9, <1>10, <1>11 DEF MapsInv

(* A job under way: about a file of the workspace, and not while the scan  *)
(* applies its result, unless they overlap.                                *)
LEMMA ActiveJob ==
  ASSUME Typed, MapsInv, NEW j \in JobIds, Active(j)
  PROVE  /\ jobs[j].file \in Workspace /\ jobs[j].file \in Files /\ jobs[j].file \notin External
         /\ jobs[j].text \in Texts /\ Declares[jobs[j].text] \in SUBSET Names
         /\ overlap # "Scan" => task.at \notin Applying /\ task.todo = {}
         /\ overlap = "None" =>
              \A i \in JobIds : Active(i) /\ jobs[i].file = jobs[j].file => i = j
<1>1. jobs[j].file \in Workspace /\ jobs[j].text \in Texts
  BY DEF Active, Typed, JobsTyped
<1>2. overlap # "Scan" => task.at \notin Applying
  BY DEF MapsInv, ScanInv
<1>3. task.at \notin Applying => task.todo = {}
  BY DEF Typed, TaskTyped, TaskRecord, TaskSteps, Scanning
<1>4. QED
  BY <1>1, <1>2, <1>3, DeclaresTyped, NoneIsNone DEF MapsInv, ExactInv

(* remove_stale_for_uri leaves nothing of the file behind.                 *)
LEMMA RemoveStaleMaps ==
  ASSUME Typed, MapsInv, NEW j \in JobIds, RemoveStale(j), started' = started
  PROVE  MapsInv'
<1>1. /\ jobs[j].at = "RemoveStale" /\ jobs'[j].at = "StoreHash"
      /\ jobs'[j].file = jobs[j].file /\ jobs'[j].text = jobs[j].text
      /\ \A i \in JobIds \ {j} : jobs'[i] = jobs[i]
      /\ UNCHANGED <<files, content_hashes, library_uris, overlap, task>>
  BY StepAt DEF RemoveStale, Typed, fileVars
<1>2. Active(j)
  BY <1>1 DEF Active
<1>3. PICK f \in Workspace :
        /\ f = jobs[j].file /\ f \in Files /\ f \notin External
        /\ overlap # "Scan" => task.at \notin Applying
        /\ overlap = "None" => \A i \in JobIds : Active(i) /\ jobs[i].file = f => i = j
  BY <1>2, ActiveJob
<1>4. /\ definitions \in Counts /\ subtypes \in Counts
      /\ \A n \in Names, g \in Files : definitions[<<n, g>>] \in Nat /\ subtypes[<<n, g>>] \in Nat
  BY EntryTyped DEF Typed, MapsTyped
<1>5. \A n \in Names, g \in Files :
        definitions'[<<n, g>>] = IF g = f /\ n \in NamesIn(f) THEN 0 ELSE definitions[<<n, g>>]
  <2>1. CASE files[f] = None
    BY <1>3, <2>1 DEF RemoveStale, NamesIn
  <2>2. CASE files[f] # None
    <3>1. definitions' = RemovedByKey(definitions, EntriesOf(f, NamesIn(f)))
      BY <1>3, <2>2 DEF RemoveStale, StaleNames
    <3>2. \A n \in Names, g \in Files :
            definitions'[<<n, g>>] =
              IF <<n, g>> \in EntriesOf(f, NamesIn(f)) THEN 0 ELSE definitions[<<n, g>>]
      BY <1>4, <3>1 DEF RemovedByKey, Counts
    <3>3. QED
      BY <3>2, EntryOf
  <2>3. QED
    BY <2>1, <2>2
<1>6. \A n \in Names, g \in Files :
        subtypes'[<<n, g>>] = IF g = f /\ files[f] # None THEN 0 ELSE subtypes[<<n, g>>]
  <2>1. CASE files[f] = None
    BY <1>3, <2>1 DEF RemoveStale
  <2>2. CASE files[f] # None
    <3>1. subtypes' = Swept(subtypes, f)
      BY <1>3, <2>2 DEF RemoveStale
    <3>2. \A n \in Names, g \in Files :
            subtypes'[<<n, g>>] = IF g = f THEN 0 ELSE subtypes[<<n, g>>]
      BY <1>4, <3>1 DEF Swept, Counts
    <3>3. QED
      BY <2>2, <3>2
  <2>3. QED
    BY <2>1, <2>2
<1>7. \A n \in Names, g \in Files :
        qualified'[n] = g => qualified[n] = g /\ n \notin NamesIn(f)
  BY <1>3, NoneIsNone DEF RemoveStale, StaleNames, NamesIn
<1>8. \A g \in Files : NamesIn(g)' = NamesIn(g) /\ NamesIn(g) \subseteq Names
  BY <1>1, NamesInTyped DEF NamesIn, Typed
<1>9. LibraryInv'
  <2>1. \A g \in External : g \in Files /\ g # f
    BY <1>3, NoneIsNone
  <2>2. QED
    BY <1>1, <1>5, <1>6, <1>7, <1>8, <2>1 DEF MapsInv, LibraryInv
<1>10. ScanInv'
  BY <1>1, <1>3 DEF MapsInv, ScanInv, Active, Applying, Resetting
<1>11. ReachInv'
  <2>1. /\ \A i \in JobIds, g \in Files, n \in Names : WillWrite(i, g, n) => WillWrite(i, g, n)'
        /\ \A n \in Names : WillWrite(j, f, n)'
    BY <1>1, <1>3 DEF WillWrite
  <2>2. ASSUME overlap # "Scan", NEW g \in Workspace, NEW n \in NamesIn(g)
        PROVE  \/ definitions'[<<n, g>>] > 0 /\ subtypes'[<<n, g>>] > 0
               \/ \E i \in JobIds : WillWrite(i, g, n)'
    <3>1. g \in Files /\ n \in Names
      BY <1>8, <2>2, NoneIsNone
    <3>2. CASE g = f
      BY <2>1, <3>1, <3>2
    <3>3. CASE g # f
      BY <1>5, <1>6, <2>1, <2>2, <3>1, <3>3 DEF MapsInv, ReachInv
    <3>4. QED
      BY <3>2, <3>3
  <2>3. QED
    BY <1>1, <1>8, <2>2, NoneIsNone DEF ReachInv
<1>12. ExactInv'
  <2>1. /\ BeingWritten(f)'
        /\ \A g \in Files \ {f} : BeingWritten(g)' <=> BeingWritten(g)
    BY <1>1, <1>3 DEF BeingWritten, Writing
  <2>2. overlap = "None" =>
          \A n \in Names :
            definitions'[<<n, f>>] = 0 /\ subtypes'[<<n, f>>] = 0 /\ qualified'[n] # f
    BY <1>3, <1>5, <1>6, <1>7 DEF MapsInv, ExactInv, NamesIn, Applying,
       Resetting
  <2>3. overlap' = "None" =>
          \A i, k \in JobIds :
            Active(i)' /\ Active(k)' /\ jobs'[i].file = jobs'[k].file => i = k
    BY <1>1, <1>2 DEF MapsInv, ExactInv, Active
  <2>4. ASSUME overlap = "None", task.at # "ResetMaps", NEW g \in Workspace, NEW n \in Names
        PROVE  IF n \in NamesIn(g) /\ ~BeingWritten(g)'
                 THEN definitions'[<<n, g>>] = 1 /\ subtypes'[<<n, g>>] = 1
                 ELSE definitions'[<<n, g>>] = 0 /\ subtypes'[<<n, g>>] = 0 /\ qualified'[n] # g
    <3>1. g \in Files
      BY NoneIsNone
    <3>2. CASE g = f
      BY <2>1, <2>2, <2>4, <3>2
    <3>3. CASE g # f
      BY <1>5, <1>6, <1>7, <2>1, <2>4, <3>1, <3>3 DEF MapsInv, ExactInv
    <3>4. QED
      BY <3>2, <3>3
  <2>5. QED
    BY <1>1, <1>8, <2>3, <2>4, NoneIsNone DEF MapsInv, ExactInv
<1>13. HashInv'
  BY <1>1 DEF MapsInv, HashInv, HashIsOf
<1>14. Counted'
  <2>1. /\ \A g \in Files : Pending(g)' = Pending(g) /\ Pending(g) \in {0, 1}
        /\ \A i \in JobIds : Active(i)' <=> Active(i)
    BY <1>1 DEF Pending, Due, Active
  <2>2. \A n \in Names, g \in Files : /\ definitions'[<<n, g>>] <= definitions[<<n, g>>]
                                      /\ subtypes'[<<n, g>>] <= subtypes[<<n, g>>]
                                      /\ definitions'[<<n, g>>] \in Nat
                                      /\ subtypes'[<<n, g>>] \in Nat
    <3> TAKE n \in Names, g \in Files
    <3>1. definitions'[<<n, g>>] = 0 \/ definitions'[<<n, g>>] = definitions[<<n, g>>]
      BY <1>5
    <3>2. subtypes'[<<n, g>>] = 0 \/ subtypes'[<<n, g>>] = subtypes[<<n, g>>]
      BY <1>6
    <3>3. definitions[<<n, g>>] \in Nat /\ subtypes[<<n, g>>] \in Nat
      BY <1>4
    <3>4. QED
      BY <3>1, <3>2, <3>3
  <2>3. QED
    BY <1>4, <2>1, <2>2 DEF MapsInv, Counted, Typed, MapsTyped
<1>15. QED
  BY <1>9, <1>10, <1>11, <1>12, <1>13, <1>14 DEF MapsInv

LEMMA StoreHashMaps ==
  ASSUME Typed, MapsInv, NEW j \in JobIds, StoreHash(j), started' = started
  PROVE  MapsInv'
<1> DEFINE f == jobs[j].file
<1>1. /\ jobs[j].at = "StoreHash" /\ jobs'[j].at = "StoreFile"
      /\ jobs'[j].file = f /\ jobs'[j].text = jobs[j].text
      /\ \A i \in JobIds \ {j} : jobs'[i] = jobs[i]
      /\ content_hashes' = [content_hashes EXCEPT ![f] = jobs[j].text]
      /\ UNCHANGED <<files, library_uris, definitions, subtypes, qualified,
                     overlap, task>>
  BY StepAt DEF StoreHash, Typed, mapVars
<1>2. Active(j)
  BY <1>1 DEF Active
<1>3. /\ f \in Workspace /\ f \in Files /\ f \notin External
      /\ overlap = "None" => \A i \in JobIds : Active(i) /\ jobs[i].file = f => i = j
  BY <1>2, ActiveJob
<1>4. /\ content_hashes'[f] = jobs[j].text
      /\ \A g \in Files \ {f} : content_hashes'[g] = content_hashes[g]
  BY <1>1, <1>3 DEF Typed, FilesTyped
<1>5. LibraryInv'
  BY <1>1 DEF MapsInv, LibraryInv, NamesIn
<1>6. ScanInv'
  BY <1>1, <1>2 DEF MapsInv, ScanInv, Active
<1>7. ReachInv'
  <2>1. \A i \in JobIds, g \in Files, n \in Names : WillWrite(i, g, n) => WillWrite(i, g, n)'
    BY <1>1 DEF WillWrite
  <2>2. QED
    BY <1>1, <2>1, NamesInTyped, NoneIsNone DEF MapsInv, ReachInv, NamesIn,
       Typed
<1>8. ExactInv'
  <2>1. \A g \in Files : BeingWritten(g)' <=> BeingWritten(g)
    BY <1>1 DEF BeingWritten, Writing
  <2>2. overlap' = "None" =>
          \A i, k \in JobIds :
            Active(i)' /\ Active(k)' /\ jobs'[i].file = jobs'[k].file => i = k
    BY <1>1, <1>2 DEF MapsInv, ExactInv, Active
  <2>3. QED
    BY <1>1, <2>1, <2>2, NoneIsNone DEF MapsInv, ExactInv, NamesIn
<1>9. HashInv'
  <2>1. ASSUME overlap = "None", task.at \notin {"ResetMaps", "ResetRest"}, NEW g \in Workspace
        PROVE  HashIsOf(g)' \/ \E i \in JobIds : jobs'[i].at = "StoreFile" /\ jobs'[i].file = g
    BY <1>1, <1>4, <2>1, NoneIsNone DEF MapsInv, HashInv, HashIsOf
  <2>2. ASSUME overlap = "None", NEW i \in JobIds
        PROVE  /\ jobs'[i].at = "StoreFile" => content_hashes'[jobs'[i].file] = jobs'[i].text
               /\ jobs'[i].at = "StoreMaps" => files'[jobs'[i].file] = Declares[jobs'[i].text]
    <3>1. CASE i = j
      BY <1>1, <1>4, <3>1
    <3>2. CASE i # j
      BY <1>1, <1>3, <1>4, <2>2, <3>2, NoneIsNone
      DEF MapsInv, HashInv, Active, Typed, JobsTyped
    <3>3. QED
      BY <3>1, <3>2
  <2>3. QED
    BY <1>1, <2>1, <2>2 DEF HashInv
<1>10. Counted'
  BY <1>1, <1>2 DEF MapsInv, Counted, Pending, Due, Active
<1>11. QED
  BY <1>5, <1>6, <1>7, <1>8, <1>9, <1>10 DEF MapsInv

LEMMA StoreFileMaps ==
  ASSUME Typed, MapsInv, NEW j \in JobIds, StoreFile(j), started' = started
  PROVE  MapsInv'
<1>1. /\ jobs[j].at = "StoreFile" /\ jobs'[j].at = "StoreMaps"
      /\ jobs'[j].file = jobs[j].file /\ jobs'[j].text = jobs[j].text
      /\ \A i \in JobIds \ {j} : jobs'[i] = jobs[i]
      /\ files' = [files EXCEPT ![jobs[j].file] = Declares[jobs[j].text]]
      /\ UNCHANGED <<content_hashes, library_uris, definitions, subtypes,
                     qualified, overlap, task>>
  BY StepAt DEF StoreFile, Typed, mapVars
<1>2. Active(j)
  BY <1>1 DEF Active
<1>3. PICK f \in Workspace, names \in SUBSET Names :
        /\ f = jobs[j].file /\ f \in Files /\ f \notin External
        /\ names = Declares[jobs[j].text]
        /\ overlap # "Scan" => task.at \notin Applying /\ task.todo = {}
        /\ overlap = "None" => \A i \in JobIds : Active(i) /\ jobs[i].file = f => i = j
  BY <1>2, ActiveJob
<1>4. files'[f] = names /\ \A g \in Files \ {f} : files'[g] = files[g]
  BY <1>1, <1>3 DEF Typed, FilesTyped
<1>5. \A g \in Files : /\ NamesIn(g)' = IF g = f THEN names ELSE NamesIn(g)
                       /\ NamesIn(g) \subseteq Names
  BY <1>4, NamesInTyped, NoneIsNone DEF NamesIn, Typed
<1>6. LibraryInv'
  <2>1. \A g \in External : g \in Files /\ g # f
    BY <1>3, NoneIsNone
  <2>2. QED
    BY <1>1, <1>4, <1>5, <2>1 DEF MapsInv, LibraryInv
<1>7. ScanInv'
  BY <1>1, <1>2, <1>3 DEF MapsInv, ScanInv, Active, Applying, Resetting
<1>8. ReachInv'
  <2>1. /\ \A i \in JobIds, g \in Files, n \in Names :
             g # f /\ WillWrite(i, g, n) => WillWrite(i, g, n)'
        /\ \A n \in names : WillWrite(j, f, n)'
    BY <1>1, <1>3 DEF WillWrite
  <2>2. ASSUME overlap # "Scan", NEW g \in Workspace, NEW n, n \in NamesIn(g)'
        PROVE  \/ definitions'[<<n, g>>] > 0 /\ subtypes'[<<n, g>>] > 0
               \/ \E i \in JobIds : WillWrite(i, g, n)'
    <3>1. CASE g = f
      BY <1>3, <1>5, <2>1, <2>2, <3>1
    <3>2. CASE g # f
      <4>1. g \in Files /\ n \in Names /\ n \in NamesIn(g)
        BY <1>5, <2>2, <3>2, NoneIsNone
      <4>2. QED
        BY <1>1, <2>1, <2>2, <3>2, <4>1 DEF MapsInv, ReachInv
    <3>3. QED
      BY <3>1, <3>2
  <2>3. QED
    BY <1>1, <2>2 DEF ReachInv
<1>9. ExactInv'
  <2>1. /\ BeingWritten(f) /\ \A g \in Files : BeingWritten(g)' <=> BeingWritten(g)
    BY <1>1, <1>3 DEF BeingWritten, Writing
  <2>2. overlap' = "None" =>
          \A i, k \in JobIds :
            Active(i)' /\ Active(k)' /\ jobs'[i].file = jobs'[k].file => i = k
    BY <1>1, <1>2 DEF MapsInv, ExactInv, Active
  <2>3. ASSUME overlap = "None", NEW g \in Workspace, task.at \in Resetting \/ g \in task.todo
        PROVE  files'[g] = None
    BY <1>3, <2>3 DEF Applying
  <2>4. ASSUME overlap = "None", task.at # "ResetMaps", NEW g \in Workspace, NEW n \in Names
        PROVE  IF n \in NamesIn(g)' /\ ~BeingWritten(g)'
                 THEN definitions[<<n, g>>] = 1 /\ subtypes[<<n, g>>] = 1
                 ELSE definitions[<<n, g>>] = 0 /\ subtypes[<<n, g>>] = 0 /\ qualified[n] # g
    <3>1. g \in Files
      BY NoneIsNone
    <3>2. CASE g = f
      BY <2>1, <2>4, <3>1, <3>2 DEF MapsInv, ExactInv
    <3>3. CASE g # f
      BY <1>5, <2>1, <2>4, <3>1, <3>3 DEF MapsInv, ExactInv
    <3>4. QED
      BY <3>2, <3>3
  <2>5. QED
    BY <1>1, <2>2, <2>3, <2>4 DEF ExactInv
<1>10. HashInv'
  <2>1. overlap = "None" => content_hashes[f] = jobs[j].text
    BY <1>1, <1>3 DEF MapsInv, HashInv
  <2>2. ASSUME overlap = "None", task.at \notin {"ResetMaps", "ResetRest"}, NEW g \in Workspace
        PROVE  HashIsOf(g)' \/ \E i \in JobIds : jobs'[i].at = "StoreFile" /\ jobs'[i].file = g
    <3>1. g \in Files /\ jobs[j].text # None
      BY <1>2, ActiveJob, NoneIsNone
    <3>2. CASE g = f
      BY <1>1, <1>3, <1>4, <2>1, <2>2, <3>1, <3>2 DEF HashIsOf
    <3>3. CASE g # f
      BY <1>1, <1>3, <1>4, <2>2, <3>1, <3>3 DEF MapsInv, HashInv, HashIsOf
    <3>4. QED
      BY <3>2, <3>3
  <2>3. ASSUME overlap = "None", NEW i \in JobIds
        PROVE  /\ jobs'[i].at = "StoreFile" => content_hashes'[jobs'[i].file] = jobs'[i].text
               /\ jobs'[i].at = "StoreMaps" => files'[jobs'[i].file] = Declares[jobs'[i].text]
    <3>1. CASE i = j
      BY <1>1, <1>3, <1>4, <3>1
    <3>2. CASE i # j
      BY <1>1, <1>3, <1>4, <2>3, <3>2, NoneIsNone
      DEF MapsInv, HashInv, Active, Typed, JobsTyped
    <3>3. QED
      BY <3>1, <3>2
  <2>4. QED
    BY <1>1, <2>2, <2>3 DEF HashInv
<1>11. Counted'
  BY <1>1, <1>2 DEF MapsInv, Counted, Pending, Due, Active
<1>12. QED
  BY <1>6, <1>7, <1>8, <1>9, <1>10, <1>11 DEF MapsInv

(* A job that overlapped no other leaves its file exact.                   *)
LEMMA StoreMapsMaps ==
  ASSUME Typed, MapsInv, NEW j \in JobIds, StoreMaps(j), started' = started
  PROVE  MapsInv'
<1>1. /\ jobs[j].at = "StoreMaps" /\ jobs'[j].at = "SetDirty"
      /\ jobs'[j].file = jobs[j].file /\ jobs'[j].text = jobs[j].text
      /\ \A i \in JobIds \ {j} : jobs'[i] = jobs[i]
      /\ UNCHANGED <<files, content_hashes, library_uris, overlap, task>>
  BY StepAt DEF StoreMaps, Typed, fileVars
<1>2. Active(j)
  BY <1>1 DEF Active
<1>3. PICK f \in Workspace, names \in SUBSET Names :
        /\ f = jobs[j].file /\ f \in Files /\ f \notin External
        /\ names = Declares[jobs[j].text]
        /\ overlap = "None" => \A i \in JobIds : Active(i) /\ jobs[i].file = f => i = j
  BY <1>2, ActiveJob
<1>4. /\ definitions \in Counts /\ subtypes \in Counts
      /\ \A n \in Names, g \in Files : definitions[<<n, g>>] \in Nat /\ subtypes[<<n, g>>] \in Nat
  BY EntryTyped DEF Typed, MapsTyped
<1>5. /\ definitions' = Inserted(definitions, EntriesOf(f, names))
      /\ subtypes' = Inserted(subtypes, EntriesOf(f, names))
      /\ qualified' = Qualified(f, names)
  BY <1>3 DEF StoreMaps
<1>6. \A n \in Names, g \in Files :
        definitions'[<<n, g>>] = IF g = f /\ n \in names /\ definitions[<<n, g>>] = 0
                                   THEN 1 ELSE definitions[<<n, g>>]
  <2>1. \A n \in Names, g \in Files :
          definitions'[<<n, g>>] = IF <<n, g>> \in EntriesOf(f, names) /\ definitions[<<n, g>>] = 0
                            THEN 1 ELSE definitions[<<n, g>>]
    BY <1>4, <1>5 DEF Inserted, Counts
  <2>2. \A n \in Names, g \in Files : <<n, g>> \in EntriesOf(f, names) <=> g = f /\ n \in names
    BY DEF EntriesOf
  <2>3. QED
    BY <2>1, <2>2
<1>7. \A n \in Names, g \in Files :
        subtypes'[<<n, g>>] = IF g = f /\ n \in names /\ subtypes[<<n, g>>] = 0
                                THEN 1 ELSE subtypes[<<n, g>>]
  <2>1. \A n \in Names, g \in Files :
          subtypes'[<<n, g>>] = IF <<n, g>> \in EntriesOf(f, names) /\ subtypes[<<n, g>>] = 0
                            THEN 1 ELSE subtypes[<<n, g>>]
    BY <1>4, <1>5 DEF Inserted, Counts
  <2>2. \A n \in Names, g \in Files : <<n, g>> \in EntriesOf(f, names) <=> g = f /\ n \in names
    BY DEF EntriesOf
  <2>3. QED
    BY <2>1, <2>2
<1>8. \A n \in Names : qualified'[n] = IF n \in names THEN f ELSE qualified[n]
  BY <1>3, <1>5, QualifiedAt DEF Typed
<1>9. \A g \in Files : NamesIn(g)' = NamesIn(g) /\ NamesIn(g) \subseteq Names
  BY <1>1, NamesInTyped DEF NamesIn, Typed
<1>10. LibraryInv'
  <2>1. \A g \in External : g \in Files /\ g # f
    BY <1>3, NoneIsNone
  <2>2. QED
    BY <1>1, <1>6, <1>7, <1>8, <1>9, <2>1 DEF MapsInv, LibraryInv
<1>11. ScanInv'
  BY <1>1, <1>2 DEF MapsInv, ScanInv, Active
<1>12. ReachInv'
  <2>1. \A i \in JobIds, g \in Files, n \in Names :
          WillWrite(i, g, n) => WillWrite(i, g, n)' \/ (g = f /\ n \in names)
    <3> TAKE i \in JobIds, g \in Files, n \in Names
    <3>1. CASE i = j
      BY <1>1, <1>3, <3>1 DEF WillWrite
    <3>2. CASE i # j
      BY <1>1, <3>2 DEF WillWrite
    <3>3. QED
      BY <3>1, <3>2
  <2>2. ASSUME overlap # "Scan", NEW g \in Workspace, NEW n \in NamesIn(g)
        PROVE  \/ definitions'[<<n, g>>] > 0 /\ subtypes'[<<n, g>>] > 0
               \/ \E i \in JobIds : WillWrite(i, g, n)'
    <3>1. g \in Files /\ n \in Names
      BY <1>9, <2>2, NoneIsNone
    <3>2. CASE g = f /\ n \in names
      BY <1>4, <1>6, <1>7, <3>1, <3>2
    <3>3. CASE ~(g = f /\ n \in names)
      <4>1. /\ definitions'[<<n, g>>] = definitions[<<n, g>>]
            /\ subtypes'[<<n, g>>] = subtypes[<<n, g>>]
        BY <1>6, <1>7, <3>1, <3>3
      <4>2. \/ definitions[<<n, g>>] > 0 /\ subtypes[<<n, g>>] > 0
            \/ \E i \in JobIds : WillWrite(i, g, n)
        BY <2>2 DEF MapsInv, ReachInv
      <4>3. QED
        BY <2>1, <3>1, <3>3, <4>1, <4>2
    <3>4. QED
      BY <3>2, <3>3
  <2>3. QED
    BY <1>1, <1>9, <2>2, NoneIsNone DEF ReachInv
<1>13. ExactInv'
  <2>1. /\ BeingWritten(f)
        /\ overlap = "None" => ~BeingWritten(f)'
        /\ \A g \in Files \ {f} : BeingWritten(g)' <=> BeingWritten(g)
    BY <1>1, <1>3 DEF BeingWritten, Writing, Active
  <2>2. overlap' = "None" =>
          \A i, k \in JobIds :
            Active(i)' /\ Active(k)' /\ jobs'[i].file = jobs'[k].file => i = k
    BY <1>1, <1>2 DEF MapsInv, ExactInv, Active
  <2>3. overlap = "None" => NamesIn(f) = names
    BY <1>1, <1>3, NoneIsNone DEF MapsInv, HashInv, NamesIn
  <2>4. ASSUME overlap = "None", task.at # "ResetMaps", NEW g \in Workspace, NEW n \in Names
        PROVE  IF n \in NamesIn(g) /\ ~BeingWritten(g)'
                 THEN definitions'[<<n, g>>] = 1 /\ subtypes'[<<n, g>>] = 1
                 ELSE definitions'[<<n, g>>] = 0 /\ subtypes'[<<n, g>>] = 0 /\ qualified'[n] # g
    <3>1. g \in Files
      BY NoneIsNone
    <3>2. CASE g = f
      <4>1. definitions[<<n, f>>] = 0 /\ subtypes[<<n, f>>] = 0 /\ qualified[n] # f
        BY <2>1, <2>4 DEF MapsInv, ExactInv
      <4>2. QED
        BY <1>6, <1>7, <1>8, <2>1, <2>3, <2>4, <3>1, <3>2, <4>1
    <3>3. CASE g # f
      <4>1. /\ definitions'[<<n, g>>] = definitions[<<n, g>>]
            /\ subtypes'[<<n, g>>] = subtypes[<<n, g>>]
            /\ qualified'[n] = g => qualified[n] = g
        BY <1>6, <1>7, <1>8, <3>1, <3>3
      <4>2. QED
        BY <2>1, <2>4, <3>1, <3>3, <4>1 DEF MapsInv, ExactInv
    <3>4. QED
      BY <3>2, <3>3
  <2>5. QED
    BY <1>1, <1>9, <2>2, <2>4, NoneIsNone DEF MapsInv, ExactInv
<1>14. HashInv'
  BY <1>1 DEF MapsInv, HashInv, HashIsOf
<1>15. Counted'
  <2>1. /\ \A g \in Files : Pending(g)' = Pending(g) /\ Pending(g) \in {0, 1}
        /\ \A i \in JobIds : Active(i)' => Active(i)
    BY <1>1 DEF Pending, Due, Active
  <2>2. \A n \in Names, g \in Files : /\ definitions'[<<n, g>>] \in {1, definitions[<<n, g>>]}
                                      /\ subtypes'[<<n, g>>] \in {1, subtypes[<<n, g>>]}
    <3> TAKE n \in Names, g \in Files
    <3>1. definitions'[<<n, g>>] \in {1, definitions[<<n, g>>]}
      BY <1>6
    <3>2. subtypes'[<<n, g>>] \in {1, subtypes[<<n, g>>]}
      BY <1>7
    <3>3. QED
      BY <3>1, <3>2
  <2>3. QED
    BY <1>2, <1>4, <2>1, <2>2 DEF MapsInv, Counted, Typed, MapsTyped
<1>16. QED
  BY <1>10, <1>11, <1>12, <1>13, <1>14, <1>15 DEF MapsInv

LEMMA MapsNext ==
  ASSUME Typed, MapsInv, CallInv, [Next]_vars
  PROVE  MapsInv'
<1>1. started \in Nat
  BY NoneIsNone DEF Typed, MapsTyped
<1>2. CASE Start
  <2>1. started' = started + 1
    BY <1>2
    DEF Start, Starts, IndexContent, EnsureIndexed, DeleteFile, ResetFiles, PopulateJars,
        BeginRequest
  <2>2. CASE \E j \in JobIds : IndexContent(j) \/ EnsureIndexed(j)
    BY <2>1, <2>2, StartJobMaps DEF IndexContent, EnsureIndexed
  <2>3. CASE \E f \in Workspace : DeleteFile(f)
    BY <2>3, DeleteFileMaps
  <2>4. CASE ResetFiles
    BY <2>4, ResetFilesMaps
  <2>5. CASE PopulateJars \/ BeginRequest
    <3>1. /\ UNCHANGED <<files, content_hashes, library_uris, definitions,
                         subtypes, qualified>>
          /\ UNCHANGED <<overlap, jobs, task>>
      BY <2>5
      DEF PopulateJars, BeginRequest, OutsideJars, OutsideRequest, fileVars, mapVars
    <3>2. QED
      BY <1>1, <2>1, <3>1, QuietStep
  <2>6. QED
    BY <1>2, <2>2, <2>3, <2>4, <2>5 DEF Start
<1>3. CASE started' = started /\ \E j \in JobIds : Job(j)
  <2>1. PICK j \in JobIds : Job(j)
    BY <1>3
  <2>2. CASE JobInvalidates(j) \/ JobBumps(j)
    <3>1. PICK to \in Waiting : jobs[j].at \in Waiting /\ Step(j, jobs[j].at, to)
      BY <2>2 DEF JobInvalidates, JobBumps, Step, Waiting
    <3>2. /\ UNCHANGED <<files, content_hashes, library_uris, definitions,
                         subtypes, qualified>>
          /\ UNCHANGED <<overlap, task>>
      BY <2>2 DEF JobInvalidates, JobBumps, fileVars, mapVars
    <3>3. \A i \in JobIds :
            /\ jobs'[i].file = jobs[i].file /\ jobs'[i].text = jobs[i].text
            /\ jobs'[i].at = jobs[i].at \/ {jobs[i].at, jobs'[i].at} \subseteq Waiting
      BY <3>1 DEF Step, Typed, JobsTyped, JobRecord
    <3>4. QED
      BY <1>1, <1>3, <3>2, <3>3, QuietStep
  <2>3. CASE SetDirty(j)
    <3>1. /\ UNCHANGED <<files, content_hashes, library_uris, definitions,
                         subtypes, qualified>>
          /\ UNCHANGED <<overlap, task>>
      BY <2>3 DEF SetDirty, fileVars, mapVars
    <3>2. \A i \in JobIds :
            /\ jobs'[i].file = jobs[i].file /\ jobs'[i].text = jobs[i].text
            /\ jobs'[i].at = jobs[i].at \/ (jobs[i].at = "SetDirty" /\ jobs'[i].at = "Done")
      BY <2>3 DEF SetDirty, Step, Typed, JobsTyped, JobRecord
    <3>3. QED
      BY <1>1, <1>3, <3>1, <3>2, QuietStep
  <2>4. QED
    BY <1>3, <2>1, <2>2, <2>3, RemoveStaleMaps, StoreHashMaps, StoreFileMaps,
       StoreMapsMaps DEF Job
<1>4. CASE started' = started /\ Task
  <2>1. CASE ResetBump \/ MarkDirty \/ RestoreDirty \/ NoSourcePaths
    <3>1. /\ UNCHANGED <<files, content_hashes, library_uris, definitions,
                         subtypes, qualified>>
          /\ UNCHANGED <<overlap, jobs>>
      BY <2>1 DEF ResetBump, MarkDirty, RestoreDirty, NoSourcePaths,
         fileVars, mapVars
    <3>2. /\ task'.todo = task.todo
          /\ \/ task.at = "ResetBump" /\ task'.at = "Fresh"
             \/ task.at = "Fresh" /\ task'.at = "Rebuild"
             \/ task.at = "RestoreDirty" /\ task'.at = "PathsRebuild"
             \/ task.at = "Paths" /\ task'.at = "Idle"
      BY <2>1
      DEF ResetBump, MarkDirty, RestoreDirty, NoSourcePaths, TaskStep, Typed, TaskTyped,
          TaskRecord
    <3>3. QED
      BY <1>1, <1>4, <3>1, <3>2, QuietStep DEF Scanning, Applying, Resetting
  <2>2. CASE RestoreLibrary \/ ApplySourcePathScan
    BY <1>4, <2>2, AddLibraryMaps DEF RestoreLibrary, ApplySourcePathScan
  <2>3. QED
    BY <1>4, <2>1, <2>2, ResetMapsMaps, ResetRestMaps, ApplyFreshMaps DEF Task
<1>5. CASE started' = started /\ (NoteClears \/ NoteBumps \/ Request)
  <2>1. /\ UNCHANGED <<files, content_hashes, library_uris, definitions,
                       subtypes, qualified>>
        /\ UNCHANGED <<overlap, jobs, task>>
    <3>1. CASE Compute
      BY <3>1, Zenon DEF Compute, OutsideRequest, fileVars, mapVars
    <3>2. CASE NoteClears \/ NoteBumps \/ Lookup \/ StoreInCache
      BY <3>2
      DEF NoteClears, NoteBumps, Lookup, StoreInCache, OutsideJars, OutsideRequest, fileVars,
          mapVars
    <3>3. QED
      BY <1>5, <3>1, <3>2 DEF Request
  <2>2. QED
    BY <1>1, <1>5, <2>1, QuietStep
<1>6. CASE started' = started /\ \E p \in Rebuilders : Rebuild(p)
  <2>1. /\ UNCHANGED <<files, content_hashes, library_uris, definitions,
                       subtypes, qualified>>
        /\ UNCHANGED <<overlap, jobs>>
    BY <1>6
    DEF Rebuild, RebuildTakesDirty, RebuildIsFresh, RebuildNames, RebuildCollects,
        RebuildPublishes, RebuildDropsLast, OutsideNames, fileVars, mapVars
  <2>2. task' = task \/ \E p \in Rebuilders : Calls(p) /\ Returns(p)
    <3>1. PICK p \in Rebuilders : Rebuild(p)
      BY <1>6
    <3>2. CASE RebuildDropsLast(p)
      BY <3>2 DEF RebuildDropsLast, CallInv
    <3>3. CASE ~RebuildDropsLast(p)
      BY <3>1, <3>3
      DEF Rebuild, RebuildTakesDirty, RebuildIsFresh, RebuildNames, RebuildCollects,
          RebuildPublishes
    <3>4. QED
      BY <3>2, <3>3
  <2>3. \/ task' = task
        \/ /\ task'.todo = task.todo
           /\ \/ task.at = "Rebuild" /\ task'.at = "Paths"
              \/ task.at = "PathsRebuild" /\ task'.at = "Idle"
    BY <2>2 DEF Calls, Returns, Typed, TaskTyped, TaskRecord
  <2>4. QED
    BY <1>1, <1>6, <2>1, <2>3, QuietStep DEF Scanning, Applying, Resetting
<1>7. CASE UNCHANGED vars
  <2>1. /\ UNCHANGED <<files, content_hashes, library_uris, definitions,
                       subtypes, qualified>>
        /\ UNCHANGED <<overlap, jobs, task, started>>
    BY <1>7 DEF vars, fileVars, mapVars
  <2>2. QED
    BY <1>1, <2>1, QuietStep
<1>8. QED
  BY <1>2, <1>3, <1>4, <1>5, <1>6, <1>7 DEF Next, Continue

LEMMA InitMaps == Init => MapsInv
<1> SUFFICES ASSUME Init
             PROVE  MapsInv
  OBVIOUS
<1> USE NoneIsNone
<1>1. /\ \A f \in Files : files[f] = None /\ content_hashes[f] = None
      /\ \A n \in Names, f \in Files : definitions[<<n, f>>] = 0 /\ subtypes[<<n, f>>] = 0
      /\ \A n \in Names : qualified[n] = None
      /\ \A j \in JobIds : jobs[j].at = "None"
      /\ task.at = "Idle" /\ task.todo = {} /\ overlap = "None" /\ started = 0
  BY DEF Init
<1>2. LibraryInv
  BY <1>1 DEF LibraryInv, NamesIn
<1>3. ScanInv /\ ReachInv
  BY <1>1 DEF ScanInv, ReachInv, NamesIn, Applying, Resetting
<1>4. ExactInv
  BY <1>1 DEF ExactInv, NamesIn, Active, Resetting
<1>5. HashInv
  BY <1>1 DEF HashInv, HashIsOf
<1>6. Counted
  BY <1>1 DEF Counted, Pending, Due, Active, Scanning, Applying, Resetting
<1>7. QED
  BY <1>2, <1>3, <1>4, <1>5, <1>6 DEF MapsInv

LEMMA IndexInvHolds == Spec => [](IndexInv /\ BareNamesAreComplete)
<1>1. Init => IndexInv /\ BareNamesAreComplete
  <2>1. Init => CallInv /\ SeenInv
    BY DEF Init, CallInv, SeenInv
  <2>2. QED
    BY <2>1, InitTyped, InitMaps, BareNamesInit DEF IndexInv
<1>2. IndexInv /\ BareNamesAreComplete /\ [Next]_vars => (IndexInv /\ BareNamesAreComplete)'
  <2> SUFFICES ASSUME IndexInv, BareNamesAreComplete, [Next]_vars
               PROVE  IndexInv' /\ BareNamesAreComplete'
    OBVIOUS
  <2>1. Typed' /\ MapsInv' /\ SeenInv'
    BY TypedNext, MapsNext, SeenNext DEF IndexInv
  <2>2. /\ rebuild \in [Rebuilders -> RebuildRecord] /\ task \in TaskRecord
        /\ request \in RequestRecord /\ JobsTyped
    BY DEF IndexInv, Typed, CachesTyped, TaskTyped
  <2>3. CallInv' /\ BareNamesAreComplete'
    BY <2>2, CallNext, BareNamesNext DEF IndexInv
  <2>4. QED
    BY <2>1, <2>3 DEF IndexInv
<1>3. QED
  BY <1>1, <1>2, PTL DEF Spec

(* The variables have their types; apply_contributions_fresh and the       *)
(* restoring of the library add no entry twice for one operation, so that  *)
(* every count stays within the number of operations.                      *)
THEOREM TypeCorrect == Spec => []TypeOK
<1>1. IndexInv => TypeOK
  <2> SUFFICES ASSUME IndexInv
               PROVE  TypeOK
    OBVIOUS
  <2>1. definitions \in Entries /\ subtypes \in Entries
    <3>1. \A n \in Names, f \in Files : definitions[<<n, f>>] \in 0..MaxOperations
                                        /\ subtypes[<<n, f>>] \in 0..MaxOperations
      <4>1. started \in 0..MaxOperations /\ MaxOperations \in Nat
        BY NoneIsNone DEF IndexInv, Typed, MapsTyped
      <4>2. \A n \in Names, f \in Files :
              definitions[<<n, f>>] \in Nat /\ subtypes[<<n, f>>] \in Nat
        BY EntryTyped DEF IndexInv, Typed, MapsTyped
      <4>3. \A f \in Files : Pending(f) \in {0, 1}
        BY DEF Pending
      <4>4. \A n \in Names, f \in Files : /\ definitions[<<n, f>>] + Pending(f) <= started
                                          /\ subtypes[<<n, f>>] + Pending(f) <= started
        BY DEF IndexInv, MapsInv, Counted
      <4>5. ASSUME NEW count \in Nat, NEW pending \in {0, 1}, count + pending <= started
            PROVE  count \in 0..MaxOperations
        BY <4>1, <4>5
      <4>6. QED
        BY <4>2, <4>3, <4>4, <4>5
    <3>2. definitions \in Counts /\ subtypes \in Counts
      BY DEF IndexInv, Typed, MapsTyped
    <3>3. QED
      BY <3>1, <3>2 DEF Counts, Entries
  <2>2. /\ files \in [Files -> Maybe(SUBSET Names)]
        /\ content_hashes \in [Files -> Maybe(Texts)]
        /\ library_uris \subseteq Files
    BY NoneIsNone DEF IndexInv, Typed, FilesTyped
  <2>3. /\ definition_keys \subseteq Names
        /\ qualified \in [Names -> Maybe(Files)]
        /\ overlap \in {"None", "File", "Scan"}
        /\ started \in 0..MaxOperations
    BY DEF IndexInv, Typed, MapsTyped
  <2>4. /\ jobs \in [JobIds -> [at : JobSteps, file : Maybe(Files), text : Maybe(Texts),
                                ensure : BOOLEAN]]
        /\ task \in [at : TaskSteps, found : [Workspace -> Maybe(Texts)], todo : SUBSET Files]
    BY DEF IndexInv, Typed, JobsTyped, JobRecord, TaskTyped, TaskRecord
  <2>5. /\ {jar_names, noted} \subseteq SUBSET JarNames
        /\ {bare_names, importable} \subseteq SUBSET (Names \cup JarNames)
        /\ completion_epoch \in Nat
        /\ last_completion \in Maybe(SUBSET (Names \cup JarNames))
        /\ populate \in {"Idle", "Clear", "Bump", "Done"}
        /\ request \in [at : RequestSteps, bare : BOOLEAN, epoch : Nat,
                        result : SUBSET (Names \cup JarNames)]
        /\ rebuild \in [Rebuilders -> [at : RebuildSteps, map : SUBSET (Names \cup JarNames)]]
    BY DEF IndexInv, Typed, CachesTyped, RequestRecord, RebuildRecord, Known
  <2>6. dirty \in BOOLEAN
    BY Zenon DEF IndexInv, Typed, CachesTyped
  <2>7. QED
    BY <2>1, <2>2, <2>3, <2>4, <2>5, <2>6, Zenon DEF TypeOK
<1>2. QED
  BY <1>1, IndexInvHolds, PTL

(* At rest, and if no two writers of a file overlapped since the last      *)
(* reset_index_state, the maps hold exactly what the files declare: what   *)
(* remove_stale_for_uri takes by key, from the file data stored last, is   *)
(* what is there.                                                          *)
THEOREM IndexAgrees == Spec => []IndexIsExact
<1>1. IndexInv => IndexIsExact
  <2> SUFFICES ASSUME IndexInv, AtRest, overlap = "None", NEW f \in Files, NEW n \in Names
               PROVE  /\ definitions[<<n, f>>] > 0 <=> n \in NamesIn(f)
                      /\ subtypes[<<n, f>>] > 0 <=> n \in NamesIn(f)
                      /\ f \in Workspace => definitions[<<n, f>>] <= 1 /\ subtypes[<<n, f>>] <= 1
                      /\ qualified[n] = f => n \in NamesIn(f)
    BY PairEntry, Zenon DEF IndexIsExact
  <2>1. CASE f \in External
    BY <2>1, NoneIsNone DEF IndexInv, MapsInv, LibraryInv
  <2>2. CASE f \in Workspace
    <3>1. ~BeingWritten(f) /\ task.at # "ResetMaps"
      BY DEF AtRest, Active, BeingWritten, Writing
    <3>2. QED
      BY <2>2, <3>1 DEF IndexInv, MapsInv, ExactInv
  <2>3. QED
    BY <2>1, <2>2, NoneIsNone
<1>2. QED
  BY <1>1, IndexInvHolds, PTL

(* A content hash, on which a later index_content returns at once, is that *)
(* of the text the file data was computed from.                            *)
THEOREM HashAnswers == Spec => []HashAnswersForData
<1>1. IndexInv => HashAnswersForData
  BY DEF IndexInv, MapsInv, HashInv, HashIsOf, HashAnswersForData, AtRest,
     Active
<1>2. QED
  BY <1>1, IndexInvHolds, PTL

(* However index_content calls and deletions overlap, what a file declares *)
(* is found in the maps, unless they overlapped the scan's reset.          *)
THEOREM NothingLost == Spec => []NothingIsLost
<1>1. IndexInv => NothingIsLost
  <2> SUFFICES ASSUME IndexInv, AtRest, overlap # "Scan", NEW f \in Files, NEW n \in NamesIn(f)
               PROVE  definitions[<<n, f>>] > 0 /\ subtypes[<<n, f>>] > 0
    BY PairEntry, Zenon DEF NothingIsLost
  <2>1. n \in Names
    BY NamesInTyped DEF IndexInv, Typed
  <2>2. CASE f \in External
    BY <2>1, <2>2 DEF IndexInv, MapsInv, LibraryInv
  <2>3. CASE f \in Workspace
    BY <2>1, <2>3 DEF IndexInv, MapsInv, ReachInv, WillWrite, AtRest, Active
  <2>4. QED
    BY <2>2, <2>3, NoneIsNone
<1>2. QED
  BY <1>1, IndexInvHolds, PTL

(* rebuild_bare_name_cache takes the flag before it collects: while        *)
(* bare_names_dirty is down and no rebuild or bulk apply is under way, no  *)
(* name is missing from bare_name_cache, whoever rebuilt it.               *)
THEOREM NamesAreComplete == Spec => []BareNamesAreComplete
BY IndexInvHolds, PTL

(* store_in_cache keeps no list of members that was computed before a JAR  *)
(* was announced by note_jar_symbols_populated.                            *)
THEOREM ListsSeeJars == Spec => StoresSeeJars
<1>1. IndexInv /\ [Next]_vars =>
        [StoreInCache /\ ~request.bare /\ last_completion' # last_completion
           => noted \subseteq request.result]_vars
  BY DEF IndexInv, SeenInv, StoreInCache, SameEpoch
<1>2. QED
  BY <1>1, IndexInvHolds, PTL DEF Spec, StoresSeeJars

-----------------------------------------------------------------------------
(***************************************************************************)
(* Enrichment keeps its types and loses no symbol that its dedup map holds *)
(* back, for every set of symbols, of callers, and of bounds.              *)
(*                                                                         *)
(* EnrichmentTypeOK is not inductive: what a caller sends must be a request*)
(* with a symbol, and the count of the callers under way must be that of a *)
(* finite set.  PendingIsUnderway is, with the types.  UnshownIsDue is the *)
(* safety half of FoundIsShown: the worker never sleeps on a symbol that   *)
(* was found and not shown without its refresh flag set.                   *)
(***************************************************************************)

Submitting == {c \in Callers : caller[c].at # "No"}

(* The types of a state, and apart from them the count of what was sent.   *)
WorkTyped ==
  /\ root_generation \in 0..MaxResets /\ reset_due \in BOOLEAN
  /\ resolvable \subseteq Declared
  /\ seen \in [Symbols -> {"Absent", "Pending", "Miss"}]
  /\ requests \in Seq(EnrichRequest)
  /\ caller \in [Callers -> [at : {"No", "Insert", "Send"},
                             request : EnrichRequest \cup {NoRequest}]]
  /\ looking_up \in EnrichRequest \cup {NoRequest}
  /\ dirty_hints \in BOOLEAN
  /\ unshown \subseteq Declared
  /\ submits \in 0..MaxSubmits

CallersCounted == Len(requests) + Cardinality(Submitting) <= submits

(* A caller past its check holds a symbol of the server and a generation.  *)
CallerInv ==
  /\ IsFiniteSet(Submitting)
  /\ \A c \in Callers : caller[c].at # "No" => caller[c].request \in EnrichRequest

(* A symbol found and not yet shown has its refresh due.                   *)
UnshownIsDue == unshown # {} => dirty_hints

(* The inductive invariant.                                                *)
EnrichmentInv ==
  /\ WorkTyped
  /\ CallersCounted
  /\ CallerInv
  /\ PendingIsUnderway
  /\ UnshownIsDue

-----------------------------------------------------------------------------
(* NoRequest is not a request: its symbol is none.                         *)
LEMMA NoRequestIsNone ==
  /\ NoRequest \notin EnrichRequest
  /\ \A q \in EnrichRequest : q.symbol \in Symbols /\ q.generation \in 0..MaxResets
  /\ NoRequest.symbol \notin Symbols
  /\ \A s \in Symbols, g \in 0..MaxResets :
       [symbol |-> s, generation |-> g] \in EnrichRequest
BY EnrichmentAssumption DEF NoRequest, EnrichRequest

-----------------------------------------------------------------------------
(* The initial state satisfies the inductive invariant.                    *)
LEMMA EnrichmentInitInv == EnrichmentInit => EnrichmentInv
<1> SUFFICES ASSUME EnrichmentInit PROVE EnrichmentInv
  OBVIOUS
<1> USE EnrichmentAssumption
<1>1. WorkTyped
  <2>1. NotSubmitting \in [at : {"No", "Insert", "Send"},
                           request : EnrichRequest \cup {NoRequest}]
    BY DEF NotSubmitting
  <2>2. <<>> \in Seq(EnrichRequest)
    BY EmptySeq
  <2>3. 0 \in 0..MaxResets /\ 0 \in 0..MaxSubmits
    OBVIOUS
  <2>4. QED
    BY <2>1, <2>2, <2>3 DEF EnrichmentInit, WorkTyped
<1>2. Submitting = {}
  BY DEF EnrichmentInit, Submitting, NotSubmitting
<1>3. IsFiniteSet(Submitting) /\ Cardinality(Submitting) = 0
  BY <1>2, FS_EmptySet
<1>4. CallersCounted
  BY <1>3 DEF EnrichmentInit, CallersCounted
<1>5. CallerInv
  BY <1>3 DEF EnrichmentInit, CallerInv, NotSubmitting
<1>6. PendingIsUnderway /\ UnshownIsDue
  BY DEF EnrichmentInit, PendingIsUnderway, UnshownIsDue
<1>7. QED
  BY <1>1, <1>4, <1>5, <1>6 DEF EnrichmentInv

-----------------------------------------------------------------------------
(* EnrichmentHandle::submit.                                               *)

(* A caller that passes the check joins those under way and is counted.    *)
LEMMA SubmitKeeps ==
  ASSUME EnrichmentInv, NEW c \in Callers, NEW s \in Symbols,
         NEW cooled \in BOOLEAN, Submit(c, s, cooled)
  PROVE  EnrichmentInv'
<1> USE EnrichmentAssumption
<1>1. WorkTyped /\ CallersCounted /\ CallerInv
  BY DEF EnrichmentInv
<1>2. [symbol |-> s, generation |-> root_generation] \in EnrichRequest
  BY <1>1, NoRequestIsNone DEF WorkTyped
<1>3. /\ caller[c].at = "No" /\ submits < MaxSubmits
      /\ submits' = submits + 1
      /\ caller' = [caller EXCEPT ![c] = [at |-> "Insert", request |->
                      [symbol |-> s, generation |-> root_generation]]]
      /\ UNCHANGED <<root_generation, reset_due, resolvable, looking_up,
                     dirty_hints, unshown, seen, requests>>
  BY DEF Submit, outsideCallers
<1>4. WorkTyped'
  BY <1>1, <1>2, <1>3 DEF WorkTyped
<1>5. Submitting' = Submitting \cup {c} /\ c \notin Submitting
  BY <1>1, <1>3 DEF WorkTyped, Submitting
<1>6. /\ IsFiniteSet(Submitting')
      /\ Cardinality(Submitting') = Cardinality(Submitting) + 1
  BY <1>1, <1>5, FS_AddElement DEF CallerInv
<1>7. Cardinality(Submitting) \in Nat /\ Len(requests) \in Nat
  BY <1>1, FS_CardinalityType, LenProperties DEF CallerInv, WorkTyped
<1>8. CallersCounted'
  BY <1>1, <1>3, <1>6, <1>7 DEF CallersCounted, WorkTyped
<1>9. CallerInv'
  BY <1>1, <1>2, <1>3, <1>6 DEF CallerInv, WorkTyped
<1>10. PendingIsUnderway' /\ UnshownIsDue'
  <2>1. ASSUME NEW d \in Callers, caller[d].at = "Send"
        PROVE  caller'[d] = caller[d]
    BY <1>1, <1>3, <2>1 DEF WorkTyped
  <2>2. QED
    BY <1>3, <2>1 DEF EnrichmentInv, PendingIsUnderway, UnshownIsDue, InQueue
<1>11. QED
  BY <1>4, <1>8, <1>9, <1>10 DEF EnrichmentInv

(* The entry turns pending while its caller is about to send.              *)
LEMMA InsertKeeps ==
  ASSUME EnrichmentInv, NEW c \in Callers, Insert(c)
  PROVE  EnrichmentInv'
<1>1. WorkTyped /\ CallersCounted /\ CallerInv
  BY DEF EnrichmentInv
<1>2. /\ caller[c].at = "Insert"
      /\ seen' = [seen EXCEPT ![caller[c].request.symbol] = "Pending"]
      /\ caller' = [caller EXCEPT ![c].at = "Send"]
      /\ UNCHANGED <<root_generation, reset_due, resolvable, looking_up,
                     dirty_hints, unshown, requests, submits>>
  BY DEF Insert, outsideCallers
<1>3. /\ caller'[c].at = "Send" /\ caller'[c].request = caller[c].request
      /\ \A d \in Callers : d # c => caller'[d] = caller[d]
      /\ \A d \in Callers : caller'[d].request = caller[d].request
  BY <1>1, <1>2 DEF WorkTyped
<1>4. WorkTyped'
  BY <1>1, <1>2 DEF WorkTyped
<1>5. Submitting' = Submitting
  BY <1>2, <1>3 DEF Submitting
<1>6. CallersCounted' /\ CallerInv'
  BY <1>1, <1>2, <1>3, <1>5 DEF CallersCounted, CallerInv
<1>7. PendingIsUnderway'
  <2> SUFFICES ASSUME NEW s \in Symbols, seen'[s] = "Pending"
               PROVE  \/ InQueue(s)'
                      \/ looking_up'.symbol = s
                      \/ \E d \in Callers : /\ caller'[d].at = "Send"
                                            /\ caller'[d].request.symbol = s
    BY DEF PendingIsUnderway
  <2>1. CASE s = caller[c].request.symbol
    BY <1>3, <2>1
  <2>2. CASE s # caller[c].request.symbol
    <3>1. seen[s] = "Pending"
      BY <1>1, <1>2, <2>2 DEF WorkTyped
    <3>2. QED
      BY <1>2, <1>3, <3>1 DEF EnrichmentInv, PendingIsUnderway, InQueue
  <2>3. QED
    BY <2>1, <2>2
<1>8. UnshownIsDue'
  BY <1>2 DEF EnrichmentInv, UnshownIsDue
<1>9. QED
  BY <1>4, <1>6, <1>7, <1>8 DEF EnrichmentInv

(* What a caller sends goes from its hands into the channel.               *)
LEMMA SendKeeps ==
  ASSUME EnrichmentInv, NEW c \in Callers, Send(c)
  PROVE  EnrichmentInv'
<1> DEFINE req == caller[c].request
<1>1. WorkTyped /\ CallersCounted /\ CallerInv
  BY DEF EnrichmentInv
<1>2. /\ caller[c].at = "Send"
      /\ requests' = Append(requests, req)
      /\ caller' = [caller EXCEPT ![c] = NotSubmitting]
      /\ UNCHANGED <<root_generation, reset_due, resolvable, looking_up,
                     dirty_hints, unshown, seen, submits>>
  BY DEF Send, outsideCallers
<1>3. req \in EnrichRequest
  BY <1>1, <1>2 DEF CallerInv
<1>4. /\ requests' \in Seq(EnrichRequest)
      /\ Len(requests') = Len(requests) + 1
      /\ DOMAIN requests = 1..Len(requests)
      /\ DOMAIN requests' = 1..(Len(requests) + 1)
      /\ Len(requests) \in Nat
      /\ \A i \in 1..Len(requests) : requests'[i] = requests[i]
      /\ requests'[Len(requests) + 1] = req
  BY <1>1, <1>2, <1>3, AppendProperties, LenProperties DEF WorkTyped
<1>5. WorkTyped'
  <2>1. NotSubmitting \in [at : {"No", "Insert", "Send"},
                           request : EnrichRequest \cup {NoRequest}]
    BY DEF NotSubmitting
  <2>2. QED
    BY <1>1, <1>2, <1>4, <2>1 DEF WorkTyped
<1>6. Submitting' = Submitting \ {c} /\ c \in Submitting
  BY <1>1, <1>2 DEF WorkTyped, Submitting, NotSubmitting
<1>7. /\ IsFiniteSet(Submitting')
      /\ Cardinality(Submitting') = Cardinality(Submitting) - 1
      /\ Cardinality(Submitting) \in Nat
  BY <1>1, <1>6, FS_RemoveElement, FS_CardinalityType DEF CallerInv
<1>8. CallersCounted'
  BY <1>1, <1>2, <1>4, <1>7 DEF CallersCounted, WorkTyped
<1>9. /\ \A d \in Callers : d # c => caller'[d] = caller[d]
      /\ caller'[c].at = "No"
  BY <1>1, <1>2 DEF WorkTyped, NotSubmitting
<1>10. CallerInv'
  BY <1>1, <1>7, <1>9 DEF CallerInv
<1>11. PendingIsUnderway'
  <2> SUFFICES ASSUME NEW s \in Symbols, seen[s] = "Pending"
               PROVE  \/ InQueue(s)'
                      \/ looking_up'.symbol = s
                      \/ \E d \in Callers : /\ caller'[d].at = "Send"
                                            /\ caller'[d].request.symbol = s
    BY <1>2 DEF PendingIsUnderway
  <2>1. InQueue(s) => InQueue(s)'
    BY <1>4 DEF InQueue
  <2>2. req.symbol = s => InQueue(s)'
    BY <1>4 DEF InQueue
  <2>3. QED
    BY <1>2, <1>9, <2>1, <2>2 DEF EnrichmentInv, PendingIsUnderway
<1>12. UnshownIsDue'
  BY <1>2 DEF EnrichmentInv, UnshownIsDue
<1>13. QED
  BY <1>5, <1>8, <1>10, <1>11, <1>12 DEF EnrichmentInv

-----------------------------------------------------------------------------
(* The worker.                                                             *)

(* A request leaves the channel into the worker's hands, or its entry goes *)
(* with it.                                                                *)
LEMMA ReceiveKeeps ==
  ASSUME EnrichmentInv, Receive
  PROVE  EnrichmentInv'
<1> DEFINE head == Head(requests)
<1>1. WorkTyped /\ CallersCounted /\ CallerInv
  BY DEF EnrichmentInv
<1>2. /\ looking_up = NoRequest /\ requests # <<>>
      /\ requests' = Tail(requests)
      /\ \/ /\ seen' = [seen EXCEPT ![head.symbol] = "Absent"]
            /\ UNCHANGED looking_up
         \/ looking_up' = head /\ UNCHANGED seen
      /\ UNCHANGED <<root_generation, reset_due, caller, submits, resolvable,
                     dirty_hints, unshown>>
  BY DEF Receive, DropStale, outsideWorker
<1>3. /\ head \in EnrichRequest
      /\ requests' \in Seq(EnrichRequest)
      /\ Len(requests) \in Nat
      /\ Len(requests') = Len(requests) - 1
  BY <1>1, <1>2, HeadTailProperties, LenProperties DEF WorkTyped
<1>4. /\ DOMAIN requests = 1..Len(requests)
      /\ DOMAIN requests' = 1..(Len(requests) - 1)
      /\ \A i \in 1..(Len(requests) - 1) : requests'[i] = requests[i + 1]
      /\ head = requests[1]
  BY <1>1, <1>2, <1>3, HeadTailProperties, LenProperties DEF WorkTyped
<1>5. WorkTyped'
  BY <1>1, <1>2, <1>3, NoRequestIsNone DEF WorkTyped
<1>6. Submitting' = Submitting
  BY <1>2 DEF Submitting
<1>7. Cardinality(Submitting) \in Nat
  BY <1>1, FS_CardinalityType DEF CallerInv
<1>8. CallersCounted' /\ CallerInv'
  BY <1>1, <1>2, <1>3, <1>6, <1>7 DEF CallersCounted, CallerInv, WorkTyped
<1>9. ASSUME NEW s \in Symbols, InQueue(s), s # head.symbol
      PROVE  InQueue(s)'
  <2>1. PICK i \in 1..Len(requests) : requests[i].symbol = s
    BY <1>4, <1>9 DEF InQueue
  <2>2. i # 1 /\ i - 1 \in 1..(Len(requests) - 1)
    BY <1>3, <1>4, <1>9, <2>1
  <2>3. requests'[i - 1].symbol = s
    BY <1>4, <2>1, <2>2
  <2>4. QED
    BY <1>4, <2>2, <2>3 DEF InQueue
<1>10. PendingIsUnderway'
  <2> SUFFICES ASSUME NEW s \in Symbols, seen'[s] = "Pending"
               PROVE  \/ InQueue(s)'
                      \/ looking_up'.symbol = s
                      \/ \E d \in Callers : /\ caller'[d].at = "Send"
                                            /\ caller'[d].request.symbol = s
    BY DEF PendingIsUnderway
  <2>1. seen[s] = "Pending"
    BY <1>1, <1>2 DEF WorkTyped
  <2>2. s = head.symbol => looking_up' = head
    BY <1>1, <1>2 DEF WorkTyped
  <2>3. looking_up.symbol # s
    BY <1>2, NoRequestIsNone
  <2>4. QED
    BY <1>2, <1>9, <2>1, <2>2, <2>3 DEF EnrichmentInv, PendingIsUnderway
<1>11. UnshownIsDue'
  BY <1>2 DEF EnrichmentInv, UnshownIsDue
<1>12. QED
  BY <1>5, <1>8, <1>10, <1>11 DEF EnrichmentInv

(* A lookup that ends takes its own entry out of pending and no other.     *)
LEMMA LookupKeeps ==
  ASSUME EnrichmentInv, Finds \/ Misses
  PROVE  EnrichmentInv'
<1> DEFINE s == looking_up.symbol
<1> USE EnrichmentAssumption
<1>1. WorkTyped /\ CallersCounted /\ CallerInv
  BY DEF EnrichmentInv
<1>2. /\ s \in Symbols
      /\ \E e \in {"Absent", "Miss"} : seen' = [seen EXCEPT ![s] = e]
      /\ looking_up' = NoRequest
      /\ UNCHANGED <<root_generation, reset_due, caller, submits, requests>>
  BY <1>1, NoRequestIsNone
  DEF Finds, Misses, Found, WorkTyped, outsideWorker, NoRequest
<1>3. /\ resolvable' \subseteq Declared /\ unshown' \subseteq Declared
      /\ dirty_hints' \in BOOLEAN
      /\ UnshownIsDue'
  <2>1. CASE Finds
    BY <1>1, <2>1 DEF Finds, Found, WorkTyped, UnshownIsDue
  <2>2. CASE Misses
    BY <1>1, <2>2 DEF Misses, DirtyAfterMiss, WorkTyped, UnshownIsDue, EnrichmentInv
  <2>3. QED
    BY <2>1, <2>2
<1>4. WorkTyped'
  BY <1>1, <1>2, <1>3 DEF WorkTyped
<1>5. CallersCounted' /\ CallerInv'
  BY <1>1, <1>2 DEF CallersCounted, CallerInv, Submitting
<1>6. PendingIsUnderway'
  <2> SUFFICES ASSUME NEW t \in Symbols, seen'[t] = "Pending"
               PROVE  \/ InQueue(t)'
                      \/ \E d \in Callers : /\ caller'[d].at = "Send"
                                            /\ caller'[d].request.symbol = t
    BY DEF PendingIsUnderway
  <2>1. t # s /\ seen[t] = "Pending"
    BY <1>1, <1>2 DEF WorkTyped
  <2>2. QED
    BY <1>2, <2>1 DEF EnrichmentInv, PendingIsUnderway, InQueue
<1>7. QED
  BY <1>3, <1>4, <1>5, <1>6 DEF EnrichmentInv

-----------------------------------------------------------------------------
(* The editor's refresh, the generations and the scans.  A reset may clear *)
(* entries whose requests are still on their way; it makes none pending.   *)
LEMMA OtherStepsKeep ==
  ASSUME EnrichmentInv,
         \/ Refresh \/ NewGeneration \/ ResetIndex
         \/ \E s \in Declared : ScanIndexes(s)
         \/ UNCHANGED enrichVars
  PROVE  EnrichmentInv'
<1> USE EnrichmentAssumption
<1>1. WorkTyped /\ CallersCounted /\ CallerInv
  BY DEF EnrichmentInv
<1>2. /\ UNCHANGED <<requests, caller, looking_up, submits>>
      /\ seen' = seen \/ seen' = [s \in Symbols |-> "Absent"]
  BY DEF Refresh, NewGeneration, ResetIndex, ScanIndexes, enrichVars,
         outsideWorker, outsideScan
<1>3. UnshownIsDue'
  BY DEF Refresh, NewGeneration, ResetIndex, ScanIndexes, enrichVars,
         outsideWorker, outsideScan, EnrichmentInv, UnshownIsDue
<1>4. /\ root_generation' \in 0..MaxResets
      /\ resolvable' \subseteq Declared
      /\ unshown' \subseteq Declared
  BY <1>1 DEF Refresh, NewGeneration, ResetIndex, ScanIndexes, enrichVars,
         outsideWorker, outsideScan, WorkTyped
<1>5. reset_due' \in BOOLEAN /\ dirty_hints' \in BOOLEAN
  BY <1>1 DEF Refresh, NewGeneration, ResetIndex, ScanIndexes, enrichVars,
         outsideWorker, outsideScan, WorkTyped
<1>6. seen' \in [Symbols -> {"Absent", "Pending", "Miss"}]
  BY <1>1, <1>2 DEF WorkTyped
<1>7. WorkTyped'
  BY <1>1, <1>2, <1>4, <1>5, <1>6 DEF WorkTyped
<1>8. CallersCounted' /\ CallerInv'
  BY <1>1, <1>2 DEF CallersCounted, CallerInv, Submitting
<1>9. PendingIsUnderway'
  BY <1>2 DEF EnrichmentInv, PendingIsUnderway, InQueue
<1>10. QED
  BY <1>3, <1>7, <1>8, <1>9 DEF EnrichmentInv

-----------------------------------------------------------------------------
(* Every step keeps the inductive invariant.                               *)
LEMMA EnrichmentNextInv ==
  EnrichmentInv /\ [EnrichmentNext]_enrichVars => EnrichmentInv'
<1> SUFFICES ASSUME EnrichmentInv, [EnrichmentNext]_enrichVars
             PROVE  EnrichmentInv'
  OBVIOUS
<1>1. CASE \E c \in Callers, s \in Symbols, cooled \in BOOLEAN : Submit(c, s, cooled)
  BY <1>1, SubmitKeeps
<1>2. CASE Calling
  BY <1>2, InsertKeeps, SendKeeps DEF Calling
<1>3. CASE Worker
  BY <1>3, ReceiveKeeps, LookupKeeps, OtherStepsKeep DEF Worker
<1>4. CASE NewGeneration \/ ResetIndex \/ \E s \in Declared : ScanIndexes(s)
  BY <1>4, OtherStepsKeep
<1>5. CASE UNCHANGED enrichVars
  BY <1>5, OtherStepsKeep
<1>6. QED
  BY <1>1, <1>2, <1>3, <1>4, <1>5 DEF EnrichmentNext

-----------------------------------------------------------------------------
(* Type correctness, and the count of EnrichmentTypeOK: what is in the     *)
(* channel and in the callers' hands was accepted by submit, once each     *)
(* (enrich.rs, EnrichmentHandle::submit).                                  *)
THEOREM EnrichmentTypeCorrect == EnrichmentSpec => []EnrichmentTypeOK
<1>1. EnrichmentInv => EnrichmentTypeOK
  BY DEF EnrichmentInv, WorkTyped, CallersCounted, Submitting, EnrichmentTypeOK
<1>2. QED
  BY <1>1, EnrichmentInitInv, EnrichmentNextInv, PTL DEF EnrichmentSpec

(* An entry that says pending has its request in the channel, in the       *)
(* worker's hands or in those of a caller about to send it, whatever       *)
(* resets, retries and stale requests come between: no symbol is refused   *)
(* for ever (enrich.rs, the dedup map of EnrichmentHandle::submit and the  *)
(* worker's early exit for a stale generation).                            *)
THEOREM PendingStaysUnderway == EnrichmentSpec => []PendingIsUnderway
<1>1. EnrichmentInv => PendingIsUnderway
  BY DEF EnrichmentInv
<1>2. QED
  BY <1>1, EnrichmentInitInv, EnrichmentNextInv, PTL DEF EnrichmentSpec

(* While a symbol found for the editor's hints was not shown, the worker's *)
(* dirty_hints stands, through misses and stale requests: what the refresh *)
(* of FoundIsShown needs to be due at all (enrich.rs, the worker's select).*)
THEOREM UnshownStaysDue == EnrichmentSpec => []UnshownIsDue
<1>1. EnrichmentInv => UnshownIsDue
  BY DEF EnrichmentInv
<1>2. QED
  BY <1>1, EnrichmentInitInv, EnrichmentNextInv, PTL DEF EnrichmentSpec

=============================================================================
