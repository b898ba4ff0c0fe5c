----------------------------- MODULE IndexMaps -----------------------------
(* The maps of the Indexer that are derived from file data, and the caches *)
(* derived from the maps: indexer/apply.rs, Indexer::reset_index_state,    *)
(* and the completion cache of features/completion.rs.  Their writers run  *)
(* beside each other: index_content jobs (edits, openings, enrichment,     *)
(* ensure_indexed), the scan task (apply_workspace_result, then            *)
(* index_source_paths), JAR population, and completion requests, which     *)
(* rebuild the name caches lazily.                                         *)
(*                                                                         *)
(* A text is known by the names it declares; all files share a package, so *)
(* a name stands for its FQN.  definitions stands for the maps a file's    *)
(* old entries are removed from by key (definitions, packages), subtypes   *)
(* for those that are swept (subtypes, extension_by_receiver).  A count is *)
(* the number of entries in the map's vector.                              *)
EXTENDS Naturals, FiniteSets

CONSTANTS
  Files,         \* files the index may hold
  External,      \* those outside the workspace root, under sourcePaths
  Texts,         \* contents a file may have
  Names,         \* names of symbols
  Declares,      \* the names each text declares
  SourceText,    \* the text of each file under sourcePaths
  Hidden,        \* names declared private or internal
  JarNames,      \* names that JAR population adds
  None,
  Permits,       \* index_content calls that run at once
  Operations,    \* the kinds of operation that may be started
  MaxOperations  \* bound on their number

ASSUME IndexMapsAssumption ==
  /\ External \subseteq Files
  /\ Declares \in [Texts -> SUBSET Names]
  /\ SourceText \in [External -> Texts]
  /\ Hidden \subseteq Names
  /\ JarNames \cap Names = {}
  /\ None \notin Files \cup Texts \cup Names
  /\ \A S \in SUBSET (Names \cup JarNames) : S # None
  /\ {Permits, MaxOperations} \subseteq Nat

VARIABLES
  files, content_hashes,            \* of each file: names in FileData, text hashed
  definitions, definition_keys,     \* entries of a name in a file; keys, if emptied too
  subtypes, qualified,              \* entries; the one file of an FQN
  library_uris,
  jar_names,                        \* names of jar_definitions and jar_bare_names
  bare_names, importable, dirty,    \* bare_name_cache, importable_fqns, bare_names_dirty
  completion_epoch, last_completion,
  jobs,                             \* the index_content calls, one by one
  task,                             \* the scan task
  populate,                         \* where the thread that populates JARs is
  request,                          \* the completion request
  rebuild,                          \* rebuild_bare_name_cache, by caller
  noted,                            \* JAR names whose population was announced
  overlap,                          \* which writers overlapped since the last reset
  started                           \* operations started so far

fileVars  == <<files, content_hashes, library_uris>>
mapVars   == <<definitions, definition_keys, subtypes, qualified>>
nameVars  == <<bare_names, importable>>
lastVars  == <<completion_epoch, last_completion>>
jarVars   == <<jar_names, populate, noted>>
vars == <<fileVars, mapVars, nameVars, dirty, lastVars, jarVars, jobs, task,
          request, rebuild, overlap, started>>

Workspace == Files \ External
JobIds    == 1..MaxOperations
Rebuilders == {"Task", "Request"}
Entries   == [Names \X Files -> 0..MaxOperations]
Maybe(S)  == {None} \cup S

JobSteps  == {"None", "Invalidate", "Bump", "RemoveStale", "StoreHash",
              "StoreFile", "StoreMaps", "SetDirty", "Done"}
Resetting == {"ResetMaps", "ResetRest", "ResetBump"}
Applying  == Resetting \cup {"Fresh"}
Scanning  == Applying \cup {"Rebuild"}     \* indexing_in_progress is set
TaskSteps == Scanning \cup {"Idle", "Paths", "RestoreDirty", "PathsRebuild"}
RequestSteps == {"Idle", "Lookup", "Fresh", "Compute", "Store"}
RebuildSteps == {"No", "Names", "Collect", "Publish", "Last"}

Active(j) == jobs[j].at \notin {"None", "Done"}

TypeOK ==
  /\ files \in [Files -> Maybe(SUBSET Names)]
  /\ content_hashes \in [Files -> Maybe(Texts)]
  /\ definitions \in Entries /\ subtypes \in Entries
  /\ definition_keys \subseteq Names
  /\ qualified \in [Names -> Maybe(Files)]
  /\ library_uris \subseteq Files
  /\ {jar_names, noted} \subseteq SUBSET JarNames
  /\ {bare_names, importable} \subseteq SUBSET (Names \cup JarNames)
  /\ dirty \in BOOLEAN
  /\ overlap \in {"None", "File", "Scan"}
  /\ started \in 0..MaxOperations
  /\ completion_epoch \in Nat
  /\ last_completion \in Maybe(SUBSET (Names \cup JarNames))
  /\ jobs \in [JobIds -> [at : JobSteps, file : Maybe(Files), text : Maybe(Texts),
                          ensure : BOOLEAN]]
  /\ task \in [at : TaskSteps,
               found : [Workspace -> Maybe(Texts)], todo : SUBSET Files]
  /\ populate \in {"Idle", "Clear", "Bump", "Done"}
  /\ request \in [at : RequestSteps, bare : BOOLEAN, epoch : Nat,
                  result : SUBSET (Names \cup JarNames)]
  /\ rebuild \in [Rebuilders -> [at : RebuildSteps, map : SUBSET (Names \cup JarNames)]]

Init ==
  /\ files = [f \in Files |-> None]
  /\ content_hashes = [f \in Files |-> None]
  /\ definitions = [e \in Names \X Files |-> 0]
  /\ subtypes = definitions
  /\ definition_keys = {}
  /\ qualified = [n \in Names |-> None]
  /\ library_uris = {}
  /\ jar_names = {} /\ noted = {}
  /\ bare_names = {} /\ importable = {}
  /\ dirty = FALSE
  /\ completion_epoch = 0
  /\ last_completion = None
  /\ jobs = [j \in JobIds |-> [at |-> "None", file |-> None, text |-> None,
                               ensure |-> FALSE]]
  /\ task = [at |-> "Idle", found |-> [f \in Workspace |-> None], todo |-> {}]
  /\ populate = "Idle"
  /\ request = [at |-> "Idle", bare |-> FALSE, epoch |-> 0, result |-> {}]
  /\ rebuild = [p \in Rebuilders |-> [at |-> "No", map |-> {}]]
  /\ overlap = "None"
  /\ started = 0

----------------------------------------------------------------------------
(* What a file contributes, and what is removed before it does again.      *)

NamesIn(f) == IF files[f] = None THEN {} ELSE files[f]

EntriesOf(f, names) == names \X {f}

(* apply_contributions: each entry once.                                   *)
(* Mutant: each name once.                                                 *)
InsertedByName(map, new) ==
  [e \in DOMAIN map |->
     IF e \in new /\ \A f \in Files : map[e[1], f] = 0 THEN 1 ELSE map[e]]
Inserted(map, new) == [e \in DOMAIN map |-> IF e \in new /\ map[e] = 0 THEN 1 ELSE map[e]]

(* apply_contributions_fresh and LibraryBatch::flush_into: extend.         *)
Extended(map, new) == [e \in DOMAIN map |-> IF e \in new THEN map[e] + 1 ELSE map[e]]

(* remove_stale_for_uri: by the keys of the old file data ...              *)
(* Mutant: by those of the new.                                            *)
StaleNamesOfNew(j) == Declares[jobs[j].text]
StaleNames(j) == NamesIn(jobs[j].file)
RemovedByKey(map, old) == [e \in DOMAIN map |-> IF e \in old THEN 0 ELSE map[e]]
(* ... or whatever the key.                                                *)
Swept(map, f) == [e \in DOMAIN map |-> IF e[2] = f THEN 0 ELSE map[e]]

(* Keep what library_uris lists.                                           *)
Retained(map) == [e \in DOMAIN map |-> IF e[2] \in library_uris THEN map[e] ELSE 0]

Qualified(f, names) == [n \in Names |-> IF n \in names THEN f ELSE qualified[n]]

----------------------------------------------------------------------------
(* Operations are started from outside.                                    *)
Starts(kind) ==
  /\ kind \in Operations
  /\ started < MaxOperations
  /\ started' = started + 1

----------------------------------------------------------------------------
(* index_content.                                                          *)

Step(j, from, to) ==
  /\ jobs[j].at = from
  /\ jobs' = [jobs EXCEPT ![j].at = to]

Joined == IF overlap = "None" THEN "File" ELSE overlap

(* The content hash is tested before anything else.  Jobs overlap when two *)
(* are about one file or when the scan task resets or fills the maps.      *)
StartJob(j, f, t, ensure) ==
  /\ jobs[j].at = "None"
  /\ \A i \in 1..(j - 1) : jobs[i].at # "None"
  /\ Cardinality({i \in JobIds : Active(i)}) < Permits
  /\ jobs' = [jobs EXCEPT ![j] =
       [at |-> IF content_hashes[f] = t THEN "Done" ELSE "Invalidate",
        file |-> f, text |-> t, ensure |-> ensure]]
  /\ overlap' = IF task.at \in Applying THEN "Scan"
                ELSE IF \E i \in JobIds : Active(i) /\ jobs[i].file = f THEN Joined
                ELSE overlap
  /\ UNCHANGED <<fileVars, mapVars, nameVars, dirty, lastVars, jarVars, task,
                 request, rebuild>>

(* An edit, an opening, a save: library sources are not edited.            *)
IndexContent(j) ==
  /\ Starts("Index")
  /\ \E f \in Workspace, t \in Texts : StartJob(j, f, t, FALSE)

(* ensure_indexed, on the completion path: a file of the workspace that is *)
(* not indexed is read from disk, unless a scan is under way.              *)
EnsureIndexed(j) ==
  /\ Starts("Ensure")
  /\ \E f \in Workspace, t \in Texts :
       /\ task.at \notin Scanning
       /\ files[f] = None
       /\ StartJob(j, f, t, TRUE)

(* invalidate_completion_cache: the cached list is dropped ...             *)
JobInvalidates(j) ==
  /\ Step(j, "Invalidate", "Bump")
  /\ last_completion' = None
  /\ UNCHANGED <<fileVars, mapVars, nameVars, dirty, completion_epoch, jarVars, task,
                 request, rebuild, overlap>>

(* ... and then the epoch is advanced.                                     *)
JobBumps(j) ==
  /\ Step(j, "Bump", "RemoveStale")
  /\ completion_epoch' = completion_epoch + 1
  /\ UNCHANGED <<fileVars, mapVars, nameVars, dirty, last_completion, jarVars, task,
                 request, rebuild, overlap>>

(* apply_file_result: remove_stale_for_uri (nothing for a file that is not *)
(* indexed), then apply_contributions.                                     *)
RemoveStale(j) ==
  LET f     == jobs[j].file
      stale == StaleNames(j)
  IN  /\ Step(j, "RemoveStale", "StoreHash")
      /\ IF files[f] = None
           THEN UNCHANGED <<definitions, subtypes, qualified>>
           ELSE /\ definitions' = RemovedByKey(definitions, EntriesOf(f, stale))
                /\ subtypes' = Swept(subtypes, f)
                /\ qualified' = [n \in Names |->
                                   IF n \in stale THEN None ELSE qualified[n]]
      /\ UNCHANGED <<fileVars, definition_keys, nameVars, dirty, lastVars, jarVars,
                     task, request, rebuild, overlap>>

StoreHash(j) ==
  /\ Step(j, "StoreHash", "StoreFile")
  /\ content_hashes' = [content_hashes EXCEPT ![jobs[j].file] = jobs[j].text]
  /\ UNCHANGED <<files, library_uris, mapVars, nameVars, dirty, lastVars, jarVars,
                 task, request, rebuild, overlap>>

StoreFile(j) ==
  /\ Step(j, "StoreFile", "StoreMaps")
  /\ files' = [files EXCEPT ![jobs[j].file] = Declares[jobs[j].text]]
  /\ UNCHANGED <<content_hashes, library_uris, mapVars, nameVars, dirty, lastVars,
                 jarVars, task, request, rebuild, overlap>>

StoreMaps(j) ==
  LET f     == jobs[j].file
      names == Declares[jobs[j].text]
  IN  /\ Step(j, "StoreMaps", "SetDirty")
      /\ definitions' = Inserted(definitions, EntriesOf(f, names))
      /\ definition_keys' = definition_keys \cup names
      /\ subtypes' = Inserted(subtypes, EntriesOf(f, names))
      /\ qualified' = Qualified(f, names)
      /\ UNCHANGED <<fileVars, nameVars, dirty, lastVars, jarVars, task, request,
                     rebuild, overlap>>

(* The names are dirty once the maps have them.                            *)
SetDirty(j) ==
  /\ Step(j, "SetDirty", "Done")
  /\ dirty' = TRUE
  /\ UNCHANGED <<fileVars, mapVars, nameVars, lastVars, jarVars, task, request,
                 rebuild, overlap>>

Job(j) ==
  \/ JobInvalidates(j)
  \/ JobBumps(j)
  \/ RemoveStale(j)
  \/ StoreHash(j)
  \/ StoreFile(j)
  \/ StoreMaps(j)
  \/ SetDirty(j)

(* handle_file_deleted: remove_indexed_file drops the file data only.      *)
DeleteFile(f) ==
  /\ Starts("Delete")
  /\ files[f] # None
  /\ files' = [files EXCEPT ![f] = None]
  /\ overlap' = Joined
  /\ UNCHANGED <<content_hashes, library_uris, mapVars, nameVars, dirty, lastVars,
                 jarVars, jobs, task, request, rebuild>>

----------------------------------------------------------------------------
(* The scan task.                                                          *)

TaskStep(from, to) ==
  /\ task.at = from
  /\ task' = [task EXCEPT !.at = to]

(* apply_workspace_result, with the files parsed, as they were read.       *)
(* reset_index_state keeps the library: in the file data first, ...        *)
ResetFiles ==
  /\ Starts("Scan")
  /\ task.at = "Idle"
  /\ \E found \in [Workspace -> Maybe(Texts)] :
       task' = [at |-> "ResetMaps", found |-> found, todo |-> {f \in Workspace : found[f] # None}]
  /\ files' = [f \in Files |-> IF f \in library_uris THEN files[f] ELSE None]
  /\ overlap' = IF \E j \in JobIds : Active(j) THEN "Scan" ELSE "None"
  /\ UNCHANGED <<content_hashes, library_uris, mapVars, nameVars, dirty, lastVars,
                 jarVars, jobs, request, rebuild>>

(* ... then in the maps, whose empty entries go, ...                       *)
ResetMaps ==
  /\ TaskStep("ResetMaps", "ResetRest")
  /\ definitions' = Retained(definitions)
  /\ definition_keys' = {n \in Names : \E f \in Files : definitions'[n, f] > 0}
  /\ subtypes' = Retained(subtypes)
  /\ qualified' = [n \in Names |->
                     IF qualified[n] \in library_uris THEN qualified[n] ELSE None]
  /\ UNCHANGED <<fileVars, nameVars, dirty, lastVars, jarVars, jobs, request, rebuild,
                 overlap>>

(* ... in the hashes and in library_uris itself; the caches are cleared,   *)
(* Mutant: the hashes stay.                                                *)
ResetRestKeepsHashes ==
  /\ TaskStep("ResetRest", "ResetBump")
  /\ library_uris' = {f \in library_uris : files[f] # None}
  /\ bare_names' = {} /\ importable' = {}
  /\ last_completion' = None
  /\ UNCHANGED <<files, content_hashes, mapVars, dirty, completion_epoch, jarVars, jobs,
                 request, rebuild, overlap>>
ResetRest ==
  /\ TaskStep("ResetRest", "ResetBump")
  /\ content_hashes' = [f \in Files |->
                          IF f \in library_uris THEN content_hashes[f] ELSE None]
  /\ library_uris' = {f \in library_uris : files[f] # None}
  /\ bare_names' = {} /\ importable' = {}
  /\ last_completion' = None
  /\ UNCHANGED <<files, mapVars, dirty, completion_epoch, jarVars, jobs, request,
                 rebuild, overlap>>

(* the epoch is advanced, and the names are dirty.                         *)
ResetBump ==
  /\ TaskStep("ResetBump", "Fresh")
  /\ completion_epoch' = completion_epoch + 1
  /\ dirty' = TRUE
  /\ UNCHANGED <<fileVars, mapVars, nameVars, last_completion, jarVars, jobs, request,
                 rebuild, overlap>>

(* apply_contributions_fresh, file by file; it leaves the names as they    *)
(* are.                                                                    *)
ApplyFresh(f) ==
  LET names == Declares[task.found[f]]
  IN  /\ task.at = "Fresh" /\ f \in task.todo
      /\ task' = [task EXCEPT !.todo = @ \ {f}]
      /\ content_hashes' = [content_hashes EXCEPT ![f] = task.found[f]]
      /\ files' = [files EXCEPT ![f] = names]
      /\ definitions' = Extended(definitions, EntriesOf(f, names))
      /\ definition_keys' = definition_keys \cup names
      /\ subtypes' = Extended(subtypes, EntriesOf(f, names))
      /\ qualified' = Qualified(f, names)
      /\ UNCHANGED <<library_uris, nameVars, dirty, lastVars, jarVars, jobs, request,
                     rebuild, overlap>>

(* The names are dirty again: a completion request may have rebuilt them   *)
(* from the maps half filled.                                              *)
(* Mutant: they are not marked again.                                      *)
MarkDirtyNever ==
  /\ task.todo = {}
  /\ TaskStep("Fresh", "Rebuild")
  /\ UNCHANGED <<fileVars, mapVars, nameVars, dirty, lastVars, jarVars, jobs, request,
                 rebuild, overlap>>
MarkDirty ==
  /\ task.todo = {}
  /\ TaskStep("Fresh", "Rebuild")
  /\ dirty' = TRUE
  /\ UNCHANGED <<fileVars, mapVars, nameVars, lastVars, jarVars, jobs, request,
                 rebuild, overlap>>

(* index_source_paths.  Private symbols of the library are not indexed:    *)
(* strip_library_private_symbols, or the cache that was saved stripped.    *)
LibraryNames(f) == Declares[SourceText[f]] \ Hidden
LibraryEntries == UNION {EntriesOf(f, LibraryNames(f)) : f \in External}
AddLibrary ==
  /\ content_hashes' = [f \in Files |->
                          IF f \in External THEN SourceText[f] ELSE content_hashes[f]]
  /\ files' = [f \in Files |-> IF f \in External THEN LibraryNames(f) ELSE files[f]]
  /\ definition_keys' = definition_keys \cup {e[1] : e \in LibraryEntries}
  /\ qualified' \in {q \in [Names -> Maybe(Files)] :
                       \A n \in Names : \/ <<n, q[n]>> \in LibraryEntries
                                        \/ /\ q[n] = qualified[n]
                                           /\ \A f \in External :
                                                <<n, f>> \notin LibraryEntries}
  /\ library_uris' = library_uris \cup External

(* Fast path, from the library cache: restore_library_chunk extends, ...   *)
RestoreLibrary ==
  /\ External # {}
  /\ TaskStep("Paths", "RestoreDirty")
  /\ AddLibrary
  /\ definitions' = Extended(definitions, LibraryEntries)
  /\ subtypes' = Extended(subtypes, LibraryEntries)
  /\ UNCHANGED <<nameVars, dirty, lastVars, jarVars, jobs, request, rebuild, overlap>>

(* ... and the names are dirty when all is restored.                       *)
RestoreDirty ==
  /\ TaskStep("RestoreDirty", "PathsRebuild")
  /\ dirty' = TRUE
  /\ UNCHANGED <<fileVars, mapVars, nameVars, lastVars, jarVars, jobs, request,
                 rebuild, overlap>>

(* Slow path: apply_source_path_scan inserts each entry once.              *)
ApplySourcePathScan ==
  /\ External # {}
  /\ TaskStep("Paths", "PathsRebuild")
  /\ AddLibrary
  /\ definitions' = Inserted(definitions, LibraryEntries)
  /\ subtypes' = Inserted(subtypes, LibraryEntries)
  /\ dirty' = TRUE
  /\ UNCHANGED <<nameVars, lastVars, jarVars, jobs, request, rebuild, overlap>>

NoSourcePaths ==
  /\ External = {}
  /\ TaskStep("Paths", "Idle")
  /\ UNCHANGED <<fileVars, mapVars, nameVars, dirty, lastVars, jarVars, jobs, request,
                 rebuild, overlap>>

Task ==
  \/ ResetMaps
  \/ ResetRest
  \/ ResetBump
  \/ \E f \in Workspace : ApplyFresh(f)
  \/ MarkDirty
  \/ RestoreLibrary
  \/ RestoreDirty
  \/ ApplySourcePathScan
  \/ NoSourcePaths

----------------------------------------------------------------------------
(* JAR population: the symbols first, then note_jar_symbols_populated.     *)

OutsideJars == <<fileVars, mapVars, nameVars, jobs, task, request, rebuild, overlap>>

PopulateJars ==
  /\ Starts("Populate")
  /\ populate = "Idle"
  /\ jar_names' = JarNames
  /\ populate' = "Clear"
  /\ UNCHANGED <<OutsideJars, dirty, lastVars, noted>>

NoteClears ==
  /\ populate = "Clear"
  /\ dirty' = TRUE
  /\ last_completion' = None
  /\ populate' = "Bump"
  /\ UNCHANGED <<OutsideJars, completion_epoch, jar_names, noted>>

NoteBumps ==
  /\ populate = "Bump"
  /\ completion_epoch' = completion_epoch + 1
  /\ populate' = "Done"
  /\ noted' = jar_names
  /\ UNCHANGED <<OutsideJars, dirty, last_completion, jar_names>>

----------------------------------------------------------------------------
(* rebuild_bare_name_cache, in the scan task or in a completion request.   *)

OutsideNames == <<fileVars, mapVars, completion_epoch, jarVars, jobs, overlap>>

Calls(p) == IF p = "Task" THEN task.at \in {"Rebuild", "PathsRebuild"}
                          ELSE request.at = "Fresh"
Returns(p) ==
  IF p = "Task"
    THEN /\ task' = [task EXCEPT !.at = IF @ = "Rebuild" THEN "Paths" ELSE "Idle"]
         /\ UNCHANGED request
    ELSE /\ request' = [request EXCEPT !.at = "Compute"]
         /\ UNCHANGED task
RebuildStep(p, from, to) ==
  /\ rebuild[p].at = from
  /\ rebuild' = [rebuild EXCEPT ![p].at = to]

(* Nothing to do unless dirty; the flag is taken first.                    *)
RebuildTakesDirty(p) ==
  /\ Calls(p)
  /\ dirty
  /\ RebuildStep(p, "No", "Names")
  /\ dirty' = FALSE
  /\ UNCHANGED <<OutsideNames, nameVars, last_completion, task, request>>

RebuildIsFresh(p) ==
  /\ Calls(p)
  /\ ~dirty
  /\ rebuild[p].at = "No"
  /\ Returns(p)
  /\ UNCHANGED <<OutsideNames, nameVars, dirty, last_completion, rebuild>>

(* Under the write lock: the keys of definitions, emptied ones too, and    *)
(* the names of JARs.                                                      *)
RebuildNames(p) ==
  /\ RebuildStep(p, "Names", "Collect")
  /\ bare_names' = definition_keys \cup jar_names
  /\ UNCHANGED <<OutsideNames, importable, dirty, last_completion, task, request>>

(* rebuild_importable_fqns: the map is computed from the file data ...     *)
RebuildCollects(p) ==
  /\ rebuild[p].at = "Collect"
  /\ rebuild' = [rebuild EXCEPT ![p] =
       [at |-> "Publish", map |-> (UNION {NamesIn(f) : f \in Files}) \cup jar_names]]
  /\ UNCHANGED <<OutsideNames, nameVars, dirty, last_completion, task, request>>

(* ... and then stored.                                                    *)
RebuildPublishes(p) ==
  /\ RebuildStep(p, "Publish", "Last")
  /\ importable' = rebuild[p].map
  /\ UNCHANGED <<OutsideNames, bare_names, dirty, last_completion, task, request>>

RebuildDropsLast(p) ==
  /\ rebuild[p].at = "Last"
  /\ rebuild' = [rebuild EXCEPT ![p] = [at |-> "No", map |-> {}]]
  /\ last_completion' = None
  /\ Returns(p)
  /\ UNCHANGED <<OutsideNames, nameVars, dirty>>

Rebuild(p) ==
  \/ RebuildTakesDirty(p)
  \/ RebuildIsFresh(p)
  \/ RebuildNames(p)
  \/ RebuildCollects(p)
  \/ RebuildPublishes(p)
  \/ RebuildDropsLast(p)

----------------------------------------------------------------------------
(* A completion request: run_completions, always with the same cache key.  *)

OutsideRequest == <<fileVars, mapVars, nameVars, dirty, completion_epoch, jarVars, jobs,
                    task, rebuild, overlap>>

(* The epoch is read before anything else.                                 *)
BeginRequest ==
  /\ Starts("Complete")
  /\ request.at = "Idle"
  /\ \E bare \in BOOLEAN :
       request' = [request EXCEPT !.at = "Lookup", !.bare = bare,
                                  !.epoch = completion_epoch]
  /\ UNCHANGED <<OutsideRequest, last_completion>>

(* cache_hit: a list under the same key is served as it is.  A request     *)
(* that needs the bare names makes them fresh.                             *)
Lookup ==
  /\ request.at = "Lookup"
  /\ request' = [request EXCEPT !.at = IF last_completion # None THEN "Idle"
                                       ELSE IF request.bare THEN "Fresh" ELSE "Compute"]
  /\ UNCHANGED <<OutsideRequest, last_completion>>

(* A bare word is completed from bare_name_cache, members after a dot from *)
(* the maps.                                                               *)
Compute ==
  /\ request.at = "Compute"
  /\ request' = [request EXCEPT !.at = "Store", !.result =
       IF request.bare THEN bare_names
       ELSE {n \in Names : \E f \in Files : definitions[n, f] > 0} \cup jar_names]
  /\ UNCHANGED <<OutsideRequest, last_completion>>

(* store_in_cache: only if no epoch has passed.                            *)
(* Mutant: whatever the epoch.                                             *)
SameEpochAssumed == TRUE
SameEpoch == request.epoch = completion_epoch
StoreInCache ==
  /\ request.at = "Store"
  /\ request' = [request EXCEPT !.at = "Idle", !.result = {}]
  /\ last_completion' = IF SameEpoch THEN request.result ELSE last_completion
  /\ UNCHANGED OutsideRequest

Request == Lookup \/ Compute \/ StoreInCache

Start ==
  \/ \E j \in JobIds : IndexContent(j) \/ EnsureIndexed(j)
  \/ \E f \in Workspace : DeleteFile(f)
  \/ ResetFiles
  \/ PopulateJars
  \/ BeginRequest

Continue ==
  /\ \/ \E j \in JobIds : Job(j)
     \/ Task
     \/ NoteClears \/ NoteBumps
     \/ \E p \in Rebuilders : Rebuild(p)
     \/ Request
  /\ UNCHANGED started

Next == Start \/ Continue

Spec == Init /\ [][Next]_vars

----------------------------------------------------------------------------
(* Properties.                                                             *)

AtRest == task.at = "Idle" /\ \A j \in JobIds : ~Active(j)

(* The maps are updated file by file, by key, from the file data that was  *)
(* stored last, in several steps and by several writers.  When all is at   *)
(* rest and no two writers of a file overlapped since the last scan reset, *)
(* they hold exactly what the files declare: each workspace file once      *)
(* under each of its names and nowhere else, the library under the names   *)
(* it exports, and no FQN leads to a file without it.                      *)
IndexIsExact ==
  AtRest /\ overlap = "None" =>
    \A f \in Files, n \in Names :
      /\ definitions[n, f] > 0 <=> n \in NamesIn(f)
      /\ subtypes[n, f] > 0 <=> n \in NamesIn(f)
      /\ f \in Workspace => definitions[n, f] <= 1 /\ subtypes[n, f] <= 1
      /\ qualified[n] = f => n \in NamesIn(f)

(* The content hash answers for the file data: a later call with the same  *)
(* text is skipped on the strength of it.                                  *)
HashAnswersForData ==
  AtRest /\ overlap = "None" =>
    \A f \in Workspace :
      IF content_hashes[f] = None THEN files[f] = None
                                  ELSE files[f] = Declares[content_hashes[f]]

(* However index_content calls overlap, nothing that is indexed becomes unreachable by *)
(* name: what a file declares is found in definitions.                     *)
NothingIsLost ==
  AtRest /\ overlap # "Scan" =>
    \A f \in Files : \A n \in NamesIn(f) :
      definitions[n, f] > 0 /\ subtypes[n, f] > 0

(* The flag is taken before the names are collected, and set again after   *)
(* the maps are written: while it is down, with no rebuild and no bulk     *)
(* apply under way and no job between its maps and the flag,               *)
(* bare_name_cache misses no name, whoever rebuilt it meanwhile.           *)
BareNamesAreComplete ==
  /\ ~dirty
  /\ \A p \in Rebuilders : rebuild[p].at # "Names"
  /\ task.at \notin Applying \cup {"RestoreDirty"}
  /\ populate # "Clear"
  /\ \A j \in JobIds : jobs[j].at # "SetDirty"
  => definition_keys \cup jar_names \subseteq bare_names

(* A completion list is cached only if it could see every JAR symbol that  *)
(* had been announced: "guards against an in-flight request storing stale  *)
(* results after JAR indexing incremented the epoch".  Lists of bare names *)
(* are left out: they depend on a rebuild that may be someone else's.      *)
StoresSeeJars ==
  [][StoreInCache /\ ~request.bare /\ last_completion' # last_completion
       => noted \subseteq request.result]_vars
=============================================================================
