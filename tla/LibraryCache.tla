----------------------------- MODULE LibraryCache -----------------------------
(* The chunked cache of the files under sourcePaths: indexer/cache.rs from *)
(* LibraryManifest on, and Indexer::index_source_paths (apply.rs), which   *)
(* restores it, or scans and saves it again.  All source paths lie outside *)
(* the workspace root.  A session can end between any two writes, a write  *)
(* can fail, and files change at any time.                                 *)
EXTENDS Naturals, FiniteSets, FiniteSetsExt

CONSTANTS
  Library,         \* paths of files under the source paths
  Nested,          \* those in a subdirectory of their source path
  Versions,        \* a version of a file stands for its text and its stamp
  Absent,
  ChunkSize,       \* LIBRARY_CHUNK_SIZE
  SampleLimit,     \* entries sampled of a chunk
  MaxSessions,     \* bound on sessions
  MaxLibraryChanges \* bound on changes from outside

ASSUME LibraryCacheAssumption ==
  /\ IsFiniteSet(Library) /\ Nested \subseteq Library
  /\ Absent \notin Versions
  /\ {ChunkSize, SampleLimit} \subseteq Nat \ {0}
  /\ {MaxSessions, MaxLibraryChanges} \subseteq Nat

VARIABLES
  sources,         \* of each path: its version on disk, or Absent
  directory_newer, \* a source path was modified after the manifest was written
  manifest,        \* Absent or the number of chunks
  chunks,          \* of each chunk file: Absent, or its entries
  library_files,   \* the version the index holds of each library file
  session,         \* index_source_paths
  sessions, library_changes, \* counters of the bounds
  written,         \* the entries of the save begun last
  unseen           \* paths that changed, or could not be read, unnoticed by
                   \* the freshness check

libraryVars == <<sources, directory_newer, manifest, chunks, library_files, session,
                 sessions, library_changes, written, unseen>>
onDisk   == <<manifest, chunks>>
theWorld == <<sources, directory_newer, library_changes, unseen>>

ChunkNumbers == 0..(Cardinality(Library) - 1)
Nothing  == [p \in Library |-> Absent]
Contents == [Library -> Versions \cup {Absent}]
(* The stamp is read when the cache is saved, the data is what was parsed. *)
Entry    == [stamp : Versions \cup {Absent}, data : Versions]
EntryMap == [Library -> Entry \cup {Absent}]
Held(m)  == {p \in Library : m[p] # Absent}

(* What is absent is no entry and no chunk.                                *)
ASSUME AbsentAssumption == Absent \notin Entry /\ Absent \notin EntryMap

Merged(C) == [p \in Library |-> IF \E c \in C : c[p] # Absent
                                THEN (CHOOSE c \in C : c[p] # Absent)[p] ELSE Absent]
DataOf(m) == [p \in Library |-> IF m[p] = Absent THEN Absent ELSE m[p].data]
Over(old, new) == [p \in Library |-> IF new[p] = Absent THEN old[p] ELSE new[p]]

NoSession == [at |-> "Down", loaded |-> {}, found |-> Nothing, todo |-> {}, count |-> 0,
              next |-> 0, applied |-> FALSE]

LibraryTypeOK ==
  /\ sources \in Contents /\ library_files \in Contents /\ written \in EntryMap
  /\ directory_newer \in BOOLEAN
  /\ manifest \in {Absent} \cup 0..Cardinality(Library)
  /\ chunks \in [ChunkNumbers -> EntryMap \cup {Absent}]
  /\ session.at \in {"Down", "Manifest", "Fresh", "Load", "Slow", "Apply",
                     "DeleteManifest", "Chunks", "Done"}
  /\ session.loaded \subseteq EntryMap /\ session.found \in Contents
  /\ session.todo \subseteq Held(written)
  /\ session.next <= session.count /\ session.count <= Cardinality(Library)
  /\ sessions \in 0..MaxSessions /\ library_changes \in 0..MaxLibraryChanges
  /\ unseen \subseteq Library

LibraryInit ==
  /\ sources \in Contents
  /\ directory_newer = FALSE
  /\ manifest = Absent
  /\ chunks = [n \in ChunkNumbers |-> Absent]
  /\ library_files = Nothing
  /\ session = NoSession
  /\ sessions = 0 /\ library_changes = 0
  /\ written = Nothing
  /\ unseen = {}

Ended(applied) == [NoSession EXCEPT !.at = "Done", !.applied = applied]

----------------------------------------------------------------------------
(* What to do with the cache.                                              *)

StartSession ==
  /\ session.at \in {"Down", "Done"} /\ sessions < MaxSessions
  /\ sessions' = sessions + 1
  /\ session' = [NoSession EXCEPT !.at = "Manifest"]
  /\ UNCHANGED <<theWorld, onDisk, library_files, written>>

ToSlow(loaded) == [NoSession EXCEPT !.at = "Slow", !.loaded = loaded]

(* try_load_library_manifest, and a first chunk that can be loaded.        *)
HasManifest == manifest # Absent /\ (manifest > 0 => chunks[0] # Absent)

(* A cache of no chunks leaves nothing to do.  Any cache may also be of    *)
(* another version.                                                        *)
TryLoadManifest ==
  /\ session.at = "Manifest"
  /\ \/ session' = ToSlow({})
     \/ HasManifest /\ manifest = 0 /\ session' = Ended(TRUE)
     \/ HasManifest /\ manifest > 0
        /\ session' = [session EXCEPT !.at = "Fresh", !.count = manifest, !.next = 1,
                                      !.loaded = {chunks[0]}]
  /\ UNCHANGED <<theWorld, onDisk, library_files, sessions, written>>

EntryIsFresh(e, p) == sources[p] # Absent /\ e.stamp = sources[p]

(* sample_entries_fresh: the order of a HashMap decides what is sampled.   *)
Samples(n) == IF chunks[n] = Absent THEN {{}}
              ELSE LET held == Held(chunks[n])
                   IN kSubset(Min({SampleLimit, Cardinality(held)}), held)
SampleMayBeFresh(n) == \E S \in Samples(n) : \A p \in S : EntryIsFresh(chunks[n][p], p)
SampleMayBeStale(n) == \E S \in Samples(n) : \E p \in S : ~EntryIsFresh(chunks[n][p], p)

(* The first, the last and the middle chunk.  Mutant: the first.           *)
SampledFirstOnly == {0}
Sampled == {0} \cup (IF session.count > 1 THEN {session.count - 1} ELSE {})
               \cup (IF session.count > 2 THEN {session.count \div 2} ELSE {})

CacheIsFresh ==
  /\ session.at = "Fresh"
  /\ ~directory_newer /\ \A n \in Sampled : SampleMayBeFresh(n)
  /\ session' = [session EXCEPT !.at = "Load"]
  /\ UNCHANGED <<theWorld, onDisk, library_files, sessions, written>>

(* Stale: whichever chunks load serve the slow scan, file by file.         *)
CacheIsStale ==
  /\ session.at = "Fresh"
  /\ directory_newer \/ \E n \in Sampled : SampleMayBeStale(n)
  /\ session' = ToSlow({chunks[n] : n \in 0..(session.count - 1)} \ {Absent})
  /\ UNCHANGED <<theWorld, onDisk, library_files, sessions, written>>

----------------------------------------------------------------------------
(* The fast path: every chunk is loaded before the first is flushed.       *)

LoadChunk ==
  /\ session.at = "Load" /\ session.next < session.count
  /\ IF chunks[session.next] # Absent
     THEN /\ session' = [session EXCEPT !.loaded = @ \cup {chunks[session.next]},
                                        !.next = @ + 1]
          /\ UNCHANGED manifest
     ELSE session' = ToSlow({}) /\ manifest' = Absent
  /\ UNCHANGED <<theWorld, chunks, library_files, sessions, written>>

RestoreLibrary ==
  /\ session.at = "Load" /\ session.next = session.count
  /\ library_files' = Over(library_files, DataOf(Merged(session.loaded)))
  /\ session' = Ended(TRUE)
  /\ UNCHANGED <<theWorld, onDisk, sessions, written>>

----------------------------------------------------------------------------
(* The slow path.                                                          *)

(* A file whose cached entry has its stamp is not parsed; one that cannot  *)
(* be read, or whose parse panics, is left out of the result, and nothing  *)
(* remembers that it was.                                                  *)
ScanSourcePathsSlow ==
  /\ session.at = "Slow"
  /\ LET cached == Merged(session.loaded)
         hits == {p \in Library : cached[p] # Absent /\ EntryIsFresh(cached[p], p)}
         present == {p \in Library : sources[p] # Absent}
     IN \E lost \in SUBSET (present \ hits) :
          /\ session' = [NoSession EXCEPT !.at = "Apply",
               !.found = [p \in Library |-> IF p \in hits THEN cached[p].data
                                            ELSE IF p \in lost THEN Absent
                                            ELSE sources[p]]]
          /\ unseen' = unseen \cup lost
  /\ UNCHANGED <<sources, directory_newer, library_changes, onDisk, library_files,
                 sessions, written>>

(* The generation moved during the scan: its result is dropped.            *)
ScanSuperseded ==
  /\ session.at = "Apply"
  /\ session' = Ended(FALSE)
  /\ UNCHANGED <<theWorld, onDisk, library_files, sessions, written>>

(* apply_source_path_scan; what is gone from disk stays in the index.      *)
ApplySourcePathScan ==
  /\ session.at = "Apply"
  /\ library_files' = Over(library_files, session.found)
  /\ session' = [NoSession EXCEPT !.at = "DeleteManifest"]
  /\ UNCHANGED <<theWorld, onDisk, sessions, written>>

CeilDiv(n, d) == (n + d - 1) \div d

(* save_library_cache: the manifest goes first, and then the entries are   *)
(* collected.  What the index then has right is right in the cache too.    *)
BeginSaveLeaving(left) ==
  /\ session.at = "DeleteManifest"
  /\ manifest' = left
  /\ written' = [p \in Library |-> IF library_files[p] = Absent THEN Absent
                   ELSE [stamp |-> sources[p], data |-> library_files[p]]]
  /\ session' = [session EXCEPT !.at = "Chunks", !.todo = Held(library_files),
                    !.count = CeilDiv(Cardinality(Held(library_files)), ChunkSize)]
  /\ unseen' = {p \in unseen : library_files[p] # sources[p]}
  /\ UNCHANGED <<sources, directory_newer, library_changes, chunks, library_files,
                 sessions>>

(* Mutant: the manifest is only overwritten at the end.                    *)
BeginSaveKeepingManifest == BeginSaveLeaving(manifest)
BeginSave == BeginSaveLeaving(Absent)

WriteChunk ==
  /\ session.at = "Chunks" /\ session.next < session.count
  /\ \E S \in kSubset(Min({ChunkSize, Cardinality(session.todo)}), session.todo) :
       /\ chunks' = [chunks EXCEPT ![session.next] =
                       [p \in Library |-> IF p \in S THEN written[p] ELSE Absent]]
       /\ session' = [session EXCEPT !.todo = @ \ S, !.next = @ + 1]
  /\ UNCHANGED <<theWorld, manifest, library_files, sessions, written>>

(* A full disk, or an end of the process inside the write, leaves a chunk  *)
(* that does not parse; the save gives up.                                 *)
WriteChunkFails ==
  /\ session.at = "Chunks" /\ session.next < session.count
  /\ chunks' = [chunks EXCEPT ![session.next] = Absent]
  /\ session' = Ended(TRUE)
  /\ UNCHANGED <<theWorld, manifest, library_files, sessions, written>>

CommitManifest ==
  /\ session.at = "Chunks" /\ session.next = session.count
  /\ manifest' = session.count
  /\ directory_newer' = FALSE
  /\ session' = Ended(TRUE)
  /\ UNCHANGED <<sources, library_changes, unseen, chunks, library_files, sessions, written>>

EndSession ==
  /\ session.at # "Down"
  /\ session' = NoSession
  /\ library_files' = Nothing
  /\ UNCHANGED <<theWorld, onDisk, sessions, written>>

----------------------------------------------------------------------------
(* The outside.  Of a source path only the modification time of the top    *)
(* directory is looked at; of its files, those that are sampled.           *)

AllSampled == SampleLimit >= ChunkSize /\ Cardinality(Library) <= 3 * ChunkSize

ChangeLibrary(p, v) ==
  /\ library_changes < MaxLibraryChanges
  /\ v # sources[p]
  /\ library_changes' = library_changes + 1
  /\ sources' = [sources EXCEPT ![p] = v]
  /\ directory_newer' = (directory_newer \/ (p \notin Nested /\ Absent \in {v, sources[p]}))
  /\ unseen' = IF \/ session.at # "Down"
                  \/ manifest = 0
                  \/ sources[p] = Absent /\ p \in Nested
                  \/ sources[p] # Absent /\ ~AllSampled
               THEN unseen \cup {p} ELSE unseen
  /\ UNCHANGED <<onDisk, library_files, session, sessions, written>>

LibraryNext ==
  \/ StartSession \/ TryLoadManifest \/ CacheIsFresh \/ CacheIsStale
  \/ LoadChunk \/ RestoreLibrary
  \/ ScanSourcePathsSlow \/ ScanSuperseded \/ ApplySourcePathScan
  \/ BeginSave \/ WriteChunk \/ WriteChunkFails \/ CommitManifest
  \/ EndSession
  \/ \E p \in Library, v \in Versions \cup {Absent} : ChangeLibrary(p, v)

LibrarySpec == LibraryInit /\ [][LibraryNext]_libraryVars

----------------------------------------------------------------------------

(* A manifest vouches for the chunks it counts: together they hold exactly *)
(* the entries of one save, whatever failed or ended in the middle of it.  *)
CommittedIsWhole ==
  manifest # Absent =>
    /\ \A n \in 0..(manifest - 1) : chunks[n] # Absent
    /\ Merged({chunks[n] : n \in 0..(manifest - 1)}) = written

(* After index_source_paths the index holds the library as it is on disk,  *)
(* by whichever path it came, except for changes its check does not see,   *)
(* and for files a scan could not read; each until a save has it right.    *)
LibraryComesBack ==
  session.at = "Done" /\ session.applied =>
    \A p \in Library \ unseen : library_files[p] = sources[p]

=============================================================================
