---------------------------- MODULE JarSymbolCache ----------------------------
(* jar-symbols-v*.bin, the symbols of compiled JARs that every kmp-lsp     *)
(* process of the machine shares (indexer/jar_cache.rs), used by on-demand *)
(* materialization (indexer/jar.rs) and filled by the sidecar, which may   *)
(* die (sidecar.rs).  A process materializes one JAR at a time: it holds   *)
(* the sidecar mutex, and then that of jar_symbol_cache.                   *)
(*                                                                         *)
(* JARs do not change once downloaded, so an entry is its JAR; the         *)
(* fingerprint of the file is the number of the write that made it.        *)
EXTENDS Naturals, FiniteSets

CONSTANTS
  Process,
  Jars,
  Unloaded,               \* jar_symbol_cache is None
  NoJar,                \* no JAR
  SavePendingLimit,       \* JAR_CACHE_SAVE_PENDING_LIMIT
  SavesMayFail,           \* the temporary file may not be written or renamed
  MaxStarts               \* bound on the processes started

ASSUME JarSymbolCacheAssumption ==
  /\ IsFiniteSet(Jars) /\ NoJar \notin Jars
  /\ \A S \in SUBSET Jars : S # Unloaded
  /\ SavePendingLimit \in Nat \ {0}
  /\ SavesMayFail \in BOOLEAN
  /\ MaxStarts \in Nat

VARIABLES
  cache_file,             \* number of the write, and the JARs it holds
  step,                   \* what each process is doing
  wanted,                 \* the JAR it materializes, NoJar for the shutdown flush
  jar_symbol_cache,       \* its memoized map
  jar_sidecar,            \* it has a sidecar
  materialized, materialization_failed,
  pending_entries,        \* JarCacheSaveThrottle
  last_seen,              \* its CACHE_FILE_FINGERPRINTS
  checked,                \* the file when it decided what to write
  entries_to_write,
  starts,
  outrun                  \* another write came between its rename and its look at the result

jarCacheVars == <<cache_file, step, wanted, jar_symbol_cache, jar_sidecar,
                  materialized, materialization_failed, pending_entries, last_seen,
                  checked, entries_to_write, starts, outrun>>

inMemory == <<jar_sidecar, materialized, materialization_failed>>
saving == <<checked, entries_to_write>>
ghosts == <<starts, outrun>>

JarCacheTypeOK ==
  /\ cache_file \in [write : Nat, entries : SUBSET Jars]
  /\ step \in [Process -> {"Off", "Idle", "Load", "Look", "Ask", "Check", "Reload",
                           "Write", "Note", "Stopped"}]
  /\ wanted \in [Process -> Jars \cup {NoJar}]
  /\ jar_symbol_cache \in [Process -> (SUBSET Jars) \cup {Unloaded}]
  /\ jar_sidecar \in [Process -> BOOLEAN]
  /\ \A p \in Process :
       /\ materialized[p] \cup materialization_failed[p] \subseteq Jars
       /\ materialized[p] \cap materialization_failed[p] = {}
       /\ materialized[p] # {} => materialized[p] \subseteq jar_symbol_cache[p]
       /\ step[p] \in {"Idle", "Load", "Look", "Ask"} => pending_entries[p] < SavePendingLimit
       /\ last_seen[p] <= cache_file.write
  /\ pending_entries \in [Process -> 0..SavePendingLimit]
  /\ checked \in [Process -> Nat]
  /\ entries_to_write \in [Process -> SUBSET Jars]
  /\ starts \in 0..MaxStarts
  /\ outrun \in [Process -> BOOLEAN]

JarCacheInit ==
  /\ cache_file = [write |-> 0, entries |-> {}]
  /\ step = [p \in Process |-> "Off"]
  /\ wanted = [p \in Process |-> NoJar]
  /\ jar_symbol_cache = [p \in Process |-> Unloaded]
  /\ jar_sidecar = [p \in Process |-> FALSE]
  /\ materialized = [p \in Process |-> {}]
  /\ materialization_failed = [p \in Process |-> {}]
  /\ pending_entries = [p \in Process |-> 0]
  /\ last_seen = [p \in Process |-> 0]
  /\ checked = [p \in Process |-> 0]
  /\ entries_to_write = [p \in Process |-> {}]
  /\ starts = 0
  /\ outrun = [p \in Process |-> FALSE]

At(p, s) == step[p] = s
Goto(p, s) == step' = [step EXCEPT ![p] = s]

----------------------------------------------------------------------------
(* Materializing a JAR.                                                    *)

StartProcess(p) ==
  /\ At(p, "Off") /\ starts < MaxStarts
  /\ starts' = starts + 1
  /\ Goto(p, "Idle")
  /\ \E launched \in BOOLEAN : jar_sidecar' = [jar_sidecar EXCEPT ![p] = launched]
  /\ jar_symbol_cache' = [jar_symbol_cache EXCEPT ![p] = Unloaded]
  /\ materialized' = [materialized EXCEPT ![p] = {}]
  /\ materialization_failed' = [materialization_failed EXCEPT ![p] = {}]
  /\ pending_entries' = [pending_entries EXCEPT ![p] = 0]
  /\ last_seen' = [last_seen EXCEPT ![p] = 0]
  /\ outrun' = [outrun EXCEPT ![p] = FALSE]
  /\ UNCHANGED <<cache_file, wanted, saving>>

(* The first request decodes the cache.  load_jar_cache takes the          *)
(* fingerprint before it opens the file.                                   *)
Want(p, jar) ==
  /\ At(p, "Idle")
  /\ jar \notin materialized[p] \cup materialization_failed[p]
  /\ wanted' = [wanted EXCEPT ![p] = jar]
  /\ IF jar_symbol_cache[p] = Unloaded
     THEN Goto(p, "Load") /\ last_seen' = [last_seen EXCEPT ![p] = cache_file.write]
     ELSE Goto(p, "Look") /\ UNCHANGED last_seen
  /\ UNCHANGED <<cache_file, jar_symbol_cache, inMemory, pending_entries, saving, ghosts>>

Load(p) ==
  /\ At(p, "Load")
  /\ jar_symbol_cache' = [jar_symbol_cache EXCEPT ![p] = cache_file.entries]
  /\ Goto(p, "Look")
  /\ UNCHANGED <<cache_file, wanted, inMemory, pending_entries, last_seen, saving, ghosts>>

Hit(p) ==
  /\ At(p, "Look") /\ wanted[p] \in jar_symbol_cache[p]
  /\ materialized' = [materialized EXCEPT ![p] = @ \cup {wanted[p]}]
  /\ Goto(p, "Idle")
  /\ UNCHANGED <<cache_file, wanted, jar_symbol_cache, jar_sidecar, materialization_failed,
                 pending_entries, last_seen, saving, ghosts>>

Ask(p) ==
  /\ At(p, "Look") /\ wanted[p] \notin jar_symbol_cache[p]
  /\ jar_sidecar[p]
  /\ Goto(p, "Ask")
  /\ UNCHANGED <<cache_file, wanted, jar_symbol_cache, inMemory, pending_entries,
                 last_seen, saving, ghosts>>

(* No sidecar, or one that dies over the JAR and is never started again.   *)
Fails(p) ==
  /\ \/ At(p, "Look") /\ wanted[p] \notin jar_symbol_cache[p] /\ ~jar_sidecar[p]
     \/ At(p, "Ask")
  /\ jar_sidecar' = [jar_sidecar EXCEPT ![p] = FALSE]
  /\ materialization_failed' = [materialization_failed EXCEPT ![p] = @ \cup {wanted[p]}]
  /\ Goto(p, "Idle")
  /\ UNCHANGED <<cache_file, wanted, jar_symbol_cache, materialized, pending_entries,
                 last_seen, saving, ghosts>>

(* maybe_save_jar_cache_throttled; elapsed: ten seconds since the last     *)
(* save, or since the load that started the clock.                         *)
(* Mutant: a suppressed save forgets what it suppressed.                   *)
StillPendingForgotten(p, due) == IF due THEN pending_entries[p] + 1 ELSE 0
StillPending(p, due) == pending_entries[p] + 1

Answer(p, elapsed) ==
  LET due == elapsed \/ pending_entries[p] + 1 >= SavePendingLimit IN
  /\ At(p, "Ask")
  /\ jar_symbol_cache' = [jar_symbol_cache EXCEPT ![p] = @ \cup {wanted[p]}]
  /\ materialized' = [materialized EXCEPT ![p] = @ \cup {wanted[p]}]
  /\ pending_entries' = [pending_entries EXCEPT ![p] = StillPending(p, due)]
  /\ Goto(p, IF due THEN "Check" ELSE "Idle")
  /\ UNCHANGED <<cache_file, wanted, jar_sidecar, materialization_failed, last_seen,
                 saving, ghosts>>

----------------------------------------------------------------------------
(* save_jar_cache.                                                         *)

UnchangedSinceSeen(p) == cache_file.write = last_seen[p]

Check(p) ==
  /\ At(p, "Check")
  /\ last_seen' = [last_seen EXCEPT ![p] = cache_file.write]
  /\ checked' = [checked EXCEPT ![p] = cache_file.write]
  /\ IF UnchangedSinceSeen(p)
     THEN /\ Goto(p, "Write")
          /\ entries_to_write' = [entries_to_write EXCEPT ![p] = jar_symbol_cache[p]]
     ELSE Goto(p, "Reload") /\ UNCHANGED entries_to_write
  /\ UNCHANGED <<cache_file, wanted, jar_symbol_cache, inMemory, pending_entries, ghosts>>

Reload(p) ==
  /\ At(p, "Reload")
  /\ entries_to_write' = [entries_to_write EXCEPT
                            ![p] = cache_file.entries \cup jar_symbol_cache[p]]
  /\ checked' = [checked EXCEPT ![p] = cache_file.write]
  /\ Goto(p, "Write")
  /\ UNCHANGED <<cache_file, wanted, jar_symbol_cache, inMemory, pending_entries,
                 last_seen, starts, outrun>>

Rename(p) ==
  /\ At(p, "Write")
  /\ cache_file' = [write |-> cache_file.write + 1, entries |-> entries_to_write[p]]
  /\ checked' = [checked EXCEPT ![p] = cache_file.write + 1]
  /\ Goto(p, "Note")
  /\ UNCHANGED <<wanted, jar_symbol_cache, inMemory, pending_entries, last_seen,
                 entries_to_write, ghosts>>

AfterSave(p) == IF wanted[p] = NoJar THEN "Stopped" ELSE "Idle"
SaveEnds(p) ==
  /\ pending_entries' = [pending_entries EXCEPT ![p] = 0]
  /\ checked' = [checked EXCEPT ![p] = 0]
  /\ entries_to_write' = [entries_to_write EXCEPT ![p] = {}]
  /\ Goto(p, AfterSave(p))

Note(p) ==
  /\ At(p, "Note")
  /\ last_seen' = [last_seen EXCEPT ![p] = cache_file.write]
  /\ outrun' = [outrun EXCEPT ![p] = @ \/ cache_file.write # checked[p]]
  /\ SaveEnds(p)
  /\ UNCHANGED <<cache_file, wanted, jar_symbol_cache, inMemory, starts>>

(* The throttle is reset all the same.                                     *)
SaveFails(p) ==
  /\ SavesMayFail /\ At(p, "Write")
  /\ SaveEnds(p)
  /\ UNCHANGED <<cache_file, wanted, jar_symbol_cache, inMemory, last_seen, ghosts>>

(* flush_pending_jar_cache_save, from the shutdown handler.                *)
Flush(p) ==
  /\ At(p, "Idle") /\ jar_symbol_cache[p] # Unloaded
  /\ wanted' = [wanted EXCEPT ![p] = NoJar]
  /\ Goto(p, IF pending_entries[p] = 0 THEN "Stopped" ELSE "Check")
  /\ UNCHANGED <<cache_file, jar_symbol_cache, inMemory, pending_entries, last_seen,
                 saving, ghosts>>

(* The process ends: after the flush, killed before, or a command-line     *)
(* run, which does not flush.                                              *)
End(p) ==
  /\ step[p] # "Off"
  /\ Goto(p, "Off")
  /\ jar_symbol_cache' = [jar_symbol_cache EXCEPT ![p] = Unloaded]
  /\ materialized' = [materialized EXCEPT ![p] = {}]
  /\ materialization_failed' = [materialization_failed EXCEPT ![p] = {}]
  /\ jar_sidecar' = [jar_sidecar EXCEPT ![p] = FALSE]
  /\ pending_entries' = [pending_entries EXCEPT ![p] = 0]
  /\ last_seen' = [last_seen EXCEPT ![p] = 0]
  /\ wanted' = [wanted EXCEPT ![p] = NoJar]
  /\ checked' = [checked EXCEPT ![p] = 0]
  /\ entries_to_write' = [entries_to_write EXCEPT ![p] = {}]
  /\ outrun' = [outrun EXCEPT ![p] = FALSE]
  /\ UNCHANGED <<cache_file, starts>>

JarCacheNext ==
  \E p \in Process :
    \/ StartProcess(p) \/ Load(p) \/ Hit(p) \/ Ask(p) \/ Fails(p)
    \/ \E jar \in Jars : Want(p, jar)
    \/ \E elapsed \in BOOLEAN : Answer(p, elapsed)
    \/ Check(p) \/ Reload(p) \/ Rename(p) \/ Note(p) \/ SaveFails(p)
    \/ Flush(p) \/ End(p)

JarCacheSpec == JarCacheInit /\ [][JarCacheNext]_jarCacheVars

----------------------------------------------------------------------------
Settled(p) == step[p] \in {"Idle", "Stopped"} /\ jar_symbol_cache[p] # Unloaded

(* jar_cache.rs:297: a kill loses at most the pending tail, and a shutdown *)
(* loses nothing: when nobody has written since, what a process has in     *)
(* memory and the file has not is counted as pending.                      *)
LostTailIsPending ==
  \A p \in Process :
    Settled(p) /\ last_seen[p] = cache_file.write /\ ~outrun[p]
      => /\ Cardinality(jar_symbol_cache[p] \ cache_file.entries) <= pending_entries[p]
         /\ At(p, "Stopped") => pending_entries[p] = 0

(* jar_cache.rs:196: on-disk entries a process never loaded survive its    *)
(* saves.  The comment excepts a write that lands between the check and    *)
(* the rename; one between the rename and the look at its fingerprint is   *)
(* left out with it.                                                       *)
EntriesSurviveASave ==
  [][\A p \in Process :
       At(p, "Write") /\ step'[p] = "Note" /\ checked[p] = cache_file.write /\ ~outrun[p]
         => cache_file.entries \subseteq cache_file'.entries]_jarCacheVars
===============================================================================
