--------------------------- MODULE JarCacheProofs ---------------------------
(***************************************************************************)
(* The two caches of the JARs, one section each: the symbols of binary     *)
(* JARs, which processes share through a file (JarSymbolCache), and the    *)
(* libraries of source JARs, which sessions save in chunks (LibraryCache). *)
(***************************************************************************)
EXTENDS JarSymbolCache, LibraryCache, TLAPS, FiniteSetTheorems

(***************************************************************************)
(* What the shared cache of JAR symbols promises a process, for every set  *)
(* of processes and of JARs and every throttle.                            *)
(*                                                                         *)
(* The invariants are local to a process but for the cache file: another   *)
(* process's rename raises its number past all that this one has seen, and *)
(* that is all a process need know of the others (OthersStay).  The heart  *)
(* of the argument is TailInv: as long as the file is the one a process    *)
(* saw last, each entry the file lacks was counted by the throttle.        *)
(***************************************************************************)

Typed ==
  /\ cache_file \in [write : Nat, entries : SUBSET Jars]
  /\ step \in [Process -> {"Off", "Idle", "Load", "Look", "Ask", "Check", "Reload",
                           "Write", "Note", "Stopped"}]
  /\ wanted \in [Process -> Jars \cup {NoJar}]
  /\ jar_symbol_cache \in [Process -> (SUBSET Jars) \cup {Unloaded}]
  /\ jar_sidecar \in [Process -> BOOLEAN]
  /\ materialized \in [Process -> SUBSET Jars]
  /\ materialization_failed \in [Process -> SUBSET Jars]
  /\ pending_entries \in [Process -> 0..SavePendingLimit]
  /\ last_seen \in [Process -> Nat]
  /\ checked \in [Process -> Nat]
  /\ entries_to_write \in [Process -> SUBSET Jars]
  /\ starts \in 0..MaxStarts
  /\ outrun \in [Process -> BOOLEAN]

(* A JAR is being materialized only while its fate is open.                *)
WantedInv(p) ==
  step[p] \in {"Load", "Look", "Ask"} =>
    wanted[p] \in Jars \ (materialized[p] \cup materialization_failed[p])

(* What was materialized came from the map, which is loaded first.         *)
MemoryInv(p) ==
  /\ materialized[p] \cap materialization_failed[p] = {}
  /\ jar_symbol_cache[p] = Unloaded => materialized[p] = {}
  /\ jar_symbol_cache[p] # Unloaded => materialized[p] \subseteq jar_symbol_cache[p]
  /\ step[p] = "Load" => jar_symbol_cache[p] = Unloaded
  /\ step[p] \in {"Look", "Ask", "Check", "Reload", "Write", "Note", "Stopped"} =>
       jar_symbol_cache[p] # Unloaded

(* The throttle is below its limit except on the way to a save.            *)
ThrottleInv(p) ==
  /\ step[p] \in {"Idle", "Load", "Look", "Ask"} => pending_entries[p] < SavePendingLimit
  /\ step[p] = "Stopped" => pending_entries[p] = 0

(* The numbers a process has seen are of writes that were made, and what   *)
(* it is about to write has all that it remembers.                         *)
FileInv(p) ==
  /\ last_seen[p] <= cache_file.write
  /\ checked[p] <= cache_file.write
  /\ step[p] \in {"Write", "Note"} => jar_symbol_cache[p] \subseteq entries_to_write[p]
  /\ step[p] = "Note" /\ checked[p] = cache_file.write =>
       cache_file.entries = entries_to_write[p]

(* What the file seen last lacks is pending.                               *)
TailInv(p) ==
  /\ step[p] \in {"Idle", "Look", "Ask", "Stopped"}
  /\ jar_symbol_cache[p] # Unloaded
  /\ last_seen[p] = cache_file.write
  /\ ~outrun[p]
  => Cardinality(jar_symbol_cache[p] \ cache_file.entries) <= pending_entries[p]

Local(p) ==
  WantedInv(p) /\ MemoryInv(p) /\ ThrottleInv(p) /\ FileInv(p)

(* The inductive invariants: that of the types, and with it that of the    *)
(* tail, which a failing save would break.                                 *)
LocalInv == Typed /\ \A p \in Process : Local(p)
JarCacheInv == LocalInv /\ \A p \in Process : TailInv(p)

-----------------------------------------------------------------------------
(* The assumption on the constants, as the provers take it best: the value *)
(* of a memory that is not loaded yet is no set of JARs.                   *)
LEMMA JarConstants ==
  /\ IsFiniteSet(Jars) /\ NoJar \notin Jars
  /\ Unloaded \notin SUBSET Jars
  /\ SavePendingLimit \in Nat \ {0}
  /\ SavesMayFail \in BOOLEAN
  /\ MaxStarts \in Nat
BY JarSymbolCacheAssumption

-----------------------------------------------------------------------------
(* Nothing of process q changes.                                           *)
Same(q) ==
  /\ step'[q] = step[q]
  /\ wanted'[q] = wanted[q]
  /\ jar_symbol_cache'[q] = jar_symbol_cache[q]
  /\ materialized'[q] = materialized[q]
  /\ materialization_failed'[q] = materialization_failed[q]
  /\ pending_entries'[q] = pending_entries[q]
  /\ last_seen'[q] = last_seen[q]
  /\ checked'[q] = checked[q]
  /\ entries_to_write'[q] = entries_to_write[q]
  /\ outrun'[q] = outrun[q]

NewWrite == cache_file'.write = cache_file.write + 1

(* A process that takes no step keeps its invariants, whether or not       *)
(* another one writes the file.                                            *)
LEMMA OthersStay ==
  ASSUME NEW q \in Process, Typed, Local(q), Same(q),
         cache_file' = cache_file \/ NewWrite
  PROVE  Local(q)' /\ (TailInv(q) => TailInv(q)')
<1>1. WantedInv(q)' /\ MemoryInv(q)' /\ ThrottleInv(q)'
  BY DEF Local, Same, WantedInv, MemoryInv, ThrottleInv
<1>2. cache_file.write \in Nat /\ last_seen[q] \in Nat /\ checked[q] \in Nat
  BY DEF Typed
<1>3. FileInv(q)'
  BY <1>2 DEF Local, Same, FileInv, NewWrite
<1>4. TailInv(q) => TailInv(q)'
  <2>1. CASE cache_file' = cache_file
    BY <2>1 DEF Same, TailInv
  <2>2. CASE NewWrite
    BY <1>2, <2>2 DEF Local, FileInv, Same, TailInv, NewWrite
  <2>3. QED
    BY <2>1, <2>2
<1>5. QED
  BY <1>1, <1>3, <1>4 DEF Local

(* So a step of process p need only be looked at for p itself.             *)
LEMMA OneProcessSteps ==
  ASSUME LocalInv, NEW p \in Process, Typed', Local(p)',
         \A q \in Process \ {p} : Same(q),
         cache_file' = cache_file \/ NewWrite
  PROVE  /\ LocalInv'
         /\ JarCacheInv /\ TailInv(p)' => JarCacheInv'
<1>1. \A q \in Process \ {p} : Local(q)' /\ (TailInv(q) => TailInv(q)')
  BY OthersStay DEF LocalInv
<1>2. LocalInv'
  BY <1>1 DEF LocalInv
<1>3. JarCacheInv /\ TailInv(p)' => JarCacheInv'
  BY <1>1, <1>2 DEF JarCacheInv
<1>4. QED
  BY <1>2, <1>3

-----------------------------------------------------------------------------
LEMMA JarCacheInitInv == JarCacheInit => JarCacheInv
<1> SUFFICES ASSUME JarCacheInit PROVE JarCacheInv
  OBVIOUS
<1>1. Typed
  BY JarConstants DEF JarCacheInit, Typed
<1>2. ASSUME NEW p \in Process PROVE Local(p) /\ TailInv(p)
  BY JarConstants
  DEF JarCacheInit, Local, WantedInv, MemoryInv, ThrottleInv, FileInv, TailInv
<1>3. QED
  BY <1>1, <1>2 DEF JarCacheInv, LocalInv

-----------------------------------------------------------------------------
(* Starting and ending: a process without a map promises nothing.          *)
LEMMA StartOrEndKeeps ==
  ASSUME LocalInv, NEW p \in Process, StartProcess(p) \/ End(p)
  PROVE  LocalInv' /\ (JarCacheInv => JarCacheInv')
<1> USE JarConstants
<1>1. Typed
  BY DEF LocalInv
<1>2. Typed'
  <2>1. CASE StartProcess(p)
    BY <1>1, <2>1 DEF StartProcess, Typed, Goto, saving
  <2>2. CASE End(p)
    BY <1>1, <2>2 DEF End, Typed, Goto
  <2>3. QED
    BY <2>1, <2>2
<1>3. /\ \A q \in Process \ {p} : Same(q)
      /\ cache_file' = cache_file
      /\ step'[p] \in {"Off", "Idle"}
      /\ jar_symbol_cache'[p] = Unloaded
      /\ materialized'[p] = {} /\ materialization_failed'[p] = {}
      /\ pending_entries'[p] = 0
      /\ last_seen'[p] = 0
  BY <1>1 DEF StartProcess, End, Goto, saving, Typed, Same
<1>4. checked'[p] <= cache_file'.write
  BY <1>1 DEF StartProcess, End, Goto, saving, Typed, LocalInv, Local, FileInv
<1>5. Local(p)' /\ TailInv(p)'
  BY <1>1, <1>3, <1>4
  DEF Local, WantedInv, MemoryInv, ThrottleInv, FileInv, TailInv, Typed
<1>6. QED
  BY <1>2, <1>3, <1>5, OneProcessSteps

-----------------------------------------------------------------------------
(* Materializing.                                                          *)

(* Until it decides to save, a process writes neither the file nor what a  *)
(* save goes by.                                                           *)
Materializes(p) ==
  \/ Load(p) \/ Hit(p) \/ Ask(p) \/ Fails(p)
  \/ \E jar \in Jars : Want(p, jar)
  \/ \E elapsed \in BOOLEAN : Answer(p, elapsed)

LEMMA MaterializingKeeps ==
  ASSUME LocalInv, NEW p \in Process, Materializes(p)
  PROVE  LocalInv' /\ (JarCacheInv => JarCacheInv')
<1> USE JarConstants
<1>1. Typed /\ Local(p)
  BY DEF LocalInv
<1>2. UNCHANGED <<cache_file, checked, entries_to_write, starts, outrun>>
  BY DEF Materializes, Load, Hit, Ask, Fails, Want, Answer, saving, ghosts
<1>3. CASE \E jar \in Jars : Want(p, jar)
  <2>1. Typed'
    BY <1>1, <1>2, <1>3 DEF Want, Typed, Goto, inMemory
  <2>2. \A q \in Process \ {p} : Same(q)
    BY <1>1, <1>2, <1>3 DEF Want, Typed, Goto, inMemory, Same
  <2>3. Local(p)'
    BY <1>1, <1>2, <1>3
    DEF Want, Typed, Goto, inMemory, At, Local, WantedInv, MemoryInv, ThrottleInv, FileInv
  <2>4. TailInv(p) => TailInv(p)'
    BY <1>1, <1>2, <1>3 DEF Want, Typed, Goto, inMemory, At, TailInv
  <2>5. QED
    BY <1>2, <2>1, <2>2, <2>3, <2>4, OneProcessSteps DEF JarCacheInv
<1>4. CASE Load(p)
  <2>1. Typed'
    BY <1>1, <1>2, <1>4 DEF Load, Typed, Goto, inMemory
  <2>2. \A q \in Process \ {p} : Same(q)
    BY <1>1, <1>2, <1>4 DEF Load, Typed, Goto, inMemory, Same
  <2>3. Local(p)'
    BY <1>1, <1>2, <1>4
    DEF Load, Typed, Goto, inMemory, At, Local, WantedInv, MemoryInv, ThrottleInv, FileInv
  <2>4. TailInv(p)'
    <3>1. jar_symbol_cache'[p] \ cache_file'.entries = {}
      BY <1>1, <1>2, <1>4 DEF Load, Typed
    <3>2. pending_entries'[p] \in Nat
      BY <2>1 DEF Typed
    <3>3. QED
      BY <3>1, <3>2, FS_EmptySet DEF TailInv
  <2>5. QED
    BY <1>2, <2>1, <2>2, <2>3, <2>4, OneProcessSteps
<1>5. CASE Hit(p) \/ Ask(p) \/ Fails(p)
  <2>1. Typed'
    <3>1. CASE Hit(p)
      BY <1>1, <1>2, <3>1 DEF Hit, Typed, Goto, At, Local, WantedInv
    <3>2. CASE Ask(p)
      BY <1>1, <1>2, <3>2 DEF Ask, Typed, Goto, inMemory
    <3>3. CASE Fails(p)
      BY <1>1, <1>2, <3>3 DEF Fails, Typed, Goto, At, Local, WantedInv
    <3>4. QED
      BY <1>5, <3>1, <3>2, <3>3
  <2>2. \A q \in Process \ {p} : Same(q)
    BY <1>1, <1>2, <1>5 DEF Hit, Ask, Fails, Typed, Goto, inMemory, Same
  <2>3. /\ step[p] \in {"Look", "Ask"} /\ step'[p] \in {"Idle", "Ask"}
        /\ UNCHANGED <<wanted, jar_symbol_cache, pending_entries, last_seen>>
    BY <1>1, <1>5 DEF Hit, Ask, Fails, Typed, Goto, At, inMemory
  <2>4. WantedInv(p)' /\ MemoryInv(p)'
    BY <1>1, <1>5, <2>3
    DEF Hit, Ask, Fails, Typed, Goto, At, inMemory, Local, WantedInv, MemoryInv
  <2>5. ThrottleInv(p)' /\ FileInv(p)'
    BY <1>1, <1>2, <2>3 DEF Local, ThrottleInv, FileInv
  <2>6. TailInv(p) => TailInv(p)'
    BY <1>2, <2>3 DEF TailInv
  <2>7. QED
    BY <1>2, <2>1, <2>2, <2>4, <2>5, <2>6, OneProcessSteps DEF JarCacheInv, Local
<1>6. CASE \E elapsed \in BOOLEAN : Answer(p, elapsed)
  <2>1. /\ step[p] = "Ask" /\ step'[p] \in {"Idle", "Check"}
        /\ jar_symbol_cache' = [jar_symbol_cache EXCEPT ![p] = @ \cup {wanted[p]}]
        /\ materialized' = [materialized EXCEPT ![p] = @ \cup {wanted[p]}]
        /\ pending_entries' = [pending_entries EXCEPT ![p] = pending_entries[p] + 1]
        /\ step' = [step EXCEPT ![p] = step'[p]]
        /\ step'[p] = "Idle" => pending_entries[p] + 1 < SavePendingLimit
        /\ UNCHANGED <<wanted, jar_sidecar, materialization_failed, last_seen>>
    BY <1>1, <1>6 DEF Answer, Typed, Goto, At, StillPending
  <2>2. /\ wanted[p] \in Jars /\ wanted[p] \notin materialization_failed[p]
        /\ jar_symbol_cache[p] \in SUBSET Jars
        /\ jar_symbol_cache[p] \cup {wanted[p]} \in SUBSET Jars
        /\ pending_entries[p] + 1 \in 0..SavePendingLimit
    BY <1>1, <2>1 DEF Typed, Local, WantedInv, MemoryInv, ThrottleInv
  <2>3. Typed'
    BY <1>1, <1>2, <2>1, <2>2 DEF Typed
  <2>4. \A q \in Process \ {p} : Same(q)
    BY <1>1, <1>2, <2>1 DEF Typed, Same
  <2>5. /\ jar_symbol_cache'[p] = jar_symbol_cache[p] \cup {wanted[p]}
        /\ materialized'[p] = materialized[p] \cup {wanted[p]}
        /\ pending_entries'[p] = pending_entries[p] + 1
        /\ jar_symbol_cache'[p] # Unloaded
    BY <1>1, <2>1, <2>2 DEF Typed
  <2>6. Local(p)'
    BY <1>1, <1>2, <2>1, <2>2, <2>5
    DEF Local, WantedInv, MemoryInv, ThrottleInv, FileInv
  <2>7. TailInv(p) => TailInv(p)'
    <3> DEFINE tail == jar_symbol_cache[p] \ cache_file.entries
               more == jar_symbol_cache'[p] \ cache_file'.entries
    <3>1. IsFiniteSet(tail)
      BY <2>2, FS_Subset
    <3>2. Cardinality(tail) \in Nat /\ Cardinality(more) <= Cardinality(tail) + 1
      <4>1. more = tail \/ more = tail \cup {wanted[p]}
        BY <1>2, <2>5
      <4>2. Cardinality(tail) \in Nat
        BY <3>1, FS_CardinalityType
      <4>3. \/ Cardinality(tail \cup {wanted[p]}) = Cardinality(tail) + 1
            \/ Cardinality(tail \cup {wanted[p]}) = Cardinality(tail)
        BY <3>1, FS_AddElement
      <4>4. Cardinality(more) = Cardinality(tail) \/ Cardinality(more) = Cardinality(tail) + 1
        BY <4>1, <4>3
      <4>5. QED
        BY <4>2, <4>4
    <3>3. Cardinality(more) \in Nat
      <4>1. IsFiniteSet(more)
        BY <2>2, <2>5, FS_Subset
      <4>2. QED
        BY <4>1, FS_CardinalityType
    <3>4. HAVE TailInv(p)
    <3>5. SUFFICES ASSUME last_seen'[p] = cache_file'.write, ~outrun'[p]
                   PROVE  Cardinality(more) <= pending_entries'[p]
      BY DEF TailInv
    <3>6. Cardinality(tail) <= pending_entries[p]
      BY <1>1, <1>2, <2>1, <3>4, <3>5 DEF TailInv, Local, MemoryInv
    <3>7. pending_entries[p] \in Nat
      BY <1>1 DEF Typed
    <3>8. QED
      BY <2>5, <3>2, <3>3, <3>6, <3>7
  <2>8. QED
    BY <1>2, <2>3, <2>4, <2>6, <2>7, OneProcessSteps DEF JarCacheInv
<1>7. QED
  BY <1>3, <1>4, <1>5, <1>6 DEF Materializes

-----------------------------------------------------------------------------
(* save_jar_cache.                                                         *)

(* On the way to the rename a process is not settled; what it will write   *)
(* has all it remembers, and a rename numbers the file anew.               *)
LEMMA SavingKeeps ==
  ASSUME LocalInv, NEW p \in Process, Check(p) \/ Reload(p) \/ Rename(p)
  PROVE  LocalInv' /\ (JarCacheInv => JarCacheInv')
<1> USE JarConstants
<1>1. Typed /\ Local(p)
  BY DEF LocalInv
<1>2. /\ UNCHANGED <<wanted, jar_symbol_cache, jar_sidecar, materialized,
                     materialization_failed, pending_entries, starts, outrun>>
      /\ step'[p] \in {"Reload", "Write", "Note"}
      /\ step[p] \in {"Check", "Reload", "Write"}
  BY <1>1 DEF Check, Reload, Rename, Typed, Goto, At, inMemory, ghosts
<1>3. jar_symbol_cache[p] \in SUBSET Jars
  BY <1>1, <1>2 DEF Typed, Local, MemoryInv
<1>4. Typed'
  <2>1. CASE Check(p)
    BY <1>1, <1>2, <1>3, <2>1 DEF Check, Typed, Goto
  <2>2. CASE Reload(p)
    BY <1>1, <1>2, <1>3, <2>2 DEF Reload, Typed, Goto
  <2>3. CASE Rename(p)
    BY <1>1, <1>2, <2>3 DEF Rename, Typed, Goto
  <2>4. QED
    BY <2>1, <2>2, <2>3
<1>5. cache_file' = cache_file \/ NewWrite
  BY DEF Check, Reload, Rename, NewWrite
<1>6. \A q \in Process \ {p} : Same(q)
  BY <1>1, <1>2 DEF Check, Reload, Rename, Typed, Goto, Same
<1>7. WantedInv(p)' /\ MemoryInv(p)' /\ ThrottleInv(p)' /\ TailInv(p)'
  BY <1>1, <1>2 DEF Local, WantedInv, MemoryInv, ThrottleInv, TailInv
<1>8. FileInv(p)'
  <2>1. CASE Check(p)
    BY <1>1, <1>2, <2>1 DEF Check, Typed, Goto, Local, FileInv
  <2>2. CASE Reload(p)
    BY <1>1, <1>2, <2>2 DEF Reload, Typed, Goto, Local, FileInv
  <2>3. CASE Rename(p)
    BY <1>1, <1>2, <2>3 DEF Rename, Typed, Goto, At, Local, FileInv
  <2>4. QED
    BY <2>1, <2>2, <2>3
<1>9. QED
  BY <1>4, <1>5, <1>6, <1>7, <1>8, OneProcessSteps DEF Local

(* After a save the throttle starts again at nothing.                      *)
LEMMA SaveEndsKeeps ==
  ASSUME LocalInv, NEW p \in Process, SaveEnds(p), step[p] \in {"Write", "Note"},
         UNCHANGED <<cache_file, wanted, jar_symbol_cache, inMemory, starts>>,
         last_seen' = last_seen \/ last_seen' = [last_seen EXCEPT ![p] = cache_file.write],
         outrun' = [outrun EXCEPT ![p] = outrun'[p]], outrun'[p] \in BOOLEAN
  PROVE  /\ LocalInv'
         /\ JarCacheInv /\ TailInv(p)' => JarCacheInv'
<1> USE JarConstants
<1>1. Typed /\ Local(p)
  BY DEF LocalInv
<1>2. step'[p] \in {"Idle", "Stopped"} /\ pending_entries'[p] = 0 /\ checked'[p] = 0
  BY <1>1 DEF SaveEnds, AfterSave, Goto, Typed
<1>3. Typed'
  BY <1>1 DEF SaveEnds, AfterSave, Goto, Typed, inMemory
<1>4. \A q \in Process \ {p} : Same(q)
  BY <1>1 DEF SaveEnds, AfterSave, Goto, Typed, inMemory, Same
<1>5. Local(p)'
  BY <1>1, <1>2
  DEF Local, WantedInv, MemoryInv, ThrottleInv, FileInv, inMemory, Typed
<1>6. QED
  BY <1>3, <1>4, <1>5, OneProcessSteps

(* A save that nobody outran leaves all a process remembers in the file.   *)
LEMMA NoteKeeps ==
  ASSUME LocalInv, NEW p \in Process, Note(p)
  PROVE  LocalInv' /\ (JarCacheInv => JarCacheInv')
<1>1. Typed /\ Local(p)
  BY DEF LocalInv
<1>2. /\ outrun'[p] = (outrun[p] \/ cache_file.write # checked[p])
      /\ outrun' = [outrun EXCEPT ![p] = outrun'[p]]
      /\ outrun'[p] \in BOOLEAN
  BY <1>1 DEF Note, Typed
<1>3. /\ LocalInv'
      /\ JarCacheInv /\ TailInv(p)' => JarCacheInv'
  BY <1>2, SaveEndsKeeps DEF Note, At, SaveEnds
<1>4. TailInv(p)'
  <2>1. SUFFICES ASSUME ~outrun'[p]
                 PROVE  /\ jar_symbol_cache'[p] \ cache_file'.entries = {}
                        /\ pending_entries'[p] = 0
    BY FS_EmptySet DEF TailInv
  <2>2. cache_file.write = checked[p]
    BY <1>2, <2>1
  <2>3. jar_symbol_cache[p] \subseteq cache_file.entries
    BY <1>1, <2>2 DEF Note, At, Local, FileInv
  <2>4. QED
    BY <1>1, <2>3 DEF Note, SaveEnds, Typed
<1>5. QED
  BY <1>3, <1>4

(* A save that fails keeps the types, but not the tail.                    *)
LEMMA SaveFailsKeeps ==
  ASSUME LocalInv, NEW p \in Process, SaveFails(p)
  PROVE  LocalInv'
<1>1. outrun'[p] \in BOOLEAN /\ outrun' = [outrun EXCEPT ![p] = outrun'[p]]
  BY DEF LocalInv, Typed, SaveFails, ghosts
<1>2. QED
  BY <1>1, SaveEndsKeeps DEF SaveFails, At, ghosts

(* The shutdown flush goes the way of a save, or has nothing to save.      *)
LEMMA FlushKeeps ==
  ASSUME LocalInv, NEW p \in Process, Flush(p)
  PROVE  LocalInv' /\ (JarCacheInv => JarCacheInv')
<1> USE JarConstants
<1>1. Typed /\ Local(p)
  BY DEF LocalInv
<1>2. /\ step[p] = "Idle" /\ jar_symbol_cache[p] # Unloaded
      /\ step'[p] \in {"Stopped", "Check"}
      /\ step'[p] = "Stopped" => pending_entries[p] = 0
      /\ step' = [step EXCEPT ![p] = step'[p]]
      /\ wanted' = [wanted EXCEPT ![p] = NoJar]
      /\ UNCHANGED <<cache_file, jar_symbol_cache, jar_sidecar, materialized,
                     materialization_failed, pending_entries, last_seen, checked,
                     entries_to_write, starts, outrun>>
  BY <1>1 DEF Flush, Typed, Goto, At, inMemory, saving, ghosts
<1>3. Typed'
  BY <1>1, <1>2 DEF Typed
<1>4. \A q \in Process \ {p} : Same(q)
  BY <1>1, <1>2 DEF Typed, Same
<1>5. Local(p)'
  BY <1>1, <1>2 DEF Local, WantedInv, MemoryInv, ThrottleInv, FileInv
<1>6. TailInv(p) => TailInv(p)'
  BY <1>2 DEF TailInv
<1>7. QED
  BY <1>2, <1>3, <1>4, <1>5, <1>6, OneProcessSteps DEF JarCacheInv

-----------------------------------------------------------------------------
(* Every step keeps the invariants; a failing save only the first.         *)
LEMMA JarCacheNextInv ==
  ASSUME LocalInv, [JarCacheNext]_jarCacheVars
  PROVE  /\ LocalInv'
         /\ ~SavesMayFail /\ JarCacheInv => JarCacheInv'
<1>1. CASE JarCacheNext
  <2>1. PICK p \in Process :
          \/ StartProcess(p) \/ End(p)
          \/ Materializes(p)
          \/ Check(p) \/ Reload(p) \/ Rename(p)
          \/ Note(p)
          \/ SaveFails(p)
          \/ Flush(p)
    BY <1>1 DEF JarCacheNext, Materializes
  <2>2. QED
    BY <2>1, StartOrEndKeeps, MaterializingKeeps, SavingKeeps, NoteKeeps, SaveFailsKeeps,
       FlushKeeps DEF SaveFails
<1>2. CASE UNCHANGED jarCacheVars
  BY <1>2 DEF jarCacheVars, JarCacheInv, LocalInv, Typed, Local, WantedInv, MemoryInv,
              ThrottleInv, FileInv, TailInv
<1>3. QED
  BY <1>1, <1>2

-----------------------------------------------------------------------------
(* Type correctness: no JAR is both materialized and given up, the         *)
(* throttle stays below its limit outside a save, and what was materialized*)
(* is in the memoized map (jar.rs, materialize; jar_cache.rs, the          *)
(* throttle), failing saves included.                                      *)
THEOREM JarCacheTypeCorrect == JarCacheSpec => []JarCacheTypeOK
<1>1. JarCacheInit => LocalInv
  BY JarCacheInitInv DEF JarCacheInv
<1>2. LocalInv /\ [JarCacheNext]_jarCacheVars => LocalInv'
  BY JarCacheNextInv
<1>3. LocalInv => JarCacheTypeOK
  <2> SUFFICES ASSUME LocalInv PROVE JarCacheTypeOK
    OBVIOUS
  <2>1. ASSUME NEW p \in Process
        PROVE  /\ materialized[p] \cup materialization_failed[p] \subseteq Jars
               /\ materialized[p] \cap materialization_failed[p] = {}
               /\ materialized[p] # {} => materialized[p] \subseteq jar_symbol_cache[p]
               /\ step[p] \in {"Idle", "Load", "Look", "Ask"} =>
                    pending_entries[p] < SavePendingLimit
               /\ last_seen[p] <= cache_file.write
    BY DEF LocalInv, Typed, Local, MemoryInv, ThrottleInv, FileInv
  <2>2. QED
    BY <2>1 DEF LocalInv, Typed, JarCacheTypeOK
<1>4. QED
  BY <1>1, <1>2, <1>3, PTL DEF JarCacheSpec

(* Where saves do not fail, a kill loses no more than the throttle counts  *)
(* and a shutdown loses nothing, unless another process's write came       *)
(* between a rename and the look at its result (jar_cache.rs,              *)
(* maybe_save_jar_cache_throttled, flush_pending_jar_cache_save).          *)
THEOREM LostTailStaysPending ==
  ASSUME ~SavesMayFail
  PROVE  JarCacheSpec => []LostTailIsPending
<1>1. JarCacheInit => JarCacheInv
  BY JarCacheInitInv
<1>2. JarCacheInv /\ [JarCacheNext]_jarCacheVars => JarCacheInv'
  BY JarCacheNextInv DEF JarCacheInv
<1>3. JarCacheInv => LostTailIsPending
  BY DEF JarCacheInv, LocalInv, Local, ThrottleInv, TailInv, LostTailIsPending, Settled, At
<1>4. QED
  BY <1>1, <1>2, <1>3, PTL DEF JarCacheSpec

-----------------------------------------------------------------------------
(***************************************************************************)
(* A manifest of the library cache vouches for a whole save, and a session *)
(* brings the library back, for every library, chunk size and sample size. *)
(*                                                                         *)
(* Neither property is inductive.  For the first, SaveInv follows a save   *)
(* chunk by chunk: what is written and what is still to do make up the     *)
(* entries of the save, and there is room for the rest in the chunks to    *)
(* come.  For the second, DriftInv says how the freshness check can tell   *)
(* that a saved version is no longer the one on disk, HonestInv that a     *)
(* stamp that still fits vouches for the data saved with it, and CurrentInv*)
(* how far a session has come.                                             *)
(***************************************************************************)

Clean == Library \ unseen

Places == {"Down", "Manifest", "Fresh", "Load", "Slow", "Apply", "DeleteManifest",
           "Chunks", "Done"}
SessionType ==
  [at : Places, loaded : SUBSET EntryMap, found : Contents,
   todo : SUBSET Library, count : 0..Cardinality(Library),
   next : 0..Cardinality(Library), applied : BOOLEAN]

StoreTyped ==
  /\ sources \in Contents /\ library_files \in Contents /\ written \in EntryMap
  /\ directory_newer \in BOOLEAN
  /\ manifest \in {Absent} \cup 0..Cardinality(Library)
  /\ chunks \in [ChunkNumbers -> EntryMap \cup {Absent}]

SessionTyped ==
  /\ session \in SessionType
  /\ session.todo \subseteq Held(written)
  /\ session.next <= session.count
BoundsTyped ==
  /\ sessions \in 0..MaxSessions /\ library_changes \in 0..MaxLibraryChanges
  /\ unseen \subseteq Library

(* The first k chunks are pieces of the entries of the last save, no chunk *)
(* longer than its limit, and of the entries they lack at most those todo. *)
IsPiece(n) ==
  /\ chunks[n] \in EntryMap
  /\ Cardinality(Held(chunks[n])) <= ChunkSize
  /\ \A p \in Library : chunks[n][p] \in {Absent, written[p]}
Pieces(k) == \A n \in 0..(k - 1) : IsPiece(n)
Complete(todo, k) ==
  \A p \in Library : written[p] # Absent =>
    p \in todo \/ \E n \in 0..(k - 1) : chunks[n][p] = written[p]

(* As many chunks as n entries fill.                                       *)
FewChunks(k) == k * ChunkSize < Cardinality(Library) + ChunkSize

(* What a manifest counts is a whole save; one under way has withdrawn it, *)
(* and has room for what it has still to write.                            *)
ManifestInv ==
  manifest # Absent =>
    Pieces(manifest) /\ Complete({}, manifest) /\ FewChunks(manifest)
SaveInv ==
  /\ session.at = "DeleteManifest" => session.next = 0
  /\ session.at = "Chunks" =>
       /\ manifest = Absent
       /\ Pieces(session.next) /\ Complete(session.todo, session.next)
       /\ FewChunks(session.count)
       /\ Cardinality(session.todo) <= (session.count - session.next) * ChunkSize

(* A session reads the chunks its manifest counts, in their order.         *)
ReadInv ==
  /\ session.at \in {"Fresh", "Load"} =>
       /\ manifest # Absent /\ session.count = manifest /\ session.next > 0
       /\ session.loaded = {chunks[n] : n \in 0..(session.next - 1)}
  /\ session.at = "Slow" =>
       \A c \in session.loaded, p \in Library : c[p] \in {Absent, written[p]}

(* For a file whose changes a session can see, a saved stamp tells of the  *)
(* data beside it, and the index has the file as it is or not at all.      *)
HonestInv == \A p \in Clean : written[p] # Absent => written[p].stamp = written[p].data
IndexInv ==
  /\ \A p \in Clean : library_files[p] \in {Absent, sources[p]}
  /\ session.at = "Down" => library_files = Nothing
CurrentInv ==
  /\ \/ session.at \in {"DeleteManifest", "Chunks"}
     \/ session.at = "Done" /\ session.applied
     => \A p \in Clean : library_files[p] = sources[p]
  /\ session.at = "Apply" => \A p \in Clean : session.found[p] = sources[p]
  /\ session.at \in {"Load", "Chunks"} =>
       \A p \in Clean : DataOf(written)[p] = sources[p]

(* A committed save that such a file has left behind shows it: in the      *)
(* directory's time, or in an entry that is sure to be sampled.            *)
DriftInv ==
  manifest # Absent =>
    \A p \in Clean :
      /\ manifest = 0 => sources[p] = Absent
      /\ \/ DataOf(written)[p] = sources[p]
         \/ directory_newer
         \/ AllSampled /\ written[p] # Absent

(* The inductive invariant.                                                *)
LibraryInv ==
  /\ StoreTyped /\ SessionTyped /\ BoundsTyped
  /\ ManifestInv /\ SaveInv /\ ReadInv
  /\ HonestInv /\ IndexInv /\ CurrentInv /\ DriftInv

-----------------------------------------------------------------------------
(* Arithmetic and sets.                                                    *)

(* A product grows with its first factor.                                  *)
LEMMA Monotonic ==
  ASSUME NEW x \in Int, NEW y \in Int, NEW d \in Nat, x <= y
  PROVE  x * d <= y * d
OBVIOUS

(* CeilDiv counts the chunks that n entries fill, and no more than n.      *)
LEMMA CeilDivCounts ==
  ASSUME NEW n \in Nat, NEW d \in Nat \ {0}
  PROVE  /\ CeilDiv(n, d) \in Nat
         /\ n <= CeilDiv(n, d) * d
         /\ CeilDiv(n, d) * d < n + d
         /\ CeilDiv(n, d) <= n
<1>1. PICK k \in Nat : k = CeilDiv(n, d)
  BY DEF CeilDiv
<1>2. d * k <= n + d - 1 /\ n + d - 1 < d * k + d
  BY <1>1 DEF CeilDiv
<1>3. d * k = k * d /\ k * d \in Nat
  OBVIOUS
<1>4. n <= k * d /\ k * d < n + d
  BY <1>2, <1>3
<1>5. k <= n
  <2>1. SUFFICES ASSUME k >= n + 1 PROVE FALSE
    OBVIOUS
  <2>2. (n + 1) * d <= k * d
    BY <2>1
  <2>3. (n + 1) * d = n * d + d
    OBVIOUS
  <2>4. n * d >= n /\ n * d \in Nat
    OBVIOUS
  <2>5. QED
    BY <1>3, <1>4, <2>2, <2>3, <2>4
<1>6. QED
  BY <1>1, <1>4, <1>5

LEMMA MinOfTwo ==
  ASSUME NEW x \in Nat, NEW y \in Nat
  PROVE  Min({x, y}) = IF x <= y THEN x ELSE y
BY DEF Min

LEMMA LibraryIsFinite ==
  /\ Cardinality(Library) \in Nat
  /\ \A S \in SUBSET Library : /\ IsFiniteSet(S)
                               /\ Cardinality(S) \in Nat
                               /\ Cardinality(S) <= Cardinality(Library)
BY LibraryCacheAssumption, FS_Subset, FS_CardinalityType

(* Few chunks are few enough to be sampled whole.                          *)
LEMMA AllSampledMeansThree ==
  ASSUME NEW k \in Nat, FewChunks(k), AllSampled
  PROVE  k <= 3
<1>1. ChunkSize \in Nat \ {0} /\ Cardinality(Library) \in Nat
  BY LibraryCacheAssumption, LibraryIsFinite
<1>2. SUFFICES ASSUME k >= 4 PROVE FALSE
  OBVIOUS
<1>3. 4 * ChunkSize <= k * ChunkSize
  BY <1>1, <1>2, Monotonic
<1>4. k * ChunkSize \in Int
  BY <1>1
<1>5. QED
  BY <1>1, <1>3, <1>4 DEF FewChunks, AllSampled

-----------------------------------------------------------------------------
(* Entries.                                                                *)

LEMMA EntryFacts ==
  /\ \A e \in Entry : e # Absent /\ e.stamp \in Versions \cup {Absent} /\ e.data \in Versions
  /\ \A m \in EntryMap, p \in Library : m[p] # Absent => m[p] \in Entry
  /\ \A m \in EntryMap : m # Absent
  /\ \A m \in EntryMap : Held(m) \subseteq Library
BY AbsentAssumption DEF Entry, EntryMap, Held

(* Pieces of the last save that complete it merge to that save.            *)
LEMMA WholeMerges ==
  ASSUME written \in EntryMap, NEW k \in Nat, Pieces(k), Complete({}, k)
  PROVE  Merged({chunks[n] : n \in 0..(k - 1)}) = written
<1> DEFINE C == {chunks[n] : n \in 0..(k - 1)}
<1>1. \A m \in C, p \in Library : m[p] \in {Absent, written[p]}
  BY DEF Pieces, IsPiece
<1>2. ASSUME NEW p \in Library
      PROVE  Merged(C)[p] = written[p]
  <2>1. CASE \E m \in C : m[p] # Absent
    <3>1. (CHOOSE m \in C : m[p] # Absent) \in C
          /\ (CHOOSE m \in C : m[p] # Absent)[p] # Absent
      BY <2>1
    <3>2. (CHOOSE m \in C : m[p] # Absent)[p] = written[p]
      BY <1>1, <3>1
    <3>3. QED
      BY <2>1, <3>2 DEF Merged
  <2>2. CASE ~\E m \in C : m[p] # Absent
    <3>1. written[p] = Absent
      BY <2>2 DEF Complete
    <3>2. QED
      BY <2>2, <3>1 DEF Merged
  <2>3. QED
    BY <2>1, <2>2
<1>3. written = [p \in Library |-> written[p]]
  BY DEF EntryMap
<1>4. Merged(C) = [p \in Library |-> Merged(C)[p]]
  BY DEF Merged
<1>5. QED
  BY <1>2, <1>3, <1>4

(* Any chunks of the last save merge to a part of it.                      *)
LEMMA PartMerges ==
  ASSUME NEW C, \A m \in C, p \in Library : m[p] \in {Absent, written[p]}
  PROVE  \A p \in Library : Merged(C)[p] \in {Absent, written[p]}
<1> SUFFICES ASSUME NEW p \in Library PROVE Merged(C)[p] \in {Absent, written[p]}
  OBVIOUS
<1>1. CASE \E m \in C : m[p] # Absent
  <2>1. (CHOOSE m \in C : m[p] # Absent) \in C
    BY <1>1
  <2>2. QED
    BY <1>1, <2>1 DEF Merged
<1>2. CASE ~\E m \in C : m[p] # Absent
  BY <1>2 DEF Merged
<1>3. QED
  BY <1>1, <1>2

(* A session that has nothing under way but what it is given.              *)
NewSession(x, loaded, found, applied) ==
  [at |-> x, loaded |-> loaded, found |-> found, todo |-> {}, count |-> 0,
   next |-> 0, applied |-> applied]

LEMMA NothingIsTyped ==
  /\ Nothing \in Contents /\ Nothing \in EntryMap
  /\ \A p \in Library : Nothing[p] = Absent
BY DEF Nothing, Contents, EntryMap

LEMMA NewSessionTyped ==
  ASSUME NEW x \in Places, NEW loaded \in SUBSET EntryMap, NEW found \in Contents,
         NEW applied \in BOOLEAN, session' = NewSession(x, loaded, found, applied)
  PROVE  /\ SessionTyped'
         /\ session'.at = x /\ session'.loaded = loaded /\ session'.found = found
         /\ session'.applied = applied /\ session'.next = 0
<1>1. 0 \in 0..Cardinality(Library)
  BY LibraryIsFinite
<1>2. session' \in SessionType
  BY <1>1 DEF NewSession, SessionType
<1>3. QED
  BY <1>2 DEF NewSession, SessionTyped

-----------------------------------------------------------------------------
LEMMA LibraryInitInv == LibraryInit => LibraryInv
<1> SUFFICES ASSUME LibraryInit PROVE LibraryInv
  OBVIOUS
<1> USE LibraryCacheAssumption, LibraryIsFinite
<1>1. Nothing \in Contents /\ Nothing \in EntryMap /\ \A p \in Library : Nothing[p] = Absent
  BY NothingIsTyped
<1>2. StoreTyped
  BY <1>1 DEF LibraryInit, StoreTyped
<1>3. SessionTyped /\ BoundsTyped
  <2>1. NoSession \in SessionType
    BY <1>1 DEF NoSession, SessionType, Places
  <2>2. QED
    BY <2>1 DEF LibraryInit, SessionTyped, BoundsTyped, NoSession
<1>4. ManifestInv /\ SaveInv /\ ReadInv /\ CurrentInv /\ DriftInv
  BY DEF LibraryInit, NoSession, ManifestInv, SaveInv, ReadInv, CurrentInv,
     DriftInv
<1>5. HonestInv /\ IndexInv
  BY <1>1 DEF LibraryInit, HonestInv, IndexInv, Clean
<1>6. QED
  BY <1>2, <1>3, <1>4, <1>5 DEF LibraryInv

-----------------------------------------------------------------------------
(* Steps that only read the cache: they may withdraw the manifest, and     *)
(* leave the files, the chunks and the index alone.                        *)
Reads ==
  /\ UNCHANGED <<sources, directory_newer, chunks, written, library_files>>
  /\ unseen \subseteq unseen'
  /\ manifest' \in {manifest, Absent}
  /\ session'.at # "Down"

LEMMA ReadingKeepsStore ==
  ASSUME LibraryInv, Reads
  PROVE  /\ StoreTyped' /\ ManifestInv' /\ HonestInv' /\ IndexInv' /\ DriftInv'
         /\ Clean' \subseteq Clean
<1>1. StoreTyped' /\ Clean' \subseteq Clean
  BY DEF LibraryInv, StoreTyped, Reads, Clean
<1>2. HonestInv' /\ IndexInv'
  BY <1>1 DEF LibraryInv, Reads, HonestInv, IndexInv
<1>3. ManifestInv'
  BY DEF LibraryInv, Reads, ManifestInv, Pieces, IsPiece, Complete, FewChunks
<1>4. DriftInv'
  BY <1>1 DEF LibraryInv, Reads, DriftInv, DataOf, AllSampled
<1>5. QED
  BY <1>1, <1>2, <1>3, <1>4

(* A session that starts, and one that has no cache to go by.              *)
LEMMA StartKeeps ==
  ASSUME LibraryInv, StartSession
  PROVE  LibraryInv'
<1> USE LibraryCacheAssumption, LibraryIsFinite
<1>1. Reads
  BY DEF StartSession, Reads, theWorld, onDisk, NoSession
<1>2. SessionTyped' /\ BoundsTyped'
  <2>1. session' = NewSession("Manifest", {}, Nothing, FALSE)
    BY DEF StartSession, NoSession, NewSession
  <2>2. SessionTyped'
    BY <2>1, NewSessionTyped, NothingIsTyped DEF Places
  <2>3. BoundsTyped'
    BY DEF LibraryInv, BoundsTyped, StartSession, theWorld
  <2>4. QED
    BY <2>2, <2>3
<1>3. SaveInv' /\ ReadInv' /\ CurrentInv'
  BY DEF StartSession, NoSession, SaveInv, ReadInv, CurrentInv
<1>4. QED
  BY <1>1, <1>2, <1>3, ReadingKeepsStore DEF LibraryInv

(* A manifest that counts no chunk is of a save of nothing, and what has   *)
(* changed since is not seen.                                              *)
LEMMA TryLoadKeeps ==
  ASSUME LibraryInv, TryLoadManifest
  PROVE  LibraryInv'
<1> USE LibraryCacheAssumption, LibraryIsFinite
<1>1. Reads /\ BoundsTyped'
  <2>1. Reads
    BY DEF TryLoadManifest, Reads, theWorld, onDisk, ToSlow, Ended,
       NoSession, LibraryInv,
           SessionTyped, SessionType
  <2>2. BoundsTyped'
    BY DEF TryLoadManifest, LibraryInv, BoundsTyped, theWorld
  <2>3. QED
    BY <2>1, <2>2
<1>2. CASE session' = ToSlow({})
  <2>1. SessionTyped'
    <3>1. session' = NewSession("Slow", {}, Nothing, FALSE)
      BY <1>2 DEF ToSlow, NoSession, NewSession
    <3>2. QED
      BY <3>1, NewSessionTyped, NothingIsTyped DEF Places
  <2>2. SaveInv' /\ ReadInv' /\ CurrentInv'
    BY <1>2 DEF ToSlow, NoSession, SaveInv, ReadInv, CurrentInv
  <2>3. QED
    BY <1>1, <2>1, <2>2, ReadingKeepsStore DEF LibraryInv
<1>3. CASE HasManifest /\ manifest = 0 /\ session' = Ended(TRUE)
  <2>1. SessionTyped'
    <3>1. session' = NewSession("Done", {}, Nothing, TRUE)
      BY <1>3 DEF Ended, NoSession, NewSession
    <3>2. QED
      BY <3>1, NewSessionTyped, NothingIsTyped DEF Places
  <2>2. SaveInv' /\ ReadInv'
    BY <1>3 DEF Ended, NoSession, SaveInv, ReadInv
  <2>3. CurrentInv'
    BY <1>1, <1>3 DEF Ended, NoSession, CurrentInv, HasManifest, LibraryInv,
       DriftInv, IndexInv,
                      Reads, Clean
  <2>4. QED
    BY <1>1, <2>1, <2>2, <2>3, ReadingKeepsStore DEF LibraryInv
<1>4. CASE /\ HasManifest /\ manifest > 0
           /\ session' = [session EXCEPT !.at = "Fresh", !.count = manifest, !.next = 1,
                                         !.loaded = {chunks[0]}]
  <2>1. manifest \in 1..Cardinality(Library)
    BY <1>4 DEF LibraryInv, StoreTyped, HasManifest
  <2>2. chunks[0] \in EntryMap
    BY <2>1, <1>4 DEF LibraryInv, ManifestInv, Pieces, IsPiece, HasManifest
  <2>3. SessionTyped'
    <3>1. session \in SessionType /\ session.todo \subseteq Held(written)
      BY DEF LibraryInv, SessionTyped
    <3>2. /\ session'.todo = session.todo /\ session'.next = 1
          /\ session'.count = manifest
      BY <1>4, <3>1 DEF SessionType
    <3>3. session' \in SessionType
      <4>1. 1 \in 0..Cardinality(Library) /\ manifest \in 0..Cardinality(Library)
        BY <2>1
      <4>2. {chunks[0]} \in SUBSET EntryMap
        BY <2>2
      <4>3. QED
        BY <1>4, <3>1, <4>1, <4>2 DEF SessionType, Places
    <3>4. QED
      BY <2>1, <3>1, <3>2, <3>3 DEF SessionTyped, TryLoadManifest, Held
  <2>4. /\ session'.at = "Fresh" /\ session'.count = manifest /\ session'.next = 1
        /\ session'.loaded = {chunks[0]}
    BY <1>4 DEF LibraryInv, SessionTyped, SessionType
  <2>5. SaveInv' /\ ReadInv' /\ CurrentInv'
    <3>1. {chunks[0]} = {chunks[n] : n \in 0..(1 - 1)}
      OBVIOUS
    <3>2. UNCHANGED <<manifest, chunks>>
      BY DEF TryLoadManifest, onDisk
    <3>3. QED
      BY <1>4, <2>4, <3>1, <3>2 DEF SaveInv, ReadInv, CurrentInv, HasManifest
  <2>6. QED
    BY <1>1, <2>3, <2>5, ReadingKeepsStore DEF LibraryInv
<1>5. QED
  BY <1>2, <1>3, <1>4 DEF TryLoadManifest

-----------------------------------------------------------------------------
(* The freshness check.                                                    *)

(* Where every entry is sure to be sampled, a sample that is fresh is the  *)
(* whole chunk, and it is fresh.                                           *)
LEMMA FreshSampleIsWhole ==
  ASSUME LibraryInv, AllSampled, NEW k \in Nat, Pieces(k), NEW n \in 0..(k - 1),
         SampleMayBeFresh(n)
  PROVE  \A p \in Held(chunks[n]) : EntryIsFresh(chunks[n][p], p)
<1> DEFINE held == Held(chunks[n])
<1>1. chunks[n] \in EntryMap /\ Cardinality(held) <= ChunkSize
  BY DEF Pieces, IsPiece
<1>2. held \in SUBSET Library /\ chunks[n] # Absent
  BY <1>1, EntryFacts
<1>3. IsFiniteSet(held) /\ Cardinality(held) \in Nat
  BY <1>2, LibraryIsFinite
<1>4. SampleLimit \in Nat /\ ChunkSize \in Nat /\ SampleLimit >= ChunkSize
  BY LibraryCacheAssumption DEF AllSampled
<1>5. Min({SampleLimit, Cardinality(held)}) = Cardinality(held)
  <2>1. Cardinality(held) <= SampleLimit
    BY <1>1, <1>3, <1>4
  <2>2. CASE SampleLimit = Cardinality(held)
    BY <1>3, <1>4, <2>2, MinOfTwo
  <2>3. CASE SampleLimit # Cardinality(held)
    BY <1>3, <1>4, <2>1, <2>3, MinOfTwo
  <2>4. QED
    BY <2>2, <2>3
<1>6. PICK S \in kSubset(Cardinality(held), held) : \A p \in S : EntryIsFresh(chunks[n][p], p)
  BY <1>2, <1>5 DEF SampleMayBeFresh, Samples
<1>7. S = held
  BY <1>3, <1>6, FS_Subset DEF kSubset
<1>8. QED
  BY <1>6, <1>7

(* A cache that passes the check is current for every file whose changes   *)
(* the check can see.                                                      *)
LEMMA FreshIsCurrent ==
  ASSUME LibraryInv, CacheIsFresh
  PROVE  \A p \in Clean : DataOf(written)[p] = sources[p]
<1> SUFFICES ASSUME NEW p \in Clean, DataOf(written)[p] # sources[p]
             PROVE  FALSE
  OBVIOUS
<1>1. /\ manifest # Absent /\ session.count = manifest /\ session.next > 0
      /\ session.next <= session.count /\ session.next \in Nat
      /\ manifest \in 1..Cardinality(Library)
  BY DEF LibraryInv, ReadInv, SessionTyped, SessionType, StoreTyped,
     CacheIsFresh
<1>2. p \in Library /\ AllSampled /\ written[p] # Absent
  BY <1>1 DEF LibraryInv, DriftInv, CacheIsFresh, Clean
<1>3. /\ Pieces(manifest) /\ Complete({}, manifest) /\ FewChunks(manifest)
      /\ manifest \in Nat
  BY <1>1 DEF LibraryInv, ManifestInv
<1>4. PICK n \in 0..(manifest - 1) : chunks[n][p] = written[p]
  BY <1>2, <1>3 DEF Complete
<1>5. n \in Sampled
  <2>1. manifest \in {1, 2, 3}
    <3>1. manifest <= 3
      BY <1>2, <1>3, AllSampledMeansThree
    <3>2. manifest \in Nat /\ manifest >= 1
      BY <1>1, LibraryIsFinite
    <3>3. QED
      BY <3>1, <3>2
  <2>2. n = 0 \/ n = manifest - 1 \/ (manifest = 3 /\ n = 1)
    BY <1>4, <2>1
  <2>3. 3 \div 2 = 1
    OBVIOUS
  <2>4. CASE n = 0
    BY <2>4 DEF Sampled
  <2>5. CASE n = manifest - 1 /\ manifest > 1
    BY <1>1, <2>5 DEF Sampled
  <2>6. CASE manifest = 3 /\ n = 1
    BY <1>1, <2>3, <2>6 DEF Sampled
  <2>7. QED
    BY <2>1, <2>2, <2>4, <2>5, <2>6
<1>6. EntryIsFresh(chunks[n][p], p)
  <2>1. SampleMayBeFresh(n)
    BY <1>5 DEF CacheIsFresh
  <2>2. p \in Held(chunks[n])
    BY <1>2, <1>4 DEF Held
  <2>3. QED
    BY <1>2, <1>3, <1>4, <2>1, <2>2, FreshSampleIsWhole
<1>7. written[p].data = sources[p]
  BY <1>2, <1>4, <1>6 DEF EntryIsFresh, LibraryInv, HonestInv
<1>8. QED
  BY <1>2, <1>7 DEF DataOf

LEMMA FreshKeeps ==
  ASSUME LibraryInv, CacheIsFresh
  PROVE  LibraryInv'
<1>1. Reads
  BY DEF CacheIsFresh, Reads, theWorld, onDisk, LibraryInv, SessionTyped,
     SessionType
<1>2. /\ session \in SessionType /\ session.at = "Fresh"
      /\ session' = [session EXCEPT !.at = "Load"]
  BY DEF CacheIsFresh, LibraryInv, SessionTyped
<1>3. /\ session' \in SessionType /\ session'.at = "Load"
      /\ session'.next = session.next /\ session'.count = session.count
      /\ session'.loaded = session.loaded /\ session'.todo = session.todo
  BY <1>2 DEF SessionType, Places
<1>4. SessionTyped' /\ BoundsTyped'
  BY <1>3 DEF CacheIsFresh, LibraryInv, SessionTyped, BoundsTyped, theWorld,
     Held
<1>5. UNCHANGED <<manifest, chunks, written, sources>>
  BY DEF CacheIsFresh, onDisk, theWorld
<1>6. SaveInv' /\ ReadInv'
  BY <1>2, <1>3, <1>5 DEF LibraryInv, SaveInv, ReadInv
<1>7. CurrentInv'
  BY <1>1, <1>3, <1>5, FreshIsCurrent, ReadingKeepsStore DEF CurrentInv,
     DataOf
<1>8. QED
  BY <1>1, <1>4, <1>6, <1>7, ReadingKeepsStore DEF LibraryInv

(* A stale cache serves the scan with pieces of the last save.             *)
LEMMA StaleKeeps ==
  ASSUME LibraryInv, CacheIsStale
  PROVE  LibraryInv'
<1> DEFINE loaded == {chunks[n] : n \in 0..(session.count - 1)} \ {Absent}
<1>1. /\ session' = NewSession("Slow", loaded, Nothing, FALSE)
      /\ UNCHANGED <<sources, directory_newer, unseen, library_changes,
                     manifest, chunks,
                     library_files, sessions, written>>
  BY DEF CacheIsStale, ToSlow, NoSession, NewSession, theWorld, onDisk
<1>2. \A m \in loaded : m \in EntryMap /\ \A p \in Library : m[p] \in {Absent, written[p]}
  BY DEF CacheIsStale, LibraryInv, ReadInv, ManifestInv, Pieces, IsPiece
<1>3. /\ SessionTyped' /\ session'.at = "Slow" /\ session'.loaded = loaded
  BY <1>1, <1>2, NewSessionTyped, NothingIsTyped DEF Places
<1>4. BoundsTyped'
  BY <1>1 DEF LibraryInv, BoundsTyped
<1>5. Reads
  BY <1>1, <1>3 DEF Reads
<1>6. SaveInv' /\ ReadInv' /\ CurrentInv'
  BY <1>1, <1>2, <1>3 DEF SaveInv, ReadInv, CurrentInv
<1>7. QED
  BY <1>3, <1>4, <1>5, <1>6, ReadingKeepsStore DEF LibraryInv

-----------------------------------------------------------------------------
(* The fast path.                                                          *)

LEMMA LoadKeeps ==
  ASSUME LibraryInv, LoadChunk
  PROVE  LibraryInv'
<1>1. /\ session \in SessionType /\ session.at = "Load"
      /\ session.next < session.count
      /\ session.next \in Nat /\ session.count \in 0..Cardinality(Library)
      /\ session.todo \subseteq Held(written)
  BY DEF LoadChunk, LibraryInv, SessionTyped, SessionType
<1>2. /\ UNCHANGED <<sources, directory_newer, unseen, library_changes,
                     chunks,
                     library_files, sessions, written>>
      /\ manifest' \in {manifest, Absent}
  BY DEF LoadChunk, theWorld
<1>3. BoundsTyped'
  BY <1>2 DEF LibraryInv, BoundsTyped
<1>4. CASE chunks[session.next] # Absent
  <2>1. /\ session' = [session EXCEPT !.loaded = @ \cup {chunks[session.next]}, !.next = @ + 1]
        /\ manifest' = manifest
    BY <1>4 DEF LoadChunk
  <2>2. chunks[session.next] \in EntryMap /\ session.next + 1 \in 0..Cardinality(Library)
    <3>1. session.next \in ChunkNumbers
      BY <1>1, LibraryIsFinite DEF ChunkNumbers
    <3>2. QED
      BY <1>1, <1>4, <3>1, LibraryIsFinite DEF LibraryInv, StoreTyped
  <2>3. /\ session' \in SessionType /\ session'.at = "Load"
        /\ session'.next = session.next + 1 /\ session'.count = session.count
        /\ session'.loaded = session.loaded \cup {chunks[session.next]}
        /\ session'.todo = session.todo
    <3>1. session.loaded \cup {chunks[session.next]} \in SUBSET EntryMap
      BY <1>1, <2>2 DEF SessionType
    <3>2. QED
      BY <1>1, <2>1, <2>2, <3>1 DEF SessionType
  <2>4. SessionTyped'
    BY <1>1, <1>2, <2>3 DEF SessionTyped, Held
  <2>5. Reads
    BY <1>2, <2>3 DEF Reads
  <2>6. ReadInv'
    <3>1. session'.loaded = {chunks[n] : n \in 0..(session'.next - 1)}
      <4>1. 0..(session'.next - 1) = (0..(session.next - 1)) \cup {session.next}
        BY <1>1, <2>3
      <4>2. session.loaded = {chunks[n] : n \in 0..(session.next - 1)}
        BY <1>1 DEF LibraryInv, ReadInv
      <4>3. QED
        BY <2>3, <4>1, <4>2
    <3>2. QED
      BY <1>1, <1>2, <2>1, <2>3, <3>1 DEF LibraryInv, ReadInv
  <2>7. SaveInv'
    BY <2>3 DEF SaveInv
  <2>8. CurrentInv'
    BY <1>1, <1>2, <2>3 DEF LibraryInv, CurrentInv, DataOf, Clean
  <2>9. QED
    BY <1>3, <2>4, <2>5, <2>6, <2>7, <2>8, ReadingKeepsStore DEF LibraryInv
<1>5. CASE chunks[session.next] = Absent
  <2>1. session' = NewSession("Slow", {}, Nothing, FALSE)
    BY <1>5 DEF LoadChunk, ToSlow, NoSession, NewSession
  <2>2. SessionTyped' /\ session'.at = "Slow" /\ session'.loaded = {}
    BY <2>1, NewSessionTyped, NothingIsTyped DEF Places
  <2>3. Reads
    BY <1>2, <2>2 DEF Reads
  <2>4. SaveInv' /\ ReadInv' /\ CurrentInv'
    BY <2>2 DEF SaveInv, ReadInv, CurrentInv
  <2>5. QED
    BY <1>3, <2>2, <2>3, <2>4, ReadingKeepsStore DEF LibraryInv
<1>6. QED
  BY <1>4, <1>5

-----------------------------------------------------------------------------
(* Steps that bring the index up to date: what they bring is what is on    *)
(* disk, for every file whose changes a session can see.                   *)
LEMMA IndexingKeeps ==
  ASSUME LibraryInv, NEW new \in Contents, \A p \in Clean : new[p] = sources[p],
         library_files' = Over(library_files, new),
         UNCHANGED <<sources, directory_newer, unseen, library_changes,
                     manifest, chunks,
                     sessions, written>>,
         session' = NewSession("Done", {}, Nothing, TRUE)
           \/ session' = NewSession("DeleteManifest", {}, Nothing, FALSE)
  PROVE  LibraryInv'
<1>1. SessionTyped' /\ session'.at \in {"Done", "DeleteManifest"} /\ session'.next = 0
  BY NewSessionTyped, NothingIsTyped DEF Places
<1>2. library_files' \in Contents
  BY DEF Over, Contents, LibraryInv, StoreTyped
<1>3. StoreTyped' /\ BoundsTyped'
  BY <1>2 DEF LibraryInv, StoreTyped, BoundsTyped
<1>4. \A p \in Clean : library_files'[p] = sources[p]
  BY DEF Over, LibraryInv, IndexInv, Clean
<1>5. Clean' = Clean
  BY DEF Clean
<1>6. IndexInv' /\ CurrentInv'
  BY <1>1, <1>4, <1>5 DEF IndexInv, CurrentInv
<1>7. ManifestInv' /\ SaveInv' /\ ReadInv'
  BY <1>1 DEF LibraryInv, ManifestInv, Pieces, IsPiece, Complete, FewChunks,
     SaveInv, ReadInv
<1>8. HonestInv' /\ DriftInv'
  BY <1>5 DEF LibraryInv, HonestInv, DriftInv, DataOf, AllSampled
<1>9. QED
  BY <1>1, <1>3, <1>6, <1>7, <1>8 DEF LibraryInv

(* The fast path restores the whole save, which the check found current.   *)
LEMMA RestoreKeeps ==
  ASSUME LibraryInv, RestoreLibrary
  PROVE  LibraryInv'
<1>1. Merged(session.loaded) = written
  <2>1. /\ manifest # Absent /\ session.next = manifest /\ manifest \in Nat
        /\ session.loaded = {chunks[n] : n \in 0..(manifest - 1)}
    BY DEF RestoreLibrary, LibraryInv, ReadInv, SessionTyped, SessionType
  <2>2. QED
    BY <2>1, WholeMerges DEF LibraryInv, StoreTyped, ManifestInv
<1>2. DataOf(written) \in Contents
  BY EntryFacts DEF DataOf, Contents, LibraryInv, StoreTyped
<1>3. \A p \in Clean : DataOf(written)[p] = sources[p]
  BY DEF RestoreLibrary, LibraryInv, CurrentInv
<1>4. QED
  BY <1>1, <1>2, <1>3, IndexingKeeps
  DEF RestoreLibrary, theWorld, onDisk, Ended, NoSession, NewSession

-----------------------------------------------------------------------------
(* The slow path.                                                          *)

(* What the scan takes from the cache is current: its stamp still fits.    *)
LEMMA ScanKeeps ==
  ASSUME LibraryInv, ScanSourcePathsSlow
  PROVE  LibraryInv'
<1> DEFINE cached == Merged(session.loaded)
           hits == {p \in Library : cached[p] # Absent /\ EntryIsFresh(cached[p], p)}
           present == {p \in Library : sources[p] # Absent}
           found(lost) == [p \in Library |-> IF p \in hits THEN cached[p].data
                                             ELSE IF p \in lost THEN Absent
                                             ELSE sources[p]]
<1>1. PICK lost \in SUBSET (present \ hits) :
        /\ session' = NewSession("Apply", {}, found(lost), FALSE)
        /\ unseen' = unseen \cup lost
  BY DEF ScanSourcePathsSlow, NoSession, NewSession
<1>s. UNCHANGED <<sources, directory_newer, library_changes, manifest, chunks,
                  library_files, sessions, written>>
  BY DEF ScanSourcePathsSlow, onDisk
<1>2. \A p \in Library : cached[p] \in {Absent, written[p]}
  <2>1. \A m \in session.loaded, p \in Library : m[p] \in {Absent, written[p]}
    BY DEF ScanSourcePathsSlow, LibraryInv, ReadInv
  <2>2. QED
    BY <2>1, PartMerges
<1>3. found(lost) \in Contents
  <2>1. ASSUME NEW p \in Library, cached[p] # Absent PROVE cached[p].data \in Versions
    <3>1. cached[p] = written[p] /\ written[p] # Absent /\ written \in EntryMap
      BY <1>2, <2>1 DEF LibraryInv, StoreTyped
    <3>2. QED
      BY <3>1, EntryFacts
  <2>2. sources \in Contents
    BY DEF LibraryInv, StoreTyped
  <2>3. QED
    BY <2>1, <2>2 DEF Contents
<1>c. Clean' \subseteq Clean \ lost
  BY <1>1 DEF Clean
<1>4. \A p \in Clean' : found(lost)[p] = sources[p]
  BY <1>2, <1>c DEF EntryIsFresh, LibraryInv, HonestInv, Clean
<1>5. /\ SessionTyped' /\ session'.at = "Apply" /\ session'.found = found(lost)
  BY <1>1, <1>3, NewSessionTyped DEF Places
<1>6. Reads /\ BoundsTyped'
  <2>1. unseen' \subseteq Library
    BY <1>1 DEF LibraryInv, BoundsTyped
  <2>2. QED
    BY <1>1, <1>s, <1>5, <2>1 DEF Reads, LibraryInv, BoundsTyped
<1>7. SaveInv' /\ ReadInv'
  BY <1>5 DEF SaveInv, ReadInv
<1>8. CurrentInv'
  BY <1>s, <1>4, <1>5 DEF CurrentInv
<1>9. QED
  BY <1>5, <1>6, <1>7, <1>8, ReadingKeepsStore DEF LibraryInv

LEMMA SupersededKeeps ==
  ASSUME LibraryInv, ScanSuperseded
  PROVE  LibraryInv'
<1>1. /\ session' = NewSession("Done", {}, Nothing, FALSE)
      /\ UNCHANGED <<sources, directory_newer, unseen, library_changes,
                     manifest, chunks,
                     library_files, sessions, written>>
  BY DEF ScanSuperseded, Ended, NoSession, NewSession, theWorld, onDisk
<1>2. SessionTyped' /\ session'.at = "Done" /\ session'.applied = FALSE
  BY <1>1, NewSessionTyped, NothingIsTyped DEF Places
<1>3. Reads /\ BoundsTyped'
  BY <1>1, <1>2 DEF Reads, LibraryInv, BoundsTyped
<1>4. SaveInv' /\ ReadInv' /\ CurrentInv'
  BY <1>2 DEF SaveInv, ReadInv, CurrentInv
<1>5. QED
  BY <1>2, <1>3, <1>4, ReadingKeepsStore DEF LibraryInv

LEMMA ApplyKeeps ==
  ASSUME LibraryInv, ApplySourcePathScan
  PROVE  LibraryInv'
<1>1. session.found \in Contents /\ \A p \in Clean : session.found[p] = sources[p]
  BY DEF ApplySourcePathScan, LibraryInv, CurrentInv, SessionTyped,
     SessionType
<1>2. QED
  BY <1>1, IndexingKeeps
  DEF ApplySourcePathScan, theWorld, onDisk, NoSession, NewSession

-----------------------------------------------------------------------------
(* The save.                                                               *)

(* It begins by withdrawing the manifest; the entries fill the chunks it   *)
(* is going to write.                                                      *)
LEMMA BeginSaveKeeps ==
  ASSUME LibraryInv, BeginSave
  PROVE  LibraryInv'
<1> USE LibraryCacheAssumption
<1>0. PICK held : held = Held(library_files)
  OBVIOUS
<1>1. /\ session.at = "DeleteManifest" /\ session \in SessionType
      /\ manifest' = Absent
      /\ written' = [p \in Library |-> IF library_files[p] = Absent THEN Absent
                       ELSE [stamp |-> sources[p], data |-> library_files[p]]]
      /\ session' = [session EXCEPT !.at = "Chunks", !.todo = held,
                       !.count = CeilDiv(Cardinality(held), ChunkSize)]
      /\ unseen' = {p \in unseen : library_files[p] # sources[p]}
      /\ UNCHANGED <<sources, directory_newer, library_changes, chunks,
                     library_files, sessions>>
  BY <1>0 DEF BeginSave, BeginSaveLeaving, LibraryInv, SessionTyped
<1>2. held \in SUBSET Library /\ Cardinality(held) \in 0..Cardinality(Library)
  BY <1>0, LibraryIsFinite DEF Held
<1>3. session.next = 0
  BY <1>1 DEF LibraryInv, SaveInv
<1>4. /\ CeilDiv(Cardinality(held), ChunkSize) \in 0..Cardinality(Library)
      /\ Cardinality(held) <= CeilDiv(Cardinality(held), ChunkSize) * ChunkSize
      /\ FewChunks(CeilDiv(Cardinality(held), ChunkSize))
  <2>1. /\ CeilDiv(Cardinality(held), ChunkSize) \in Nat
        /\ Cardinality(held) <= CeilDiv(Cardinality(held), ChunkSize) * ChunkSize
        /\ CeilDiv(Cardinality(held), ChunkSize) * ChunkSize < Cardinality(held) + ChunkSize
        /\ CeilDiv(Cardinality(held), ChunkSize) <= Cardinality(held)
    BY <1>2, CeilDivCounts
  <2>2. CeilDiv(Cardinality(held), ChunkSize) * ChunkSize \in Int
    BY <2>1
  <2>3. QED
    BY <1>2, <2>1, <2>2, LibraryIsFinite DEF FewChunks
<1>5. /\ session' \in SessionType /\ session'.at = "Chunks" /\ session'.todo = held
      /\ session'.count = CeilDiv(Cardinality(held), ChunkSize) /\ session'.next = 0
  <2>1. "Chunks" \in Places
    BY DEF Places
  <2>2. QED
    BY <1>1, <1>2, <1>3, <1>4, <2>1 DEF SessionType
<1>6. /\ written' \in EntryMap
      /\ \A p \in Library : written'[p] # Absent <=> library_files[p] # Absent
      /\ \A p \in Library : library_files[p] # Absent =>
           written'[p].stamp = sources[p] /\ written'[p].data = library_files[p]
  <2>1. ASSUME NEW p \in Library, library_files[p] # Absent
        PROVE  [stamp |-> sources[p], data |-> library_files[p]] \in Entry
    BY <2>1 DEF LibraryInv, StoreTyped, Contents, Entry
  <2>2. QED
    BY <1>1, <2>1, EntryFacts DEF EntryMap
<1>7. StoreTyped' /\ SessionTyped' /\ BoundsTyped'
  <2>1. StoreTyped'
    BY <1>1, <1>6 DEF LibraryInv, StoreTyped
  <2>2. held \subseteq Held(written')
    BY <1>0, <1>6 DEF Held
  <2>3. SessionTyped'
    BY <1>4, <1>5, <2>2 DEF SessionTyped, Held
  <2>4. BoundsTyped'
    BY <1>1 DEF LibraryInv, BoundsTyped
  <2>5. QED
    BY <2>1, <2>3, <2>4
<1>8. ManifestInv' /\ ReadInv' /\ DriftInv'
  BY <1>1, <1>5 DEF ManifestInv, ReadInv, DriftInv
<1>9. SaveInv'
  <2>1. Pieces(0)' /\ Complete(held, 0)'
    BY <1>0, <1>6 DEF Pieces, IsPiece, Complete, Held
  <2>2. CeilDiv(Cardinality(held), ChunkSize) - 0 = CeilDiv(Cardinality(held), ChunkSize)
    BY <1>4
  <2>3. QED
    BY <1>1, <1>4, <1>5, <2>1, <2>2 DEF SaveInv, Pieces, IsPiece, Complete,
       FewChunks
<1>10. HonestInv' /\ IndexInv' /\ CurrentInv'
  <2>1. Clean' \subseteq Library
    BY DEF Clean
  <2>2. \A p \in Clean' : library_files[p] = sources[p]
    BY <1>1 DEF LibraryInv, CurrentInv, Clean
  <2>3. HonestInv'
    BY <1>6, <2>1, <2>2 DEF HonestInv
  <2>4. IndexInv'
    BY <1>1, <1>5, <2>1, <2>2 DEF IndexInv
  <2>5. CurrentInv'
    <3>1. \A p \in Clean' : DataOf(written')[p] = sources[p]
      BY <1>6, <2>1, <2>2 DEF DataOf
    <3>2. QED
      BY <1>1, <1>5, <2>1, <2>2, <3>1 DEF CurrentInv, DataOf
  <2>6. QED
    BY <2>3, <2>4, <2>5
<1>11. QED
  BY <1>7, <1>8, <1>9, <1>10 DEF LibraryInv

(* A step that leaves the index and the files alone keeps what is said of  *)
(* them.                                                                   *)
LEMMA ContentStays ==
  ASSUME LibraryInv, session.at = "Chunks", session'.at \in {"Chunks", "Done"},
         UNCHANGED <<sources, unseen, library_files, written>>
  PROVE  HonestInv' /\ IndexInv' /\ CurrentInv' /\ ReadInv'
<1>1. Clean' = Clean /\ DataOf(written)' = DataOf(written)
  BY DEF Clean, DataOf
<1>2. HonestInv' /\ IndexInv' /\ CurrentInv'
  BY <1>1 DEF LibraryInv, HonestInv, IndexInv, CurrentInv
<1>3. ReadInv'
  BY DEF ReadInv
<1>4. QED
  BY <1>2, <1>3

(* A chunk takes as much of what is to do as it holds.                     *)
LEMMA WriteChunkKeeps ==
  ASSUME LibraryInv, WriteChunk
  PROVE  LibraryInv'
<1> USE LibraryCacheAssumption
<1>1. /\ session.at = "Chunks" /\ session \in SessionType
      /\ session.next \in Nat /\ session.count \in 0..Cardinality(Library)
      /\ session.next < session.count
      /\ session.todo \in SUBSET Library /\ session.todo \subseteq Held(written)
      /\ written \in EntryMap
      /\ manifest = Absent
      /\ UNCHANGED <<sources, directory_newer, unseen, library_changes,
                     manifest,
                     library_files, sessions, written>>
  BY DEF WriteChunk, LibraryInv, SessionTyped, SessionType, StoreTyped,
     SaveInv, theWorld
<1>2. IsFiniteSet(session.todo) /\ Cardinality(session.todo) \in Nat
  BY <1>1, LibraryIsFinite
<1>3. PICK S \in kSubset(Min({ChunkSize, Cardinality(session.todo)}), session.todo) :
        /\ chunks' = [chunks EXCEPT ![session.next] =
                        [p \in Library |-> IF p \in S THEN written[p] ELSE Absent]]
        /\ session' = [session EXCEPT !.todo = @ \ S, !.next = @ + 1]
  BY DEF WriteChunk
<1> DEFINE piece == [p \in Library |-> IF p \in S THEN written[p] ELSE Absent]
<1>4. /\ S \in SUBSET session.todo
      /\ Cardinality(S) = IF ChunkSize <= Cardinality(session.todo)
                          THEN ChunkSize ELSE Cardinality(session.todo)
  BY <1>2, <1>3, MinOfTwo DEF kSubset
<1>5. piece \in EntryMap /\ Held(piece) = S
  BY <1>1, <1>4, EntryFacts DEF EntryMap, Held
<1>6. /\ session.next \in ChunkNumbers
      /\ chunks' \in [ChunkNumbers -> EntryMap \cup {Absent}]
      /\ chunks'[session.next] = piece
      /\ \A n \in 0..(session.next - 1) : chunks'[n] = chunks[n]
  <2>1. chunks \in [ChunkNumbers -> EntryMap \cup {Absent}]
    BY DEF LibraryInv, StoreTyped
  <2>2. session.next \in ChunkNumbers /\ 0..(session.next - 1) \subseteq ChunkNumbers
    BY <1>1, LibraryIsFinite DEF ChunkNumbers
  <2>3. QED
    BY <1>3, <1>5, <2>1, <2>2
<1>7. /\ session' \in SessionType /\ session'.at = "Chunks"
      /\ session'.todo = session.todo \ S /\ session'.next = session.next + 1
      /\ session'.count = session.count
  <2>1. session.next + 1 \in 0..Cardinality(Library) /\ session.todo \ S \in SUBSET Library
    BY <1>1, LibraryIsFinite
  <2>2. QED
    BY <1>1, <1>3, <2>1 DEF SessionType
<1>8. StoreTyped' /\ SessionTyped' /\ BoundsTyped'
  <2>1. StoreTyped'
    BY <1>1, <1>6 DEF LibraryInv, StoreTyped
  <2>2. SessionTyped'
    BY <1>1, <1>7 DEF SessionTyped, Held
  <2>3. BoundsTyped'
    BY <1>1 DEF LibraryInv, BoundsTyped
  <2>4. QED
    BY <2>1, <2>2, <2>3
<1>9. PICK next \in Nat, left \in SUBSET Library :
        next = session.next /\ left = session.todo \ S
  BY <1>1
<1>10. Pieces(next + 1)'
  <2>1. Cardinality(S) <= ChunkSize
    BY <1>2, <1>4
  <2>2. \A p \in Library : piece[p] \in {Absent, written[p]}
    OBVIOUS
  <2>3. 0..(next + 1 - 1) = 0..(next - 1) \cup {next}
    BY <1>1, <1>9
  <2>4. Pieces(next)
    BY <1>1, <1>9 DEF LibraryInv, SaveInv
  <2>5. ASSUME NEW n \in 0..(next + 1 - 1)
        PROVE  IsPiece(n)'
    <3>1. CASE n \in 0..(next - 1)
      <4>1. IsPiece(n) /\ chunks'[n] = chunks[n]
        BY <1>6, <1>9, <2>4, <3>1 DEF Pieces
      <4>2. QED
        BY <1>1, <4>1 DEF IsPiece, Held
    <3>2. CASE n = next
      <4>1. chunks'[n] = piece
        BY <1>6, <1>9, <3>2
      <4>2. {p \in Library : chunks'[n][p] # Absent} = S
        BY <1>5, <4>1 DEF Held
      <4>3. QED
        BY <1>1, <1>5, <2>1, <2>2, <4>1, <4>2 DEF IsPiece, Held
    <3>3. QED
      BY <2>3, <3>1, <3>2
  <2>6. QED
    BY <2>5 DEF Pieces, IsPiece
<1>11. Complete(left, next + 1)'
  <2>0. written' = written
    BY <1>1
  <2> SUFFICES ASSUME NEW p \in Library, written[p] # Absent, p \notin left
               PROVE  \E n \in 0..(next + 1 - 1) : chunks'[n][p] = written[p]
    BY <2>0 DEF Complete
  <2>1. CASE p \in S
    BY <1>1, <1>6, <1>9, <2>1
  <2>2. CASE p \notin S
    <3>1. PICK n \in 0..(next - 1) : chunks[n][p] = written[p]
      BY <1>1, <1>9, <2>2 DEF LibraryInv, SaveInv, Complete
    <3>2. n \in 0..(next + 1 - 1)
      BY <1>1, <1>9
    <3>3. QED
      BY <1>6, <1>9, <3>1, <3>2
  <2>3. QED
    BY <2>1, <2>2
<1>12. Cardinality(session.todo \ S) <= (session.count - (session.next + 1)) * ChunkSize
  <2> DEFINE room == session.count - session.next
  <2>1. Cardinality(session.todo \ S) = Cardinality(session.todo) - Cardinality(S)
    <3>1. IsFiniteSet(S) /\ session.todo \cap S = S
      BY <1>2, <1>4, FS_Subset
    <3>2. QED
      BY <1>2, <3>1, FS_Difference
  <2>2. Cardinality(session.todo) <= room * ChunkSize
    BY <1>1 DEF LibraryInv, SaveInv
  <2>3. /\ (room - 1) * ChunkSize = room * ChunkSize - ChunkSize
        /\ room * ChunkSize \in Int
        /\ session.count - (session.next + 1) = room - 1
    BY <1>1, LibraryIsFinite
  <2>4. 0 <= (room - 1) * ChunkSize
    <3>1. room - 1 \in Nat
      BY <1>1, LibraryIsFinite
    <3>2. QED
      BY <3>1
  <2>5. CASE ChunkSize <= Cardinality(session.todo)
    BY <1>2, <1>4, <2>1, <2>2, <2>3, <2>5
  <2>6. CASE ~(ChunkSize <= Cardinality(session.todo))
    BY <1>2, <1>4, <2>1, <2>3, <2>4, <2>6
  <2>7. QED
    BY <2>5, <2>6
<1>13. SaveInv'
  <2>1. FewChunks(session.count)
    BY <1>1 DEF LibraryInv, SaveInv
  <2>2. QED
    BY <1>1, <1>7, <1>9, <1>10, <1>11, <1>12, <2>1 DEF SaveInv, Pieces,
       IsPiece, Complete, FewChunks
<1>14. ManifestInv' /\ DriftInv'
  BY <1>1 DEF ManifestInv, DriftInv
<1>15. QED
  BY <1>1, <1>7, <1>8, <1>13, <1>14, ContentStays DEF LibraryInv

(* A save that gives up leaves no manifest.                                *)
LEMMA WriteFailsKeeps ==
  ASSUME LibraryInv, WriteChunkFails
  PROVE  LibraryInv'
<1>1. /\ session.at = "Chunks" /\ manifest = Absent
      /\ chunks' = [chunks EXCEPT ![session.next] = Absent]
      /\ session' = NewSession("Done", {}, Nothing, TRUE)
      /\ UNCHANGED <<sources, directory_newer, unseen, library_changes,
                     manifest,
                     library_files, sessions, written>>
  BY DEF WriteChunkFails, LibraryInv, SaveInv, theWorld, Ended, NoSession,
     NewSession
<1>2. SessionTyped' /\ session'.at = "Done"
  BY <1>1, NewSessionTyped, NothingIsTyped DEF Places
<1>3. StoreTyped' /\ BoundsTyped'
  BY <1>1 DEF LibraryInv, StoreTyped, BoundsTyped
<1>4. ManifestInv' /\ DriftInv' /\ SaveInv'
  BY <1>1, <1>2 DEF ManifestInv, DriftInv, SaveInv
<1>5. QED
  BY <1>1, <1>2, <1>3, <1>4, ContentStays DEF LibraryInv

(* The manifest comes back when nothing is left to do.                     *)
LEMMA CommitKeeps ==
  ASSUME LibraryInv, CommitManifest
  PROVE  LibraryInv'
<1> USE LibraryCacheAssumption
<1>1. /\ session.at = "Chunks" /\ session.next = session.count
      /\ session.count \in 0..Cardinality(Library)
      /\ session.todo \in SUBSET Library
      /\ manifest' = session.count /\ directory_newer' = FALSE
      /\ session' = NewSession("Done", {}, Nothing, TRUE)
      /\ UNCHANGED <<sources, unseen, library_changes, chunks, library_files,
                     sessions, written>>
  BY DEF CommitManifest, LibraryInv, SessionTyped, SessionType, Ended,
     NoSession,
         NewSession
<1>2. SessionTyped' /\ session'.at = "Done"
  BY <1>1, NewSessionTyped, NothingIsTyped DEF Places
<1>3. StoreTyped' /\ BoundsTyped'
  BY <1>1 DEF LibraryInv, StoreTyped, BoundsTyped
<1>4. session.todo = {}
  <2>1. (session.count - session.next) * ChunkSize = 0
    <3>1. session.count - session.next = 0
      BY <1>1, LibraryIsFinite
    <3>2. QED
      BY <3>1
  <2>2. Cardinality(session.todo) <= 0
    BY <1>1, <2>1 DEF LibraryInv, SaveInv
  <2>3. IsFiniteSet(session.todo) /\ Cardinality(session.todo) \in Nat
    BY <1>1, LibraryIsFinite
  <2>4. QED
    BY <2>2, <2>3, FS_EmptySet
<1>5. Pieces(session.count) /\ Complete({}, session.count) /\ FewChunks(session.count)
  BY <1>1, <1>4 DEF LibraryInv, SaveInv
<1>6. ManifestInv' /\ SaveInv'
  BY <1>1, <1>2, <1>5 DEF ManifestInv, SaveInv, Pieces, IsPiece, Complete,
     FewChunks
<1>7. DriftInv'
  <2>1. Clean' = Clean /\ Clean \subseteq Library /\ DataOf(written)' = DataOf(written)
    BY <1>1 DEF Clean, DataOf
  <2>2. \A p \in Clean : DataOf(written)[p] = sources[p]
    BY <1>1 DEF LibraryInv, CurrentInv
  <2>3. session.count = 0 => \A p \in Library : written[p] = Absent
    BY <1>5 DEF Complete
  <2>4. session.count = 0 => \A p \in Library : DataOf(written)[p] = Absent
    BY <2>3 DEF DataOf
  <2>5. QED
    BY <1>1, <2>1, <2>2, <2>4 DEF DriftInv
<1>8. QED
  BY <1>1, <1>2, <1>3, <1>6, <1>7, ContentStays DEF LibraryInv

-----------------------------------------------------------------------------
(* The end of a session forgets the index; the cache stays.                *)
LEMMA EndSessionKeeps ==
  ASSUME LibraryInv, EndSession
  PROVE  LibraryInv'
<1>1. /\ session' = NewSession("Down", {}, Nothing, FALSE)
      /\ library_files' = Nothing
      /\ UNCHANGED <<sources, directory_newer, unseen, library_changes,
                     manifest, chunks,
                     sessions, written>>
  BY DEF EndSession, theWorld, onDisk, NoSession, NewSession
<1>2. SessionTyped' /\ session'.at = "Down"
  BY <1>1, NewSessionTyped, NothingIsTyped DEF Places
<1>3. StoreTyped' /\ BoundsTyped' /\ Clean' = Clean /\ Clean \subseteq Library
  BY <1>1, NothingIsTyped DEF LibraryInv, StoreTyped, BoundsTyped, Clean
<1>4. ManifestInv' /\ SaveInv' /\ ReadInv' /\ CurrentInv'
  BY <1>1, <1>2 DEF LibraryInv, ManifestInv, Pieces, IsPiece, Complete,
     FewChunks, SaveInv, ReadInv,
                    CurrentInv
<1>5. HonestInv' /\ DriftInv'
  BY <1>1, <1>3 DEF LibraryInv, HonestInv, DriftInv, DataOf, AllSampled
<1>6. IndexInv'
  BY <1>1, <1>3, NothingIsTyped DEF IndexInv
<1>7. QED
  BY <1>2, <1>3, <1>4, <1>5, <1>6 DEF LibraryInv

(* A change from outside is one that the next check can see, or counts as  *)
(* unseen from then on.                                                    *)
LEMMA ChangeKeeps ==
  ASSUME LibraryInv, NEW q \in Library, NEW v \in Versions \cup {Absent},
         ChangeLibrary(q, v)
  PROVE  LibraryInv'
<1>1. /\ sources' = [sources EXCEPT ![q] = v]
      /\ directory_newer' = (\/ directory_newer
                             \/ (q \notin Nested /\ Absent \in {v, sources[q]}))
      /\ library_changes < MaxLibraryChanges /\ library_changes' = library_changes + 1
      /\ UNCHANGED <<manifest, chunks, library_files, session, sessions,
                     written>>
  BY DEF ChangeLibrary, onDisk
<1>2. /\ unseen' \in {unseen, unseen \cup {q}}
      /\ Clean' \subseteq Clean /\ Clean \subseteq Library
      /\ \A p \in Library \ {q} : sources'[p] = sources[p]
  BY <1>1 DEF ChangeLibrary, Clean, LibraryInv, StoreTyped, Contents
<1>3. q \in Clean' =>
        /\ session.at = "Down" /\ manifest # 0
        /\ sources[q] = Absent => directory_newer'
        /\ sources[q] # Absent => AllSampled
  BY <1>1 DEF ChangeLibrary, Clean
<1>4. StoreTyped'
  <2>1. sources' \in Contents
    BY <1>1 DEF LibraryInv, StoreTyped, Contents
  <2>2. directory_newer' \in BOOLEAN
    BY <1>1 DEF LibraryInv, StoreTyped
  <2>3. QED
    BY <1>1, <2>1, <2>2 DEF LibraryInv, StoreTyped
<1>5. SessionTyped' /\ BoundsTyped'
  <2>1. library_changes' \in 0..MaxLibraryChanges
    BY <1>1, LibraryCacheAssumption DEF LibraryInv, BoundsTyped
  <2>2. QED
    BY <1>1, <1>2, <2>1 DEF LibraryInv, SessionTyped, BoundsTyped, Held
<1>6. ManifestInv' /\ SaveInv' /\ ReadInv'
  BY <1>1 DEF LibraryInv, ManifestInv, SaveInv, ReadInv, Pieces, IsPiece,
     Complete, FewChunks
<1>7. HonestInv'
  BY <1>1, <1>2 DEF LibraryInv, HonestInv
<1>8. IndexInv'
  <2>1. session.at = "Down" => library_files = Nothing
    BY DEF LibraryInv, IndexInv
  <2>2. q \in Clean' => library_files[q] = Absent
    BY <1>2, <1>3, <2>1, NothingIsTyped
  <2>3. \A p \in Clean' : library_files'[p] \in {Absent, sources'[p]}
    BY <1>1, <1>2, <2>2 DEF LibraryInv, IndexInv
  <2>4. QED
    BY <1>1, <2>1, <2>3 DEF IndexInv
<1>9. CurrentInv'
  <2>1. session.at # "Down" => Clean' \subseteq Clean \ {q}
    BY <1>2, <1>3
  <2>2. QED
    BY <1>1, <1>2, <2>1 DEF LibraryInv, CurrentInv, DataOf
<1>10. DriftInv'
  <2> SUFFICES ASSUME manifest # Absent, NEW p \in Clean'
               PROVE  /\ manifest = 0 => sources'[p] = Absent
                      /\ \/ DataOf(written)[p] = sources'[p]
                         \/ directory_newer'
                         \/ AllSampled /\ written[p] # Absent
    BY <1>1 DEF DriftInv, DataOf, AllSampled
  <2>1. p \in Clean
    BY <1>2
  <2>2. /\ manifest = 0 => sources[p] = Absent
        /\ \/ DataOf(written)[p] = sources[p]
           \/ directory_newer
           \/ AllSampled /\ written[p] # Absent
    BY <2>1 DEF LibraryInv, DriftInv
  <2>3. CASE p # q
    BY <1>1, <1>2, <2>2, <2>3
  <2>4. CASE p = q
    <3>1. CASE sources[q] = Absent
      BY <1>3, <2>4, <3>1
    <3>2. CASE sources[q] # Absent
      <4>1. DataOf(written)[p] = sources[p] => written[p] # Absent
        BY <1>2, <2>1, <2>4, <3>2 DEF DataOf
      <4>2. QED
        BY <1>1, <1>3, <2>2, <2>4, <3>2, <4>1
    <3>3. QED
      BY <3>1, <3>2
  <2>5. QED
    BY <2>3, <2>4
<1>11. QED
  BY <1>4, <1>5, <1>6, <1>7, <1>8, <1>9, <1>10 DEF LibraryInv

-----------------------------------------------------------------------------
(* Every step keeps the inductive invariant.                               *)
LEMMA LibraryNextInv ==
  LibraryInv /\ [LibraryNext]_libraryVars => LibraryInv'
<1> SUFFICES ASSUME LibraryInv, [LibraryNext]_libraryVars
             PROVE  LibraryInv'
  OBVIOUS
<1>1. CASE \/ StartSession \/ TryLoadManifest \/ CacheIsFresh \/ CacheIsStale
           \/ LoadChunk \/ RestoreLibrary
  BY <1>1, StartKeeps, TryLoadKeeps, FreshKeeps, StaleKeeps, LoadKeeps,
     RestoreKeeps
<1>2. CASE ScanSourcePathsSlow \/ ScanSuperseded \/ ApplySourcePathScan
  BY <1>2, ScanKeeps, SupersededKeeps, ApplyKeeps
<1>3. CASE BeginSave \/ WriteChunk \/ WriteChunkFails \/ CommitManifest
  BY <1>3, BeginSaveKeeps, WriteChunkKeeps, WriteFailsKeeps, CommitKeeps
<1>4. CASE EndSession
  BY <1>4, EndSessionKeeps
<1>5. CASE \E p \in Library, v \in Versions \cup {Absent} : ChangeLibrary(p, v)
  BY <1>5, ChangeKeeps
<1>6. CASE UNCHANGED libraryVars
  <2>1. StoreTyped' /\ SessionTyped' /\ BoundsTyped'
    BY <1>6 DEF libraryVars, LibraryInv, StoreTyped, SessionTyped,
       BoundsTyped, Held
  <2>2. ManifestInv' /\ SaveInv' /\ ReadInv'
    BY <1>6 DEF libraryVars, LibraryInv, ManifestInv, SaveInv, ReadInv,
       Pieces, IsPiece, Complete,
                FewChunks
  <2>3. HonestInv' /\ IndexInv' /\ CurrentInv' /\ DriftInv'
    BY <1>6 DEF libraryVars, LibraryInv, HonestInv, IndexInv, CurrentInv,
       DriftInv, Clean,
                DataOf, AllSampled
  <2>4. QED
    BY <2>1, <2>2, <2>3 DEF LibraryInv
<1>7. QED
  BY <1>1, <1>2, <1>3, <1>4, <1>5, <1>6 DEF LibraryNext

-----------------------------------------------------------------------------
(* Type correctness: a save never has more to do than it collected, nor    *)
(* writes more chunks than there are library files (indexer/cache.rs,      *)
(* save_library_cache).                                                    *)
THEOREM LibraryTypeCorrect == LibrarySpec => []LibraryTypeOK
<1>1. LibraryInv => LibraryTypeOK
  BY LibraryIsFinite
  DEF LibraryInv, StoreTyped, SessionTyped, SessionType, BoundsTyped, Places, LibraryTypeOK
<1>2. QED
  BY <1>1, LibraryInitInv, LibraryNextInv, PTL DEF LibrarySpec

(* A manifest on disk counts chunks that are all there and together hold   *)
(* exactly the entries of one save, wherever a save failed or a session    *)
(* ended (indexer/cache.rs, save_library_cache, which deletes the manifest *)
(* first and writes it last).                                              *)
THEOREM CommittedStaysWhole == LibrarySpec => []CommittedIsWhole
<1>1. LibraryInv => CommittedIsWhole
  <2> SUFFICES ASSUME LibraryInv, manifest # Absent
               PROVE  /\ \A n \in 0..(manifest - 1) : chunks[n] # Absent
                      /\ Merged({chunks[n] : n \in 0..(manifest - 1)}) = written
    BY DEF CommittedIsWhole
  <2>1. Pieces(manifest) /\ Complete({}, manifest) /\ manifest \in Nat /\ written \in EntryMap
    BY DEF LibraryInv, ManifestInv, StoreTyped
  <2>2. \A n \in 0..(manifest - 1) : chunks[n] # Absent
    BY <2>1, EntryFacts DEF Pieces, IsPiece
  <2>3. QED
    BY <2>1, <2>2, WholeMerges
<1>2. QED
  BY <1>1, LibraryInitInv, LibraryNextInv, PTL DEF LibrarySpec

(* When a session is done and was not superseded, the index has every      *)
(* library file as it is on disk, except those that changed where the      *)
(* freshness check does not look and those a scan could not read, and      *)
(* these only until a save has them right (apply.rs, index_source_paths    *)
(* and scan_source_paths_slow; indexer/cache.rs, sample_entries_fresh).    *)
THEOREM LibraryAlwaysComesBack == LibrarySpec => []LibraryComesBack
<1>1. LibraryInv => LibraryComesBack
  BY DEF LibraryInv, CurrentInv, LibraryComesBack, Clean
<1>2. QED
  BY <1>1, LibraryInitInv, LibraryNextInv, PTL DEF LibrarySpec

=============================================================================
