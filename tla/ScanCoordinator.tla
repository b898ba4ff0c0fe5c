--------------------------- MODULE ScanCoordinator ---------------------------
(***************************************************************************)
(* The workspace actor, its ScanQueue, the WorkspaceRoot generation and    *)
(* the scan tasks they start.                                              *)
(*                                                                         *)
(* One actor task handles Initialize, Reindex, ChangeRoot and root         *)
(* switches; each asks for a scan.  At most one scan task runs, at most    *)
(* one request waits, and a request that arrives meanwhile bumps the       *)
(* generation so that the running task notices it is superseded.  Actor    *)
(* and tasks run on different threads: a task step may fall between any    *)
(* two steps of the actor.                                                 *)
(*                                                                         *)
(* The source files of a root are at most two units: the shallow ones that *)
(* a scan capped by KMP_LSP_MAX_FILES keeps, and the deep ones that it     *)
(* leaves out.  They do not change here (WorkspaceCache is about those     *)
(* that do), but to read or to parse one may fail.                         *)
(***************************************************************************)
EXTENDS Integers, FiniteSets

CONSTANTS
  Roots,            \* workspace roots an event may name
  NoRoot,           \* workspace_root before the first Initialize
  Large,            \* roots that some setting of KMP_LSP_MAX_FILES cuts short
  WithSourcePaths,  \* roots whose configuration lists sourcePaths
  MaxRequests,      \* bound: scan requests in a behaviour
  MaxCrashes,       \* bound: process restarts in a behaviour
  MayPanic,         \* may apply_workspace_result panic?
  MayFail           \* may the read or the parse of a file fail?

ASSUME RootsAssumption ==
  /\ NoRoot \notin Roots
  /\ Large \subseteq Roots
  /\ WithSourcePaths \subseteq Roots
ASSUME BoundsAssumption ==
  /\ MaxRequests \in Nat
  /\ MaxCrashes \in Nat
  /\ MayPanic \in BOOLEAN
  /\ MayFail \in BOOLEAN

VARIABLES
  capped,              \* roots that this process's KMP_LSP_MAX_FILES cuts short
  root, generation,    \* WorkspaceRoot: path and staleness generation
  pinned,              \* Indexer.workspace_pinned
  source_paths,        \* source_paths_raw, named by the root it was read for
  initialised,         \* State is Ready(_)
  pending,             \* ScanQueue.pending: a request, or 0
  in_progress,         \* ScanQueue.in_progress
  issued,              \* requests taken so far; the newest request's number
  actor,               \* request whose handler awaits enqueue_scan, or 0
  was_ready,           \* the event loop's edge detector
  pc,                  \* where each request, then its scan task, stands
  args,                \* ScanArgs of each request
  scan,                \* what each task captured on its way
  scan_done,           \* signals in the scan_done channel
  indexing,            \* Indexer.indexing_in_progress
  last_complete,       \* Indexer.last_scan_complete
  index,               \* workspace files in the index
  library,             \* roots whose sourcePaths files are in the index
  cache, lib_cache,    \* on disk: index.bin per root, library chunks per root
  unread,              \* history: files whose last read or parse failed
  completed,           \* requests whose completion_tx fired
  applied,             \* history: requests whose results were installed
  served, announced,   \* history: see LatestRequestWins
  crashes

queueVars == <<pending, in_progress>>
diskVars  == <<cache, lib_cache, unread>>
histVars  == <<completed, applied, served, announced>>
vars == <<capped, root, generation, pinned, source_paths, initialised, pending,
          in_progress, issued, actor, was_ready, pc, args, scan, scan_done,
          indexing, last_complete, index, library, cache, lib_cache, unread,
          completed, applied, served, announced, crashes>>

Requests == 1..MaxRequests
None == 0                          \* Option::None for a request

Kinds == {"Initialize", "Reindex", "ChangeRoot", "OpenedDocument"}

(* ScanKind is Full for Reindex and ChangeRoot and Prioritized for the     *)
(* others, but only a root switch by an opened document names initial      *)
(* paths, and both kinds are capped alike.                                 *)
ResetBeforeScan(kind) == kind # "Initialize"

(* Phases of a task between its spawn and its scan_done signal.            *)
Holding == {"Parse", "Apply", "Save", "Release", "Cancel"}
Working == Holding \cup {"Start", "Reset", "Prioritize", "Acquire",
                         "SourcesRead", "SourcesGeneration", "SourcesApply",
                         "Signal"}
Settled == {"Superseded", "Done", "Lost"}
Phases == {"Unused", "Handler", "Pending", "Complete"} \cup Working \cup Settled

(* Files under a root, and those a truncated scan keeps.                   *)
Shallow(dir) == {<<dir, "shallow">>}
FilesOf(dir) ==
  Shallow(dir) \cup (IF dir \in Large THEN {<<dir, "deep">>} ELSE {})
Files == Roots \X {"shallow", "deep"}

NoArgs == [root |-> NoRoot, kind |-> "Initialize", tx |-> FALSE, gen |-> 0]
NoScan == [start_gen |-> 0, found |-> {}, parsed |-> FALSE,
           complete |-> FALSE, raw |-> NoRoot, gen |-> 0]
NoCache == [files |-> {}, complete |-> FALSE]

----------------------------------------------------------------------------

ActorType ==
  /\ root \in Roots \cup {NoRoot}
  /\ source_paths \in Roots \cup {NoRoot}
  /\ generation \in Nat
  /\ issued \in 0..MaxRequests
  /\ crashes \in 0..MaxCrashes
  /\ pending \in Requests \cup {None}
  /\ actor \in Requests \cup {None}
  /\ capped \in SUBSET Large

FlagType ==
  /\ pinned \in BOOLEAN
  /\ initialised \in BOOLEAN
  /\ in_progress \in BOOLEAN
  /\ was_ready \in BOOLEAN
  /\ indexing \in BOOLEAN
  /\ last_complete \in BOOLEAN

TaskType ==
  /\ pc \in [Requests -> Phases]
  /\ args \in [Requests -> [root : Roots \cup {NoRoot}, kind : Kinds,
                            tx : BOOLEAN, gen : Nat]]
  /\ scan \in [Requests -> [start_gen : Nat, found : SUBSET Files,
                            parsed : BOOLEAN, complete : BOOLEAN,
                            raw : Roots \cup {NoRoot}, gen : Nat]]
  /\ scan_done \in Nat

IndexType ==
  /\ index \in SUBSET Files
  /\ library \in SUBSET Roots
  /\ cache \in [Roots -> [files : SUBSET Files, complete : BOOLEAN]]
  /\ lib_cache \in [Roots -> SUBSET Roots]
  /\ unread \in SUBSET Files

HistoryType ==
  /\ completed \in SUBSET Requests
  /\ applied \in SUBSET Requests
  /\ served \in 0..MaxRequests
  /\ announced \in 0..MaxRequests

TypeOK == ActorType /\ FlagType /\ TaskType /\ IndexType /\ HistoryType

Init ==
  /\ capped \in SUBSET Large
  /\ root = NoRoot
  /\ generation = 0
  /\ pinned = FALSE
  /\ source_paths = NoRoot
  /\ initialised = FALSE
  /\ pending = None
  /\ in_progress = FALSE
  /\ issued = 0
  /\ actor = None
  /\ was_ready = FALSE
  /\ pc = [r \in Requests |-> "Unused"]
  /\ args = [r \in Requests |-> NoArgs]
  /\ scan = [r \in Requests |-> NoScan]
  /\ scan_done = 0
  /\ indexing = FALSE
  /\ last_complete = FALSE
  /\ index = {}
  /\ library = {}
  /\ cache = [d \in Roots |-> NoCache]
  /\ lib_cache = [d \in Roots |-> {}]
  /\ unread = {}
  /\ completed = {}
  /\ applied = {}
  /\ served = 0
  /\ announced = 0
  /\ crashes = 0

----------------------------------------------------------------------------
(* The actor.                                                              *)

(* A handler takes the next event; the scan it asks for is not queued yet. *)
BeginRequest(kind, dir, tx) ==
  /\ actor = None
  /\ issued < MaxRequests
  /\ issued' = issued + 1
  /\ actor' = issued'
  /\ pc' = [pc EXCEPT ![issued'] = "Handler"]
  /\ args' = [args EXCEPT ![issued'] =
               [root |-> dir, kind |-> kind, tx |-> tx, gen |-> 0]]

(* apply_config: new root and generation, new source paths, state Ready.   *)
ApplyConfig(dir, pin) ==
  /\ root' = dir
  /\ generation' = generation + 1
  /\ pinned' = pin
  /\ source_paths' = IF dir \in WithSourcePaths THEN dir ELSE NoRoot
  /\ initialised' = TRUE

(* The protocol's initialize request: the first event of a process.        *)
HandleInitialize(dir, pin, tx) ==
  /\ root = NoRoot
  /\ BeginRequest("Initialize", dir, tx)
  /\ ApplyConfig(dir, pin)
  /\ UNCHANGED <<queueVars, was_ready, scan, scan_done, indexing,
                 last_complete, index, library, diskVars, histVars, capped, crashes>>

HandleReindex ==
  /\ root # NoRoot
  /\ BeginRequest("Reindex", root, FALSE)
  /\ UNCHANGED <<root, generation, pinned, source_paths, initialised,
                 queueVars, was_ready, scan, scan_done, indexing, last_complete, index,
                 library, diskVars, histVars, capped, crashes>>

HandleChangeRoot(dir) ==
  /\ root # NoRoot
  /\ BeginRequest("ChangeRoot", dir, FALSE)
  /\ ApplyConfig(dir, TRUE)
  /\ UNCHANGED <<queueVars, was_ready, scan, scan_done, indexing,
                 last_complete, index, library, diskVars, histVars, capped, crashes>>

(* handle_file_opened on a document outside an unpinned root: the detected *)
(* root becomes the workspace root, and is pinned.                         *)
SwitchWorkspaceRoot(dir) ==
  /\ ~pinned
  /\ dir # root /\ root # NoRoot
  /\ BeginRequest("OpenedDocument", dir, FALSE)
  /\ ApplyConfig(dir, TRUE)
  /\ UNCHANGED <<queueVars, was_ready, scan, scan_done, indexing,
                 last_complete, index, library, diskVars, histVars, capped, crashes>>

(* The loop's edge detector, after an event or a signal was handled.       *)
IsReady == initialised' /\ ~in_progress'
(* Mutant: the detector is never re-armed.                                 *)
DetectReadyOnce ==
  /\ was_ready' = (was_ready \/ IsReady)
  /\ announced' = IF ~was_ready /\ IsReady THEN issued ELSE announced
DetectReady ==
  /\ was_ready' = IsReady
  /\ announced' = IF ~was_ready /\ IsReady THEN issued ELSE announced

(* Mutant: the first waiting request is kept.                              *)
RequestKeepsFirst(waiting, r) == IF waiting # None THEN waiting ELSE r
(* ScanQueue::request: the new request replaces the waiting one.           *)
Request(waiting, r) == r

(* Mutant: the busy flag is not looked at.                                 *)
TryStartIgnoresBusy(waiting, busy) == waiting
(* ScanQueue::try_start on the queue (waiting, busy): what starts, if any. *)
TryStart(waiting, busy) == IF busy THEN None ELSE waiting

(* A request made while a scan runs invalidates that scan ...              *)
BumpedGeneration == IF in_progress THEN generation + 1 ELSE generation
(* Mutant: stamped before the bump.                                        *)
ExpectedGenerationBeforeBump == generation
(* ... and is itself stamped with the generation after the bump.           *)
ExpectedGeneration == BumpedGeneration

(* pc once request r is in the queue and the queue was polled.             *)
Requeue(r, started) ==
  [q \in Requests |->
     IF q = r THEN (IF started = r THEN "Start" ELSE "Pending")
     ELSE IF q = pending THEN "Superseded"
     ELSE pc[q]]

(* ScanHandler::enqueue_scan, the end of every handler above.              *)
EnqueueScan ==
  /\ actor # None
  /\ LET waiting == Request(pending, actor)
         started == TryStart(waiting, in_progress)
     IN  /\ pc' = Requeue(actor, started)
         /\ pending' = IF started = None THEN waiting ELSE None
         /\ in_progress' = TRUE
  /\ generation' = BumpedGeneration
  /\ args' = [args EXCEPT ![actor].gen = ExpectedGeneration]
  /\ actor' = None
  /\ UNCHANGED initialised
  /\ DetectReady
  /\ UNCHANGED <<root, pinned, source_paths, issued, scan, scan_done, indexing,
                 last_complete, index, library, diskVars, completed, applied,
                 served, capped, crashes>>

(* scan_done_rx fires: ScanHandler::on_scan_completed.                     *)
OnScanCompleted ==
  /\ actor = None
  /\ scan_done > 0
  /\ scan_done' = scan_done - 1
  /\ LET started == TryStart(pending, FALSE)
     IN  /\ in_progress' = (started # None)
         /\ pending' = None
         /\ pc' = [q \in Requests |->
                     IF started = q THEN "Start" ELSE pc[q]]
  /\ UNCHANGED initialised
  /\ DetectReady
  /\ UNCHANGED <<root, generation, pinned, source_paths, issued, actor, args, scan,
                 indexing, last_complete, index, library, diskVars, completed,
                 applied, served, capped, crashes>>

----------------------------------------------------------------------------
(* A scan task: ScanHandler::execute_scan and the Indexer calls it makes.  *)

Step(r, from, to) ==
  /\ pc[r] = from
  /\ pc' = [pc EXCEPT ![r] = to]
  /\ UNCHANGED <<root, generation, pinned, source_paths, initialised,
                 queueVars, issued, actor, was_ready, args, announced, capped,
                 crashes>>

(* Mutant: the early return forgets to signal scan_done.                   *)
TaskSupersededSilently(r) ==
  /\ generation # args[r].gen
  /\ Step(r, "Start", "Done")
  /\ UNCHANGED <<scan, scan_done, indexing, last_complete, index, library,
                 diskVars, completed, applied, served>>

(* Superseded before it began: signal and stop, no completion.             *)
TaskSuperseded(r) ==
  /\ generation # args[r].gen
  /\ Step(r, "Start", "Done")
  /\ scan_done' = scan_done + 1
  /\ UNCHANGED <<scan, indexing, last_complete, index, library, diskVars,
                 completed, applied, served>>

TaskStart(r) ==
  /\ generation = args[r].gen
  /\ Step(r, "Start", IF ResetBeforeScan(args[r].kind) THEN "Reset"
                                                        ELSE "Acquire")
  /\ UNCHANGED <<scan, scan_done, indexing, last_complete, index, library,
                 diskVars, completed, applied, served>>

(* reset_index_state keeps the library entries.                            *)
TaskReset(r) ==
  /\ Step(r, "Reset", IF args[r].kind = "OpenedDocument" THEN "Prioritize"
                                                          ELSE "Acquire")
  /\ index' = {}
  /\ UNCHANGED <<scan, scan_done, indexing, last_complete, library, diskVars,
                 completed, applied, served>>

(* The files that may be lost when todo is parsed: parse_work_item returns *)
(* None on a failed read, a path that is no URL or a parse that panics.    *)
MayBeLost(todo) == IF MayFail THEN SUBSET todo ELSE {{}}

(* index_workspace_prioritized: the opened file and its supertypes first.  *)
TaskPrioritize(r) ==
  /\ Step(r, "Prioritize", "Acquire")
  /\ \E lost \in MayBeLost(Shallow(args[r].root)) :
       index' = IF indexing THEN index
                ELSE index \cup (Shallow(args[r].root) \ lost)
  /\ UNCHANGED <<scan, scan_done, indexing, last_complete, library, diskVars,
                 completed, applied, served>>

(* discover_workspace_paths: a complete cache is trusted as the manifest.  *)
(* Otherwise the tree is walked, up to resolve_max_files.                  *)
Truncated(dir) == ~cache[dir].complete /\ dir \in capped
(* Mutant: any cache that exists is trusted as the manifest.               *)
DiscoveredFromAnyCache(dir) ==
  IF cache[dir].files # {} THEN cache[dir].files
  ELSE IF Truncated(dir) THEN Shallow(dir) ELSE FilesOf(dir)
Discovered(dir) ==
  IF cache[dir].complete THEN cache[dir].files
  ELSE IF Truncated(dir) THEN Shallow(dir) ELSE FilesOf(dir)

(* index_workspace_impl up to the parse phase: take the guard, capture the *)
(* generation, load the cache, discover.  GuardIsFree shows that the       *)
(* branch which finds the guard taken is never reached.                    *)
TaskAcquire(r) ==
  LET dir == args[r].root
  IN  /\ ~indexing
      /\ Step(r, "Acquire", "Parse")
      /\ indexing' = TRUE
      /\ scan' = [scan EXCEPT ![r] =
                   [@ EXCEPT !.start_gen = generation,
                             !.found = Discovered(dir),
                             !.complete = ~Truncated(dir)]]
      /\ UNCHANGED <<scan_done, last_complete, index, library, diskVars,
                     completed, applied, served>>

(* Partition, scheduling and parsing: what the cache does not hold is read *)
(* and parsed.  build_workspace_result drops what was lost on the way and  *)
(* still calls the scan complete.                                          *)
TaskParse(r) ==
  LET todo == scan[r].found \ cache[args[r].root].files
  IN  /\ generation = scan[r].start_gen
      /\ Step(r, "Parse", "Apply")
      /\ \E lost \in MayBeLost(todo) :
           /\ scan' = [scan EXCEPT ![r] =
                        [scan[r] EXCEPT !.found = scan[r].found \ lost,
                                        !.parsed = todo # lost]]
           /\ unread' = (unread \ todo) \cup lost
      /\ UNCHANGED <<scan_done, indexing, last_complete, index, library,
                     cache, lib_cache, completed, applied, served>>

(* The checks against start_gen: what was parsed is thrown away.           *)
TaskParseAborted(r) ==
  /\ generation # scan[r].start_gen
  /\ Step(r, "Parse", "Cancel")
  /\ UNCHANGED <<scan, scan_done, indexing, last_complete, index, library,
                 diskVars, completed, applied, served>>

(* Mutant: the guard outlives the aborted scan.                            *)
TaskCancelKeepsGuard(r) ==
  /\ Step(r, "Cancel", "Signal")
  /\ UNCHANGED <<scan, scan_done, indexing, last_complete, index, library,
                 diskVars, completed, applied, served>>

(* cancel_progress, then the guard is dropped.                             *)
TaskCancel(r) ==
  /\ Step(r, "Cancel", "Signal")
  /\ indexing' = FALSE
  /\ UNCHANGED <<scan, scan_done, last_complete, index, library, diskVars,
                 completed, applied, served>>

(* finalize_workspace_scan: apply_workspace_result replaces the index.     *)
TaskApply(r) ==
  /\ Step(r, "Apply", "Save")
  /\ last_complete' = scan[r].complete
  /\ index' = scan[r].found
  /\ applied' = applied \cup {r}
  /\ served' = r
  /\ UNCHANGED <<scan, scan_done, indexing, library, diskVars, completed>>

(* Mutant: the cache is saved although the apply panicked.                 *)
TaskApplyPanicsThenSaves(r) ==
  /\ MayPanic
  /\ Step(r, "Apply", "Save")
  /\ last_complete' = scan[r].complete
  /\ index' \in SUBSET scan[r].found
  /\ UNCHANGED <<scan, scan_done, indexing, library, diskVars, completed,
                 applied, served>>

(* The apply panics in its blocking task, after the reset: no cache save.  *)
TaskApplyPanics(r) ==
  /\ MayPanic
  /\ Step(r, "Apply", "Release")
  /\ last_complete' = scan[r].complete
  /\ index' \in SUBSET scan[r].found
  /\ UNCHANGED <<scan, scan_done, indexing, library, diskVars, completed,
                 applied, served>>

(* save_cache_to_disk writes under the root of this moment.                *)
TaskSave(r) ==
  /\ Step(r, "Save", "Release")
  /\ cache' = IF scan[r].parsed \/ scan[r].complete
                THEN [cache EXCEPT ![root] =
                       [files |-> index, complete |-> last_complete]]
                ELSE cache
  /\ UNCHANGED <<scan, scan_done, indexing, last_complete, index, library,
                 lib_cache, unread, completed, applied, served>>

(* The guard is dropped before the progress-end message.                   *)
TaskRelease(r) ==
  /\ Step(r, "Release", "SourcesRead")
  /\ indexing' = FALSE
  /\ UNCHANGED <<scan, scan_done, last_complete, index, library, diskVars,
                 completed, applied, served>>

(* index_source_paths: the paths are read first ...                        *)
TaskSourcesRead(r) ==
  /\ Step(r, "SourcesRead", IF source_paths = NoRoot THEN "Signal"
                                                      ELSE "SourcesGeneration")
  /\ scan' = [scan EXCEPT ![r].raw = source_paths]
  /\ UNCHANGED <<scan_done, indexing, last_complete, index, library, diskVars,
                 completed, applied, served>>

(* ... and the generation after them.                                      *)
TaskSourcesGeneration(r) ==
  /\ Step(r, "SourcesGeneration", "SourcesApply")
  /\ scan' = [scan EXCEPT ![r].gen = generation]
  /\ UNCHANGED <<scan_done, indexing, last_complete, index, library, diskVars,
                 completed, applied, served>>

(* Fast path: a fresh library cache is restored, whatever the generation.  *)
TaskSourcesRestore(r) ==
  /\ Step(r, "SourcesApply", "Signal")
  /\ lib_cache[scan[r].raw] # {}
  /\ library' = library \cup lib_cache[scan[r].raw]
  /\ UNCHANGED <<scan, scan_done, indexing, last_complete, index, diskVars,
                 completed, applied, served>>

(* Slow path (no cache, or one that is not fresh): scanned, then applied   *)
(* and saved only if the generation is the one captured.                   *)
TaskSourcesScan(r) ==
  LET raw == scan[r].raw
  IN  /\ Step(r, "SourcesApply", "Signal")
      /\ IF generation = scan[r].gen
           THEN /\ library' = library \cup {raw}
                /\ lib_cache' = [lib_cache EXCEPT ![raw] = library']
           ELSE UNCHANGED <<library, lib_cache>>
      /\ UNCHANGED <<scan, scan_done, indexing, last_complete, index, cache,
                     unread, completed, applied, served>>

(* scan_done first, then the completion check.                             *)
TaskSignal(r) ==
  /\ Step(r, "Signal", "Complete")
  /\ scan_done' = scan_done + 1
  /\ UNCHANGED <<scan, indexing, last_complete, index, library, diskVars,
                 completed, applied, served>>

(* Mutant: completion without the second generation check.                 *)
NotSupersededAssumed(r) == TRUE
NotSuperseded(r) == generation = args[r].gen
TaskComplete(r) ==
  /\ Step(r, "Complete", "Done")
  /\ completed' = IF NotSuperseded(r) /\ args[r].tx
                    THEN completed \cup {r} ELSE completed
  /\ UNCHANGED <<scan, scan_done, indexing, last_complete, index, library,
                 diskVars, applied, served>>

Task(r) ==
  \/ TaskSuperseded(r)
  \/ TaskStart(r)
  \/ TaskReset(r)
  \/ TaskPrioritize(r)
  \/ TaskAcquire(r)
  \/ TaskParse(r)
  \/ TaskParseAborted(r)
  \/ TaskCancel(r)
  \/ TaskApply(r)
  \/ TaskApplyPanics(r)
  \/ TaskSave(r)
  \/ TaskRelease(r)
  \/ TaskSourcesRead(r)
  \/ TaskSourcesGeneration(r)
  \/ TaskSourcesRestore(r)
  \/ TaskSourcesScan(r)
  \/ TaskSignal(r)
  \/ TaskComplete(r)

----------------------------------------------------------------------------
(* The process is killed and started again, maybe with another setting of  *)
(* KMP_LSP_MAX_FILES.  Both caches are written atomically (rename;         *)
(* manifest last), so they survive whole.                                  *)
Restart ==
  /\ capped' \in SUBSET Large
  /\ crashes < MaxCrashes
  /\ crashes' = crashes + 1
  /\ pc' = [r \in Requests |->
              IF pc[r] = "Unused" \/ pc[r] \in Settled THEN pc[r] ELSE "Lost"]
  /\ root' = NoRoot
  /\ generation' = 0
  /\ pinned' = FALSE
  /\ source_paths' = NoRoot
  /\ initialised' = FALSE
  /\ pending' = None
  /\ in_progress' = FALSE
  /\ actor' = None
  /\ was_ready' = FALSE
  /\ scan_done' = 0
  /\ indexing' = FALSE
  /\ last_complete' = FALSE
  /\ index' = {}
  /\ library' = {}
  /\ served' = issued
  /\ announced' = issued
  /\ UNCHANGED <<issued, args, scan, diskVars, completed, applied>>

Actor == EnqueueScan \/ OnScanCompleted

Event ==
  \/ \E dir \in Roots, pin, tx \in BOOLEAN : HandleInitialize(dir, pin, tx)
  \/ HandleReindex
  \/ \E dir \in Roots : HandleChangeRoot(dir)
  \/ \E dir \in Roots : SwitchWorkspaceRoot(dir)

Next == Event \/ Actor \/ (\E r \in Requests : Task(r)) \/ Restart

Spec == Init /\ [][Next]_vars

(* The executor keeps running the actor and every spawned task; events and *)
(* restarts come from outside and are never owed.                          *)
Fairness == WF_vars(Actor) /\ \A r \in Requests : WF_vars(Task(r))
FairSpec == Spec /\ Fairness

----------------------------------------------------------------------------
(* Properties.                                                             *)

(* Promises of LatestRequestWins, with requests numbered as issued here.   *)
LatestRequest == INSTANCE LatestRequestWins
                   WITH wanted <- issued, served <- served,
                        announced <- announced

(* ScanQueue's in_progress flag is exactly "a scan task is working, or its *)
(* scan_done signal is still in the channel", and there is never a second  *)
(* task or a second signal: no scan runs beside another, and the flag can  *)
(* neither be left set (no scan would ever start again) nor be cleared     *)
(* early.                                                                  *)
OneScanAtATime ==
  /\ \A r, s \in Requests : pc[r] \in Working /\ pc[s] \in Working => r = s
  /\ scan_done \in {0, 1}
  /\ (\E r \in Requests : pc[r] \in Working) => scan_done = 0
  /\ in_progress <=> \/ \E r \in Requests : pc[r] \in Working
                     \/ scan_done = 1

(* A task that is about to reset the index, to index priority files or to  *)
(* take indexing_in_progress never finds that flag set: reset_before_scan  *)
(* "never races with a concurrently running scan", and the branch of       *)
(* index_workspace_impl that queues behind a running scan is unreachable   *)
(* from the server.                                                        *)
GuardIsFree ==
  \A r \in Requests :
    pc[r] \in {"Reset", "Prioritize", "Acquire"} => ~indexing

(* A request waits only behind a running scan, and it is the newest one    *)
(* that reached the queue: nothing older is ever started after it.         *)
PendingIsNewest ==
  pending # None =>
    /\ in_progress
    /\ pc[pending] = "Pending"
    /\ \A r \in Requests : r > pending => pc[r] \in {"Unused", "Handler"}

(* completion_tx fires only for a request whose own results were           *)
(* installed: a superseded scan that was abandoned half way never reports  *)
(* completion to its caller.                                               *)
CompletionMeansApplied == completed \subseteq applied

(* The mechanism keeps those promises, restarts included.                  *)
ImplementsLatestRequestWins == LatestRequest!Spec

(* Whenever the event loop believes the workspace is ready, the results    *)
(* installed last are those of the newest request it took: no request was  *)
(* lost to coalescing, staleness checks or a late task.                    *)
ReadyServesLatest == was_ready /\ actor = None => served = issued

(* Files of a root that a scan which took in these must account for: it    *)
(* may lack, of those a scan of its width keeps, only the unread ones.     *)
HoldsRoot(files, dir, complete) ==
  /\ files \subseteq FilesOf(dir)
  /\ (IF complete THEN FilesOf(dir) ELSE Shallow(dir)) \ files \subseteq unread

(* Whenever the workspace is ready the index holds files of its root only, *)
(* and all of them - the shallow ones if the scan was truncated - but      *)
(* those whose last read or parse failed: on_became_ready relies on it to  *)
(* publish semantic diagnostics.                                           *)
ReadyIndexIsRoot ==
  was_ready /\ actor = None /\ issued \in applied =>
    HoldsRoot(index, root, last_complete)

(* A cache marked complete holds the files of its root, whatever cap an    *)
(* earlier process ran under: a warm start that trusts it as the manifest  *)
(* hides no file of the workspace but those whose last read or parse       *)
(* failed.                                                                 *)
CompleteCacheHoldsRoot ==
  \A d \in Roots : cache[d].complete => HoldsRoot(cache[d].files, d, TRUE)

(* Every request that is taken is settled in the end: scanned, or          *)
(* superseded by a newer one.                                              *)
EveryRequestSettles ==
  \A r \in Requests : pc[r] = "Handler" ~> pc[r] \in Settled

(* Once requests stop coming the event loop announces readiness for the    *)
(* newest one and stays ready.                                             *)
EventuallyReady == <>[](initialised => was_ready /\ announced = issued)
=============================================================================
