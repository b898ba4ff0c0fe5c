----------------------------- MODULE JarPipeline -----------------------------
(***************************************************************************)
(* Background indexing of compiled JARs: the crawl that each Initialize,   *)
(* Reindex or root change spawns on a blocking thread, the flag and the    *)
(* sidecar mutex that coalesce crawls, the JarPhase that hover and         *)
(* diagnostics read, and the request threads that materialize a JAR on     *)
(* demand.                                                                 *)
(*                                                                         *)
(* A JAR has a Tier-1 manifest (jar_bare_names, jar_qualified: names only) *)
(* and Tier-2 data (jar_files, jar_definitions).  Event number n spawns    *)
(* crawl number n, if it spawns one.  The workspace scan is seen only      *)
(* through what the crawl reads of it: scans owed, and whether the index   *)
(* holds a JVM source.                                                     *)
(***************************************************************************)
EXTENDS Integers, FiniteSets

CONSTANTS
  Roots, NoRoot, NoJar,
  JvmRoots,       \* roots with Kotlin or Java sources
  GradleJars,     \* JARs of the Gradle cache and the Android SDK
  OwnJars,        \* JARs each root's configuration lists
  EventKinds,     \* kinds of event, besides Initialize, that may come
  MaySidecarDie,
  MaxEvents,      \* bound: events in a behaviour
  MaxRequests     \* bound: on-demand materializations attempted

Jars == GradleJars \cup UNION {OwnJars[d] : d \in Roots}
Crawls == 1..MaxEvents
Kinds == {"Initialize", "Reindex", "ChangeRoot", "OpenedDocument"}

ASSUME JarAssumption ==
  /\ NoRoot \notin Roots /\ NoJar \notin Jars
  /\ JvmRoots \subseteq Roots
  /\ OwnJars \in [Roots -> SUBSET Jars]
  /\ EventKinds \subseteq Kinds \ {"Initialize"}
  /\ MaySidecarDie \in BOOLEAN
  /\ MaxEvents \in Nat /\ MaxRequests \in Nat

VARIABLES
  root, generation,       \* WorkspaceRoot
  pinned,                 \* Indexer.workspace_pinned
  scans,                  \* ScanQueue: scans running (1) and waiting (2)
  jvm,                    \* workspace_has_jvm_sources of the index
  events,                 \* events taken so far
  handler,                \* the actor: step and kind of the event in hand
  guard,                  \* jar_indexing_in_progress
  phase,                  \* Indexer.jar_phase
  sidecar,                \* jar_sidecar holds Some(_)
  sidecar_lock,           \* who holds the jar_sidecar mutex
  crawl,                  \* each crawl task's step and local variables
  tier1,                  \* JARs in jar_bare_names, jar_qualified
  loaded,                 \* JARs with data in jar_files, jar_definitions
  materialized, failed,   \* Indexer.materialized, .materialization_failed
  request,                \* the request thread: step and candidate JAR
  requests,               \* materializations attempted so far
  jar_done,               \* signals in the jar_done channel
  suppressed              \* diagnostics were last computed while loading

scanVars == <<scans, jvm>>
jarVars  == <<tier1, loaded, materialized, failed>>
vars == <<root, generation, pinned, scans, jvm, events, handler, guard, phase, sidecar,
          sidecar_lock, crawl, tier1, loaded, materialized, failed, request,
          requests, jar_done, suppressed>>

Free      == 0
Requester == -1              \* holder of the sidecar mutex besides a crawl

IsLoading(p) == p \in {"Pending", "InProgress"}

(* Steps of a crawl that holds jar_indexing_in_progress.                   *)
Owning == {"Start", "GateGeneration", "GateIndex", "GateScanning", "GateAgain",
           "Paths", "Check", "Clear", "Lock", "Manifest", "Sources",
           "FinalCheck", "Finish", "Release", "Abandon"}
Ending == {"AbandonPhase", "Signal"}
Steps  == Owning \cup Ending \cup {"None", "Done"}

(* Paths of a crawl: the Gradle cache and the SDK only for a JVM workspace. *)
JarsOf(dir, verdict) ==
  (IF dir = NoRoot THEN {} ELSE OwnJars[dir])
    \cup (IF verdict THEN GradleJars ELSE {})

NoCrawl == [at |-> "None", gen |-> 0, verdict |-> FALSE, paths |-> {},
            todo |-> {}, names |-> FALSE, alive |-> TRUE]

----------------------------------------------------------------------------

TypeOK ==
  /\ root \in Roots \cup {NoRoot}
  /\ generation \in Nat
  /\ pinned \in BOOLEAN
  /\ scans \in 0..2
  /\ jvm \in BOOLEAN
  /\ events \in 0..MaxEvents
  /\ handler \in [at : {"Idle", "Flags", "Tier1", "ClearIndex", "Apply",
                        "Enqueue", "Spawn"},
                  kind : Kinds, dir : Roots \cup {NoRoot}]
  /\ guard \in BOOLEAN
  /\ phase \in {"Unavailable", "Pending", "InProgress", "Ready", "Failed"}
  /\ sidecar \in BOOLEAN
  /\ sidecar_lock \in {Free, Requester} \cup Crawls
  /\ crawl \in [Crawls -> [at : Steps, gen : Nat, verdict : BOOLEAN,
                           paths : SUBSET Jars, todo : SUBSET Jars,
                           names : BOOLEAN, alive : BOOLEAN]]
  /\ tier1 \in SUBSET Jars
  /\ loaded \in SUBSET Jars
  /\ materialized \in SUBSET Jars
  /\ failed \in SUBSET Jars
  /\ request \in [at : {"Idle", "TryLock", "Populate", "Mark"},
                  jar : Jars \cup {NoJar}]
  /\ requests \in 0..MaxRequests
  /\ jar_done \in Nat
  /\ suppressed \in BOOLEAN

Init ==
  /\ root = NoRoot
  /\ generation = 0
  /\ pinned = FALSE
  /\ scans = 0
  /\ jvm = FALSE
  /\ events = 0
  /\ handler = [at |-> "Idle", kind |-> "Initialize", dir |-> NoRoot]
  /\ guard = FALSE
  /\ sidecar \in BOOLEAN
  /\ phase = IF sidecar THEN "Pending" ELSE "Unavailable"
  /\ sidecar_lock = Free
  /\ crawl = [c \in Crawls |-> NoCrawl]
  /\ tier1 = {}
  /\ loaded = {}
  /\ materialized = {}
  /\ failed = {}
  /\ request = [at |-> "Idle", jar |-> NoJar]
  /\ requests = 0
  /\ jar_done = 0
  /\ suppressed = FALSE

----------------------------------------------------------------------------
(* The actor.  Blocking threads run between any two of its steps.          *)

FirstStep(kind) ==
  CASE kind = "Reindex"    -> "Flags"
    [] kind = "ChangeRoot" -> "ClearIndex"
    [] OTHER               -> "Apply"

(* The actor takes an event; Initialize comes first and once.              *)
TakeEvent(kind, dir) ==
  /\ handler.at = "Idle"
  /\ events < MaxEvents
  /\ IF root = NoRoot THEN kind = "Initialize" ELSE kind \in EventKinds
  /\ kind = "Reindex" => dir = root
  /\ kind = "OpenedDocument" => dir # root /\ ~pinned
  /\ events' = events + 1
  /\ handler' = [at |-> FirstStep(kind), kind |-> kind, dir |-> dir]
  /\ UNCHANGED <<root, generation, pinned, scanVars, guard, phase, sidecar,
                 sidecar_lock, crawl, jarVars, request, requests, jar_done,
                 suppressed>>

Handle(from, to) ==
  /\ handler.at = from
  /\ handler' = [handler EXCEPT !.at = to]
  /\ UNCHANGED <<events, sidecar, sidecar_lock, request, requests, jar_done,
                 suppressed>>

(* handle_reindex: the flags first ...                                     *)
ReindexClearsFlags ==
  /\ Handle("Flags", "Tier1")
  /\ materialized' = {}
  /\ failed' = {}
  /\ UNCHANGED <<root, generation, pinned, scanVars, guard, phase, crawl, tier1, loaded>>

(* ... then the manifests; clear() waits for a request that is iterating   *)
(* over the candidates of a name.                                          *)
ReindexClearsTier1 ==
  /\ Handle("Tier1", "Enqueue")
  /\ request.at = "Idle"
  /\ tier1' = {}
  /\ UNCHANGED <<root, generation, pinned, scanVars, guard, phase, crawl, loaded,
                 materialized, failed>>

(* handle_change_root: clear_jar_index; a mutex that is held counts as a   *)
(* live sidecar.                                                           *)
ClearJarIndex ==
  /\ Handle("ClearIndex", "Apply")
  /\ loaded' = {}
  /\ phase' = IF sidecar_lock # Free \/ sidecar THEN "Pending" ELSE "Unavailable"
  /\ UNCHANGED <<root, generation, pinned, scanVars, guard, crawl, tier1, materialized,
                 failed>>

ApplyConfig ==
  /\ Handle("Apply", "Enqueue")
  /\ root' = handler.dir
  /\ generation' = generation + 1
  /\ pinned' \in IF handler.kind = "Initialize" THEN BOOLEAN ELSE {TRUE}
  /\ UNCHANGED <<scanVars, guard, phase, crawl, jarVars>>

EnqueueScan ==
  /\ Handle("Enqueue", "Spawn")
  /\ generation' = IF scans > 0 THEN generation + 1 ELSE generation
  /\ scans' = IF scans = 0 THEN 1 ELSE 2
  /\ UNCHANGED <<root, pinned, jvm, guard, phase, crawl, jarVars>>

(* Mutant: the flag is stored without looking at it.                       *)
MaySpawnUnguarded == sidecar_lock = Free /\ sidecar
(* spawn_jar_indexing coalesces with a held mutex and with a set flag.     *)
MaySpawn == sidecar_lock = Free /\ sidecar /\ ~guard

SpawnJarIndexing ==
  /\ Handle("Spawn", "Idle")
  /\ IF MaySpawn
       THEN /\ guard' = TRUE
            /\ phase' = "InProgress"
            /\ crawl' = [crawl EXCEPT ![events].at = "Start",
                                      ![events].gen = generation]
       ELSE UNCHANGED <<guard, phase, crawl>>
  /\ UNCHANGED <<root, generation, pinned, scanVars, jarVars>>

(* A document is opened or edited: its diagnostics are computed now.       *)
Diagnose ==
  /\ handler.at = "Idle"
  /\ suppressed' = IsLoading(phase)
  /\ UNCHANGED <<root, generation, pinned, scanVars, events, handler, guard,
                 phase, sidecar, sidecar_lock, crawl, jarVars, request,
                 requests, jar_done>>

(* jar_done_rx fires: diagnostics of open files are recomputed.            *)
JarDone ==
  /\ handler.at = "Idle"
  /\ jar_done > 0
  /\ jar_done' = jar_done - 1
  /\ suppressed' = IsLoading(phase)
  /\ UNCHANGED <<root, generation, pinned, scanVars, events, handler, guard, phase,
                 sidecar, sidecar_lock, crawl, jarVars, request, requests>>

----------------------------------------------------------------------------
(* The workspace scan, as the crawl sees it.                               *)

ScanUnchanged ==
  UNCHANGED <<root, generation, pinned, events, handler, guard, phase, sidecar,
              sidecar_lock, crawl, jarVars, request, requests, jar_done>>

(* reset_index_state of a running scan that is not the first one.          *)
ScanResets ==
  /\ scans > 0 /\ events > 1
  /\ jvm' = FALSE
  /\ UNCHANGED <<scans, suppressed>>
  /\ ScanUnchanged

(* The running scan has indexed files; one that is being superseded may be *)
(* indexing another root.                                                  *)
ScanIndexes ==
  /\ scans > 0
  /\ jvm' \in IF scans = 1 THEN {root \in JvmRoots} ELSE BOOLEAN
  /\ UNCHANGED <<scans, suppressed>>
  /\ ScanUnchanged

(* The actor handles scan_done; the last scan's index is authoritative,    *)
(* and on_became_ready recomputes the diagnostics of open files.           *)
ScanEnds ==
  /\ handler.at = "Idle"
  /\ scans > 0
  /\ scans' = scans - 1
  /\ jvm' = IF scans = 1 THEN root \in JvmRoots ELSE jvm
  /\ suppressed' = IF scans = 1 THEN IsLoading(phase) ELSE suppressed
  /\ ScanUnchanged

----------------------------------------------------------------------------
(* A crawl task.                                                           *)

Crawl(c, from, to) ==
  /\ crawl[c].at = from
  /\ crawl' = [crawl EXCEPT ![c].at = to]
CrawlUnchanged ==
  UNCHANGED <<root, generation, pinned, scanVars, events, handler, request, requests,
              materialized, failed, suppressed>>

IsCurrent(c) == generation = crawl[c].gen

(* A checkpoint: a superseded crawl abandons.                              *)
CheckPoint(c, from, to) ==
  /\ Crawl(c, from, IF IsCurrent(c) THEN to ELSE "Abandon")
  /\ UNCHANGED <<guard, phase, sidecar, sidecar_lock, tier1, loaded, jar_done>>
  /\ CrawlUnchanged

CrawlStarts(c)      == CheckPoint(c, "Start", "GateGeneration")
GateGeneration(c)   == CheckPoint(c, "GateGeneration", "GateIndex")
CrawlChecks(c)      == CheckPoint(c, "Check", "Clear")
CrawlFinalChecks(c) == CheckPoint(c, "FinalCheck", "Finish")

(* wait_for_jvm_sources_gate: index, queue, and the index once more.       *)
Decide(c, from, verdict) ==
  /\ crawl[c].at = from
  /\ crawl' = [crawl EXCEPT ![c].at = "Paths", ![c].verdict = verdict]
GateIndex(c) ==
  /\ IF jvm THEN Decide(c, "GateIndex", TRUE)
            ELSE Crawl(c, "GateIndex", "GateScanning")
  /\ UNCHANGED <<guard, phase, sidecar, sidecar_lock, tier1, loaded, jar_done>>
  /\ CrawlUnchanged
(* Mutant: the queue is never asked.                                       *)
GateSkipsScanning(c) ==
  /\ Crawl(c, "GateScanning", "GateAgain")
  /\ UNCHANGED <<guard, phase, sidecar, sidecar_lock, tier1, loaded, jar_done>>
  /\ CrawlUnchanged
GateScanning(c) ==
  /\ Crawl(c, "GateScanning", IF scans > 0 THEN "GateGeneration" ELSE "GateAgain")
  /\ UNCHANGED <<guard, phase, sidecar, sidecar_lock, tier1, loaded, jar_done>>
  /\ CrawlUnchanged
GateAgain(c) ==
  /\ Decide(c, "GateAgain", jvm)
  /\ UNCHANGED <<guard, phase, sidecar, sidecar_lock, tier1, loaded, jar_done>>
  /\ CrawlUnchanged

CrawlCollectsPaths(c) ==
  LET paths == JarsOf(root, crawl[c].verdict)
  IN  /\ crawl[c].at = "Paths"
      /\ crawl' = [crawl EXCEPT ![c].at = "Check", ![c].paths = paths,
                                ![c].todo = paths]
      /\ UNCHANGED <<guard, phase, sidecar, sidecar_lock, tier1, loaded, jar_done>>
      /\ CrawlUnchanged

(* clear_jar_maps, without the sidecar mutex.                              *)
CrawlClears(c) ==
  /\ Crawl(c, "Clear", "Lock")
  /\ loaded' = {}
  /\ UNCHANGED <<guard, phase, sidecar, sidecar_lock, tier1, jar_done>>
  /\ CrawlUnchanged

CrawlLocks(c) ==
  /\ Crawl(c, "Lock", "Manifest")
  /\ sidecar_lock = Free
  /\ sidecar_lock' = c
  /\ UNCHANGED <<guard, phase, sidecar, tier1, loaded, jar_done>>
  /\ CrawlUnchanged

(* build_jar_manifest, one JAR: from the manifest cache or the sidecar.    *)
(* Inserting waits for a request that is iterating over the same map.      *)
CrawlManifests(c, j) ==
  /\ crawl[c].at = "Manifest"
  /\ j \in crawl[c].todo
  /\ request.at = "Idle"
  /\ tier1' = tier1 \cup {j}
  /\ crawl' = [crawl EXCEPT ![c].todo = @ \ {j}, ![c].names = TRUE]
  /\ UNCHANGED <<guard, phase, sidecar, sidecar_lock, loaded, jar_done>>
  /\ CrawlUnchanged

(* The sidecar fails on the JARs that are not cached, or was gone before.  *)
CrawlLosesSidecar(c) ==
  /\ crawl[c].at = "Manifest"
  /\ crawl[c].todo # {}
  /\ sidecar => MaySidecarDie
  /\ sidecar' = FALSE
  /\ crawl' = [crawl EXCEPT ![c].todo = {}]
  /\ UNCHANGED <<guard, phase, sidecar_lock, tier1, loaded, jar_done>>
  /\ CrawlUnchanged

(* The mutex is released before the sources JARs are indexed.              *)
CrawlUnlocks(c) ==
  /\ crawl[c].at = "Manifest"
  /\ crawl[c].todo = {}
  /\ sidecar_lock' = Free
  /\ crawl' = [crawl EXCEPT ![c].at = "Sources", ![c].alive = sidecar]
  /\ UNCHANGED <<guard, phase, sidecar, tier1, loaded, jar_done>>
  /\ CrawlUnchanged

(* Sources JARs (files of the Library source set) for a JVM workspace; no  *)
(* JAR at all ends the crawl without a further check.                      *)
CrawlSources(c) ==
  \/ /\ crawl[c].paths # {} \/ crawl[c].verdict
     /\ CheckPoint(c, "Sources", "FinalCheck")
  \/ /\ crawl[c].paths = {}
     /\ CheckPoint(c, "Sources", "Finish")

FinalPhase(c) ==
  IF ~crawl[c].alive /\ crawl[c].names THEN "Failed" ELSE "Ready"
(* Mutant: the maps are cleared last.                                      *)
CrawlFinishesThenClears(c) ==
  /\ Crawl(c, "Finish", "Release")
  /\ phase' = FinalPhase(c)
  /\ loaded' = {}
  /\ UNCHANGED <<guard, sidecar, sidecar_lock, tier1, jar_done>>
  /\ CrawlUnchanged
CrawlFinishes(c) ==
  /\ Crawl(c, "Finish", "Release")
  /\ phase' = FinalPhase(c)
  /\ UNCHANGED <<guard, sidecar, sidecar_lock, tier1, loaded, jar_done>>
  /\ CrawlUnchanged

CrawlReleases(c) ==
  /\ Crawl(c, "Release", "Signal")
  /\ guard' = FALSE
  /\ UNCHANGED <<phase, sidecar, sidecar_lock, tier1, loaded, jar_done>>
  /\ CrawlUnchanged

(* abandon_stale_jar_scan: the flag first, then the phase, then the signal. *)
CrawlAbandons(c) ==
  /\ Crawl(c, "Abandon", "AbandonPhase")
  /\ guard' = FALSE
  /\ UNCHANGED <<phase, sidecar, sidecar_lock, tier1, loaded, jar_done>>
  /\ CrawlUnchanged
(* Mutant: only the flag is cleaned up.                                    *)
CrawlAbandonsWithPhase(c) ==
  /\ Crawl(c, "AbandonPhase", "Signal")
  /\ UNCHANGED <<guard, phase, sidecar, sidecar_lock, tier1, loaded, jar_done>>
  /\ CrawlUnchanged
CrawlAbandonsPhase(c) ==
  /\ Crawl(c, "AbandonPhase", "Signal")
  /\ phase' = IF IsLoading(phase) THEN "Ready" ELSE phase
  /\ UNCHANGED <<guard, sidecar, sidecar_lock, tier1, loaded, jar_done>>
  /\ CrawlUnchanged

(* Mutant: the actor is not woken.                                         *)
CrawlEndsSilently(c) ==
  /\ Crawl(c, "Signal", "Done")
  /\ UNCHANGED <<guard, phase, sidecar, sidecar_lock, tier1, loaded, jar_done>>
  /\ CrawlUnchanged
CrawlSignals(c) ==
  /\ Crawl(c, "Signal", "Done")
  /\ jar_done' = jar_done + 1
  /\ UNCHANGED <<guard, phase, sidecar, sidecar_lock, tier1, loaded>>
  /\ CrawlUnchanged

CrawlTask(c) ==
  \/ CrawlStarts(c)
  \/ GateGeneration(c)
  \/ GateIndex(c)
  \/ GateScanning(c)
  \/ GateAgain(c)
  \/ CrawlCollectsPaths(c)
  \/ CrawlChecks(c)
  \/ CrawlClears(c)
  \/ CrawlLocks(c)
  \/ \E j \in Jars : CrawlManifests(c, j)
  \/ CrawlLosesSidecar(c)
  \/ CrawlUnlocks(c)
  \/ CrawlSources(c)
  \/ CrawlFinalChecks(c)
  \/ CrawlFinishes(c)
  \/ CrawlReleases(c)
  \/ CrawlAbandons(c)
  \/ CrawlAbandonsPhase(c)
  \/ CrawlSignals(c)

----------------------------------------------------------------------------
(* A request thread: promote_candidates_bounded on one candidate of a      *)
(* name.  It holds a read guard on the Tier-1 map from its first step to   *)
(* its last.                                                               *)

RequestUnchanged ==
  UNCHANGED <<root, generation, pinned, scanVars, events, handler, guard, phase,
              crawl, tier1, jar_done, suppressed>>
EndRequest == request' = [at |-> "Idle", jar |-> NoJar]

RequestBegins(j) ==
  /\ request.at = "Idle"
  /\ requests < MaxRequests
  /\ requests' = requests + 1
  /\ j \in tier1 \ (materialized \cup failed)
  /\ request' = [at |-> "TryLock", jar |-> j]
  /\ UNCHANGED <<sidecar, sidecar_lock, loaded, materialized, failed>>
  /\ RequestUnchanged

(* Mutant: lock instead of try_lock.                                       *)
RequestLocks ==
  /\ request.at = "TryLock"
  /\ sidecar_lock = Free
  /\ sidecar_lock' = Requester
  /\ request' = [request EXCEPT !.at = "Populate"]
  /\ UNCHANGED <<requests, sidecar, loaded, materialized, failed>>
  /\ RequestUnchanged
(* try_lock_sidecar_bounded: immediate or nothing.                         *)
RequestTriesLock ==
  /\ request.at = "TryLock"
  /\ IF sidecar_lock = Free
       THEN /\ sidecar_lock' = Requester
            /\ request' = [request EXCEPT !.at = "Populate"]
       ELSE UNCHANGED sidecar_lock /\ EndRequest
  /\ UNCHANGED <<requests, sidecar, loaded, materialized, failed>>
  /\ RequestUnchanged

(* index_jars on the one JAR, from the symbol cache or the sidecar.        *)
RequestPopulates ==
  /\ request.at = "Populate"
  /\ loaded' = loaded \cup {request.jar}
  /\ request' = [request EXCEPT !.at = "Mark"]
  /\ UNCHANGED <<requests, sidecar, sidecar_lock, materialized, failed>>
  /\ RequestUnchanged

(* No symbol came back: not cached, and the sidecar is gone, dies on it, or *)
(* answers nothing and lives on.                                           *)
RequestFails ==
  /\ request.at = "Populate"
  /\ sidecar => MaySidecarDie
  /\ sidecar' \in {FALSE, sidecar}
  /\ failed' = failed \cup {request.jar}
  /\ sidecar_lock' = Free
  /\ EndRequest
  /\ UNCHANGED <<requests, loaded, materialized>>
  /\ RequestUnchanged

RequestMarks ==
  /\ request.at = "Mark"
  /\ materialized' = materialized \cup {request.jar}
  /\ sidecar_lock' = Free
  /\ EndRequest
  /\ UNCHANGED <<requests, sidecar, loaded, failed>>
  /\ RequestUnchanged

RequestThread ==
  RequestTriesLock \/ RequestPopulates \/ RequestFails \/ RequestMarks

----------------------------------------------------------------------------

Handler ==
  \/ ReindexClearsFlags
  \/ ReindexClearsTier1
  \/ ClearJarIndex
  \/ ApplyConfig
  \/ EnqueueScan
  \/ SpawnJarIndexing
  \/ JarDone

Next ==
  \/ \E kind \in Kinds, dir \in Roots : TakeEvent(kind, dir)
  \/ Handler
  \/ Diagnose
  \/ ScanResets
  \/ ScanIndexes
  \/ ScanEnds
  \/ \E c \in Crawls : CrawlTask(c)
  \/ \E j \in Jars : RequestBegins(j)
  \/ RequestThread

Spec == Init /\ [][Next]_vars

(* The actor, the scans, the blocking threads and the request threads all  *)
(* keep running; events and requests come from outside, and so does the    *)
(* death of the sidecar.                                                   *)
Fairness ==
  /\ WF_vars(Handler)
  /\ WF_vars(ScanEnds)
  /\ \A c \in Crawls : WF_vars(CrawlTask(c) /\ UNCHANGED sidecar)
  /\ WF_vars(RequestThread)
FairSpec == Spec /\ Fairness

----------------------------------------------------------------------------
(* Properties.                                                             *)

Live(c) == crawl[c].at \notin {"None", "Done"}
Quiet == handler.at = "Idle" /\ \A c \in Crawls : ~Live(c)

(* jar_indexing_in_progress belongs to exactly one crawl that has yet to   *)
(* release it: a second crawl never clears and rebuilds the JAR maps beside *)
(* it, and the flag is never left set by a crawl that is gone.             *)
OneCrawlAtATime ==
  /\ guard <=> \E c \in Crawls : crawl[c].at \in Owning
  /\ \A c, d \in Crawls :
       crawl[c].at \in Owning /\ crawl[d].at \in Owning => c = d

(* abandon_stale_jar_scan: "must not leave jar_phase stuck in a loading    *)
(* state", which would suppress diagnostics for good.  With no crawl left  *)
(* and no event in hand, nothing is still announced as loading.            *)
NeverStuckLoading ==
  Quiet /\ events > 0 /\ handler.kind # "ChangeRoot" => ~IsLoading(phase)

(* The gate "returns a negative verdict only once the queue drains", from  *)
(* the "now-authoritative index": a JVM workspace never loses its Gradle   *)
(* JARs to the race with the scan of its start-up.                         *)
NegativeVerdictIsRight ==
  events = 1 =>
    \A c \in Crawls :
      crawl[c].at \in {"Clear", "Lock", "Manifest"} /\ IsCurrent(c)
        => crawl[c].verdict \/ root \notin JvmRoots

(* A JAR marked materialized has its data, the start-up crawl and the      *)
(* requests beside it once over: materialize_jar_on_demand answers         *)
(* "already materialized" without looking again.                           *)
MaterializedHasData ==
  events = 1 /\ Quiet /\ request.at = "Idle" => materialized \subseteq loaded

(* Every crawl ends: the gate, the sidecar mutex and the map guards never  *)
(* wait for each other in a circle.                                        *)
CrawlsEnd == \A c \in Crawls : crawl[c].at = "Start" ~> crawl[c].at = "Done"

(* Diagnostics that were suppressed while JARs were loading are computed   *)
(* again once the phase has settled.                                       *)
DiagnosticsCatchUp ==
  suppressed /\ ~IsLoading(phase) ~> ~suppressed \/ IsLoading(phase)
=============================================================================
