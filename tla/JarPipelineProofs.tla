-------------------------- MODULE JarPipelineProofs --------------------------
(***************************************************************************)
(* What holds of the JAR pipeline for every set of roots and JARs and      *)
(* every number of events, requests and crawls.                            *)
(*                                                                         *)
(* jar_indexing_in_progress has one owner: OneCrawlAtATime is inductive    *)
(* once the local state of every crawl is a record of its type and an      *)
(* event in hand has a number, so that the crawl it spawns exists          *)
(* (OwnerInv).  What is said of the start-up crawl needs the history of    *)
(* event 1, step by step (StartInv).  That a loading phase is settled      *)
(* needs the steps of a crawl that are yet to settle it (PhaseInv).        *)
(***************************************************************************)
EXTENDS JarPipeline, TLAPS

CrawlRecord == [at : Steps, gen : Nat, verdict : BOOLEAN, paths : SUBSET Jars,
                todo : SUBSET Jars, names : BOOLEAN, alive : BOOLEAN]

(* What a crawl needs of the state that it copies into its own.            *)
CopiedType ==
  /\ generation \in Nat
  /\ jvm \in BOOLEAN
  /\ sidecar \in BOOLEAN
  /\ root \in Roots \cup {NoRoot}
  /\ handler.dir \in Roots \cup {NoRoot}

HandlerSteps == {"Idle", "Flags", "Tier1", "ClearIndex", "Apply",
                 "Enqueue", "Spawn"}
(* The actor's local record keeps its shape.                               *)
HandlerRecord ==
  handler \in [at : HandlerSteps, kind : Kinds, dir : Roots \cup {NoRoot}]

OwnerInv ==
  /\ crawl \in [Crawls -> CrawlRecord]
  /\ events \in Nat
  /\ CopiedType
  /\ handler.at # "Idle" => events \in Crawls
  /\ OneCrawlAtATime

LEMMA InitOwner == Init => OwnerInv
<1> SUFFICES ASSUME Init PROVE OwnerInv
  OBVIOUS
<1> USE JarAssumption
<1>1. NoCrawl \in CrawlRecord
  BY DEF NoCrawl, CrawlRecord, Steps
<1>2. crawl \in [Crawls -> CrawlRecord] /\ CopiedType /\ events \in Nat
  BY <1>1 DEF Init, CopiedType
<1>3. OneCrawlAtATime
  BY DEF Init, OneCrawlAtATime, NoCrawl, Owning
<1>4. QED
  BY <1>2, <1>3 DEF Init, OwnerInv

(* A crawl's move between owning steps, or away from one with the flag     *)
(* released, keeps the ownership; so does any move among the other steps.  *)
LEMMA MoveOwner ==
  ASSUME OwnerInv, NEW c \in Crawls,
         NEW new \in CrawlRecord,
         crawl' = [crawl EXCEPT ![c] = new],
         \/ crawl[c].at \in Owning /\ new.at \in Owning /\ guard' = guard
         \/ crawl[c].at \in Owning /\ new.at \notin Owning /\ guard' = FALSE
         \/ crawl[c].at \notin Owning /\ new.at \notin Owning /\ guard' = guard
         \/ crawl[c].at \notin Owning /\ ~guard /\ new.at \in Owning /\ guard' = TRUE
  PROVE  crawl' \in [Crawls -> CrawlRecord] /\ OneCrawlAtATime'
<1>1. crawl \in [Crawls -> CrawlRecord]
  BY DEF OwnerInv
<1>2. crawl' \in [Crawls -> CrawlRecord]
  BY <1>1
<1>3. crawl'[c] = new /\ \A d \in Crawls : d # c => crawl'[d] = crawl[d]
  BY <1>1
<1>4. OneCrawlAtATime'
  BY <1>3 DEF OwnerInv, OneCrawlAtATime
<1>5. QED
  BY <1>2, <1>4

(* Every step of a crawl preserves the invariant.                          *)
LEMMA CrawlOwner ==
  ASSUME OwnerInv, NEW c \in Crawls, CrawlTask(c)
  PROVE  OwnerInv'
<1> USE JarAssumption
<1>1. crawl[c] \in CrawlRecord /\ crawl \in [Crawls -> CrawlRecord]
  BY DEF OwnerInv
<1>2. CopiedType
  BY DEF OwnerInv
<1>3. ASSUME UNCHANGED <<root, generation, jvm, events, handler>>,
             sidecar' \in BOOLEAN,
             crawl' \in [Crawls -> CrawlRecord], OneCrawlAtATime'
      PROVE  OwnerInv'
  BY <1>2, <1>3 DEF OwnerInv, CopiedType
<1>4. ASSUME NEW to \in Steps, NEW from \in Steps, Crawl(c, from, to),
             \/ from \in Owning /\ to \in Owning /\ guard' = guard
             \/ from \in Owning /\ to \notin Owning /\ guard' = FALSE
             \/ from \notin Owning /\ to \notin Owning /\ guard' = guard
      PROVE  crawl' \in [Crawls -> CrawlRecord] /\ OneCrawlAtATime'
  <2> DEFINE new == [crawl[c] EXCEPT !.at = to]
  <2>1. crawl' = [crawl EXCEPT ![c] = new] /\ crawl[c].at = from
    BY <1>4 DEF Crawl
  <2>2. new \in CrawlRecord /\ new.at = to
    BY <1>1 DEF CrawlRecord
  <2> HIDE DEF new
  <2>3. QED
    BY <1>4, <2>1, <2>2, MoveOwner
<1>5. ASSUME NEW from \in Owning, NEW to \in Owning, CheckPoint(c, from, to)
      PROVE  OwnerInv'
  <2>1. Crawl(c, from, IF IsCurrent(c) THEN to ELSE "Abandon") /\ guard' = guard
    BY <1>5 DEF CheckPoint
  <2>2. UNCHANGED <<root, generation, jvm, events, handler, sidecar>>
    BY <1>5 DEF CheckPoint, CrawlUnchanged, scanVars
  <2>3. (IF IsCurrent(c) THEN to ELSE "Abandon") \in Owning
    BY DEF Owning
  <2>4. crawl' \in [Crawls -> CrawlRecord] /\ OneCrawlAtATime'
    BY <2>1, <2>3, <1>4 DEF Steps
  <2>5. QED
    BY <2>2, <2>4, <1>2, <1>3 DEF CopiedType
<1>6. ASSUME NEW from \in Owning, NEW v \in BOOLEAN, Decide(c, from, v),
             UNCHANGED <<root, generation, jvm, events, handler, sidecar,
                         guard>>
      PROVE  OwnerInv'
  <2> DEFINE new == [crawl[c] EXCEPT !.at = "Paths", !.verdict = v]
  <2>1. crawl' = [crawl EXCEPT ![c] = new] /\ crawl[c].at = from
    BY <1>6 DEF Decide
  <2>2. new \in CrawlRecord /\ new.at = "Paths"
    BY <1>1 DEF CrawlRecord, Steps, Owning
  <2> HIDE DEF new
  <2>3. crawl' \in [Crawls -> CrawlRecord] /\ OneCrawlAtATime'
    BY <1>6, <2>1, <2>2, MoveOwner DEF Owning
  <2>4. QED
    BY <2>3, <1>2, <1>3, <1>6 DEF CopiedType
<1>7. CASE CrawlStarts(c) \/ GateGeneration(c) \/ CrawlChecks(c)
           \/ CrawlFinalChecks(c) \/ CrawlSources(c)
  BY <1>5, <1>7 DEF CrawlStarts, GateGeneration, CrawlChecks,
     CrawlFinalChecks,
                    CrawlSources, Owning
<1>8. CASE GateIndex(c)
  <2>1. UNCHANGED <<root, generation, jvm, events, handler, sidecar, guard>>
    BY <1>8 DEF GateIndex, CrawlUnchanged, scanVars
  <2>2. CASE Decide(c, "GateIndex", TRUE)
    BY <2>1, <2>2, <1>6 DEF Owning
  <2>3. CASE Crawl(c, "GateIndex", "GateScanning")
    <3>1. crawl' \in [Crawls -> CrawlRecord] /\ OneCrawlAtATime'
      BY <2>1, <2>3, <1>4 DEF Steps, Owning
    <3>2. QED
      BY <3>1, <2>1, <1>2, <1>3 DEF CopiedType
  <2>4. QED
    BY <1>8, <2>2, <2>3 DEF GateIndex
<1>9. CASE GateScanning(c)
  <2>1. UNCHANGED <<root, generation, jvm, events, handler, sidecar, guard>>
    BY <1>9 DEF GateScanning, CrawlUnchanged, scanVars
  <2>2. crawl' \in [Crawls -> CrawlRecord] /\ OneCrawlAtATime'
    BY <2>1, <1>9, <1>4 DEF GateScanning, Steps, Owning
  <2>3. QED
    BY <2>1, <2>2, <1>2, <1>3 DEF CopiedType
<1>10. CASE GateAgain(c)
  <2>1. UNCHANGED <<root, generation, jvm, events, handler, sidecar, guard>>
    BY <1>10 DEF GateAgain, CrawlUnchanged, scanVars
  <2>2. QED
    BY <2>1, <1>2, <1>6, <1>10 DEF GateAgain, CopiedType, Owning
<1>11. CASE CrawlCollectsPaths(c)
  <2> DEFINE paths == JarsOf(root, crawl[c].verdict)
             new == [crawl[c] EXCEPT !.at = "Check", !.paths = paths, !.todo = paths]
  <2>1. UNCHANGED <<root, generation, jvm, events, handler, sidecar, guard>>
    BY <1>11 DEF CrawlCollectsPaths, CrawlUnchanged, scanVars
  <2>2. paths \in SUBSET Jars
    BY <1>2 DEF CopiedType, JarsOf, Jars
  <2>3. crawl' = [crawl EXCEPT ![c] = new] /\ crawl[c].at = "Paths"
    BY <1>11 DEF CrawlCollectsPaths
  <2> HIDE DEF paths
  <2>4. new \in CrawlRecord /\ new.at = "Check"
    BY <1>1, <2>2 DEF CrawlRecord, Steps, Owning
  <2> HIDE DEF new
  <2>5. crawl' \in [Crawls -> CrawlRecord] /\ OneCrawlAtATime'
    BY <2>1, <2>3, <2>4, MoveOwner DEF Owning
  <2>6. QED
    BY <2>1, <2>5, <1>2, <1>3 DEF CopiedType
<1>12. CASE \/ CrawlClears(c) \/ CrawlLocks(c) \/ CrawlFinishes(c)
            \/ CrawlReleases(c) \/ CrawlAbandons(c) \/ CrawlAbandonsPhase(c)
            \/ CrawlSignals(c)
  <2>1. UNCHANGED <<root, generation, jvm, events, handler, sidecar>>
    BY <1>12 DEF CrawlClears, CrawlLocks, CrawlFinishes, CrawlReleases,
                 CrawlAbandons, CrawlAbandonsPhase, CrawlSignals,
                 CrawlUnchanged, scanVars
  <2>2. crawl' \in [Crawls -> CrawlRecord] /\ OneCrawlAtATime'
    BY <1>12, <1>4 DEF CrawlClears, CrawlLocks, CrawlFinishes, CrawlReleases,
                 CrawlAbandons, CrawlAbandonsPhase, CrawlSignals,
                 Steps, Owning, Ending
  <2>3. QED
    BY <2>1, <2>2, <1>2, <1>3 DEF CopiedType
<1>13. CASE \E j \in Jars : CrawlManifests(c, j)
  <2> PICK j \in Jars : CrawlManifests(c, j)
    BY <1>13
  <2> DEFINE new == [crawl[c] EXCEPT !.todo = @ \ {j}, !.names = TRUE]
  <2>1. UNCHANGED <<root, generation, jvm, events, handler, sidecar, guard>>
    BY DEF CrawlManifests, CrawlUnchanged, scanVars
  <2>2. crawl' = [crawl EXCEPT ![c] = new] /\ crawl[c].at = "Manifest"
    BY DEF CrawlManifests
  <2>3. new \in CrawlRecord /\ new.at = "Manifest"
    BY <1>1, <2>2 DEF CrawlRecord
  <2> HIDE DEF new
  <2>4. crawl' \in [Crawls -> CrawlRecord] /\ OneCrawlAtATime'
    BY <2>1, <2>2, <2>3, MoveOwner DEF Owning
  <2>5. QED
    BY <2>1, <2>4, <1>2, <1>3 DEF CopiedType
<1>14. CASE CrawlLosesSidecar(c)
  <2> DEFINE new == [crawl[c] EXCEPT !.todo = {}]
  <2>1. UNCHANGED <<root, generation, jvm, events, handler,
                    guard>> /\ sidecar' = FALSE
    BY <1>14 DEF CrawlLosesSidecar, CrawlUnchanged, scanVars
  <2>2. crawl' = [crawl EXCEPT ![c] = new] /\ crawl[c].at = "Manifest"
    BY <1>14 DEF CrawlLosesSidecar
  <2>3. new \in CrawlRecord /\ new.at = "Manifest"
    BY <1>1, <2>2 DEF CrawlRecord
  <2> HIDE DEF new
  <2>4. crawl' \in [Crawls -> CrawlRecord] /\ OneCrawlAtATime'
    BY <2>1, <2>2, <2>3, MoveOwner DEF Owning
  <2>5. QED
    BY <2>1, <2>4, <1>3
<1>15. CASE CrawlUnlocks(c)
  <2> DEFINE new == [crawl[c] EXCEPT !.at = "Sources", !.alive = sidecar]
  <2>1. UNCHANGED <<root, generation, jvm, events, handler, sidecar, guard>>
    BY <1>15 DEF CrawlUnlocks, CrawlUnchanged, scanVars
  <2>2. crawl' = [crawl EXCEPT ![c] = new] /\ crawl[c].at = "Manifest"
    BY <1>15 DEF CrawlUnlocks
  <2>3. new \in CrawlRecord /\ new.at = "Sources"
    BY <1>1, <1>2 DEF CrawlRecord, CopiedType, Steps, Owning
  <2> HIDE DEF new
  <2>4. crawl' \in [Crawls -> CrawlRecord] /\ OneCrawlAtATime'
    BY <2>1, <2>2, <2>3, MoveOwner DEF Owning
  <2>5. QED
    BY <2>1, <2>4, <1>2, <1>3 DEF CopiedType
<1>16. QED
  BY <1>7, <1>8, <1>9, <1>10, <1>11, <1>12, <1>13, <1>14, <1>15 DEF CrawlTask

(* So does a step that touches no crawl, as long as types are kept and an  *)
(* event in hand keeps its number.                                         *)
LEMMA OtherOwner ==
  ASSUME OwnerInv, UNCHANGED <<crawl, guard>>, CopiedType',
         events' \in Nat, handler'.at # "Idle" => events' \in Crawls
  PROVE  OwnerInv'
BY DEF OwnerInv, OneCrawlAtATime

(* Taking an event: it gets the next number.                               *)
LEMMA EventOwner ==
  ASSUME OwnerInv, NEW kind \in Kinds, NEW dir \in Roots, TakeEvent(kind, dir)
  PROVE  OwnerInv'
<1> USE JarAssumption
<1>1. /\ UNCHANGED <<crawl, guard, root, generation, jvm, sidecar>>
      /\ events' = events + 1 /\ events < MaxEvents /\ events \in Nat
      /\ handler'.dir = dir
  BY DEF TakeEvent, scanVars, OwnerInv
<1>2. CopiedType'
  BY <1>1 DEF OwnerInv, CopiedType
<1>3. events' \in Nat /\ events' \in Crawls
  BY <1>1 DEF Crawls
<1>4. QED
  BY <1>1, <1>2, <1>3, OtherOwner

(* The actor preserves it: a crawl is spawned only under a free flag.      *)
LEMMA HandlerOwner ==
  ASSUME OwnerInv, Handler, HandlerRecord
  PROVE  OwnerInv'
<1> USE JarAssumption
<1>1. CopiedType /\ events \in Nat /\ crawl \in [Crawls -> CrawlRecord]
  BY DEF OwnerInv
<1>2. ASSUME NEW from \in HandlerSteps \ {"Idle"}, NEW to \in HandlerSteps,
             Handle(from, to)
      PROVE  /\ UNCHANGED <<events, sidecar>> /\ events \in Crawls
             /\ handler'.dir = handler.dir
  BY <1>2 DEF Handle, OwnerInv, HandlerRecord
<1>3. CASE SpawnJarIndexing /\ MaySpawn
  <2> DEFINE new == [crawl[events] EXCEPT !.at = "Start", !.gen = generation]
  <2>1. /\ events \in Crawls /\ handler'.dir = handler.dir
        /\ UNCHANGED <<events, sidecar>>
    BY <1>2, <1>3 DEF SpawnJarIndexing, HandlerSteps
  <2>2. /\ crawl' = [crawl EXCEPT ![events] = new]
        /\ guard' = TRUE /\ ~guard
        /\ UNCHANGED <<root, generation, jvm>>
    BY <1>3 DEF SpawnJarIndexing, MaySpawn, scanVars
  <2>c. crawl[events] \in CrawlRecord
    BY <1>1, <2>1
  <2>3. new \in CrawlRecord /\ new.at = "Start"
    BY <1>1, <2>c DEF CrawlRecord, CopiedType, Steps, Owning
  <2>4. crawl[events].at \notin Owning
    BY <2>1, <2>2 DEF OwnerInv, OneCrawlAtATime
  <2> HIDE DEF new
  <2>5. crawl' \in [Crawls -> CrawlRecord] /\ OneCrawlAtATime'
    BY <2>1, <2>2, <2>3, <2>4, MoveOwner DEF Owning
  <2>6. QED
    BY <2>1, <2>2, <2>5, <1>1 DEF OwnerInv, CopiedType
<1>4. CASE SpawnJarIndexing /\ ~MaySpawn
  <2>1. /\ events \in Crawls /\ handler'.dir = handler.dir
        /\ UNCHANGED <<events, sidecar>>
    BY <1>2, <1>4 DEF SpawnJarIndexing, HandlerSteps
  <2>2. UNCHANGED <<crawl, guard, root, generation, jvm>>
    BY <1>4 DEF SpawnJarIndexing, scanVars
  <2>3. QED
    BY <2>1, <2>2, <1>1, OtherOwner DEF CopiedType
<1>5. CASE ReindexClearsFlags \/ ReindexClearsTier1 \/ ClearJarIndex
  <2>1. /\ events \in Crawls /\ handler'.dir = handler.dir
        /\ UNCHANGED <<events, sidecar>>
    BY <1>2, <1>5 DEF ReindexClearsFlags, ReindexClearsTier1, ClearJarIndex,
       HandlerSteps
  <2>2. UNCHANGED <<crawl, guard, root, generation, jvm>>
    BY <1>5 DEF ReindexClearsFlags, ReindexClearsTier1, ClearJarIndex,
       scanVars
  <2>3. QED
    BY <2>1, <2>2, <1>1, OtherOwner DEF CopiedType
<1>6. CASE ApplyConfig \/ EnqueueScan
  <2>1. /\ events \in Crawls /\ handler'.dir = handler.dir
        /\ UNCHANGED <<events, sidecar>>
    BY <1>2, <1>6 DEF ApplyConfig, EnqueueScan, HandlerSteps
  <2>2. /\ UNCHANGED <<crawl, guard, jvm>>
        /\ root' \in {root, handler.dir}
        /\ generation' \in {generation, generation + 1}
    BY <1>6 DEF ApplyConfig, EnqueueScan, scanVars
  <2>3. QED
    BY <2>1, <2>2, <1>1, OtherOwner DEF CopiedType
<1>7. CASE JarDone
  <2>1. UNCHANGED <<crawl, guard, root, generation, jvm, events, sidecar,
                    handler>>
    BY <1>7 DEF JarDone, scanVars
  <2>2. QED
    BY <2>1, <1>1, OtherOwner DEF CopiedType, OwnerInv
<1>8. QED
  BY <1>3, <1>4, <1>5, <1>6, <1>7 DEF Handler

(* Scans, request threads and documents never touch a crawl.               *)
LEMMA OutsideOwner ==
  ASSUME OwnerInv,
         \/ Diagnose \/ ScanResets \/ ScanIndexes \/ ScanEnds
         \/ \E j \in Jars : RequestBegins(j)
         \/ RequestThread
         \/ UNCHANGED vars
  PROVE  OwnerInv'
<1>1. /\ UNCHANGED <<crawl, guard, root, generation, events, handler>>
      /\ jvm' \in BOOLEAN /\ sidecar' \in BOOLEAN
  <2>0. jvm \in BOOLEAN /\ sidecar \in BOOLEAN /\ (root \in JvmRoots) \in BOOLEAN
    BY DEF OwnerInv, CopiedType
  <2>1. CASE Diagnose \/ ScanResets \/ ScanIndexes \/ ScanEnds
    <3>1. CASE Diagnose \/ ScanResets
      BY <2>0, <3>1 DEF Diagnose, ScanResets, ScanUnchanged, scanVars
    <3>2. CASE ScanIndexes
      BY <2>0, <3>2 DEF ScanIndexes, ScanUnchanged
    <3>3. CASE ScanEnds
      BY <2>0, <3>3 DEF ScanEnds, ScanUnchanged
    <3>4. QED
      BY <2>1, <3>1, <3>2, <3>3
  <2>2. CASE (\E j \in Jars : RequestBegins(j)) \/ RequestThread
    BY <2>2 DEF RequestBegins, RequestThread, RequestTriesLock,
                RequestPopulates, RequestFails, RequestMarks, RequestUnchanged,
                scanVars, OwnerInv, CopiedType
  <2>3. CASE UNCHANGED vars
    BY <2>3 DEF vars, OwnerInv, CopiedType
  <2>4. QED
    BY <2>1, <2>2, <2>3
<1>2. QED
  BY <1>1, OtherOwner DEF OwnerInv, CopiedType

LEMMA InitHandler == Init => HandlerRecord
  BY DEF Init, HandlerRecord, HandlerSteps, Kinds

LEMMA NextHandler == HandlerRecord /\ [Next]_vars => HandlerRecord'
<1> SUFFICES ASSUME HandlerRecord, [Next]_vars PROVE HandlerRecord'
  OBVIOUS
<1>1. ASSUME NEW kind \in Kinds, NEW dir \in Roots, TakeEvent(kind, dir)
      PROVE  HandlerRecord'
  BY <1>1 DEF TakeEvent, FirstStep, HandlerRecord, HandlerSteps
<1>2. ASSUME NEW from, NEW to \in HandlerSteps, Handle(from, to)
      PROVE  HandlerRecord'
  BY <1>2 DEF Handle, HandlerRecord
<1>3. CASE Handler
  <2>1. CASE JarDone
    BY <2>1 DEF JarDone, HandlerRecord
  <2>2. CASE ~JarDone
    BY <1>2, <1>3, <2>2 DEF Handler, ReindexClearsFlags, ReindexClearsTier1,
       ClearJarIndex, ApplyConfig, EnqueueScan, SpawnJarIndexing, HandlerSteps
  <2>3. QED
    BY <2>1, <2>2
<1>4. CASE handler' = handler
  BY <1>4 DEF HandlerRecord
<1>5. ASSUME NEW c \in Crawls, CrawlTask(c)
      PROVE  handler' = handler
  BY <1>5 DEF CrawlTask, CrawlStarts, GateGeneration, GateIndex, GateScanning,
     GateAgain, CrawlCollectsPaths, CrawlChecks, CrawlClears, CrawlLocks,
     CrawlManifests, CrawlLosesSidecar, CrawlUnlocks, CrawlSources,
     CrawlFinalChecks, CrawlFinishes, CrawlReleases, CrawlAbandons,
     CrawlAbandonsPhase, CrawlSignals, CheckPoint, CrawlUnchanged
<1>6. CASE \/ Diagnose \/ ScanResets \/ ScanIndexes \/ ScanEnds
           \/ UNCHANGED vars
  BY <1>4, <1>6 DEF Diagnose, ScanResets, ScanIndexes, ScanEnds,
     ScanUnchanged, vars
<1>7. CASE (\E j \in Jars : RequestBegins(j)) \/ RequestThread
  BY <1>4, <1>7 DEF RequestBegins, RequestThread, RequestTriesLock,
     RequestPopulates, RequestFails, RequestMarks, RequestUnchanged
<1>8. QED
  BY <1>1, <1>3, <1>4, <1>5, <1>6, <1>7 DEF Next

-----------------------------------------------------------------------------
(* Type correctness.                                                       *)

Phases == {"Unavailable", "Pending", "InProgress", "Ready", "Failed"}
RequestRecord == [at : {"Idle", "TryLock", "Populate", "Mark"}, jar : Jars \cup {NoJar}]

(* What OwnerInv and HandlerRecord leave of the type invariant.            *)
RestTyped ==
  /\ pinned \in BOOLEAN /\ scans \in 0..2 /\ events \in 0..MaxEvents
  /\ guard \in BOOLEAN /\ phase \in Phases
  /\ sidecar_lock \in {Free, Requester} \cup Crawls
  /\ tier1 \in SUBSET Jars /\ loaded \in SUBSET Jars
  /\ materialized \in SUBSET Jars /\ failed \in SUBSET Jars
  /\ request \in RequestRecord /\ requests \in 0..MaxRequests
  /\ request.at # "Idle" => request.jar \in Jars
  /\ jar_done \in Nat /\ suppressed \in BOOLEAN

LEMMA InitRest == Init => RestTyped
<1> SUFFICES ASSUME Init PROVE RestTyped
  OBVIOUS
<1>1. request \in RequestRecord /\ request.at = "Idle"
  BY DEF Init, RequestRecord
<1>2. phase \in Phases
  BY DEF Init, Phases
<1>3. events \in 0..MaxEvents /\ requests \in 0..MaxRequests
  BY JarAssumption DEF Init
<1>4. /\ pinned = FALSE /\ guard = FALSE /\ suppressed = FALSE
      /\ scans = 0 /\ jar_done = 0
      /\ sidecar_lock \in {Free, Requester} \cup Crawls
  BY DEF Init
<1>5. /\ tier1 \in SUBSET Jars /\ loaded \in SUBSET Jars
      /\ materialized \in SUBSET Jars /\ failed \in SUBSET Jars
  BY DEF Init
<1>6. pinned \in BOOLEAN /\ guard \in BOOLEAN /\ suppressed \in BOOLEAN
  BY <1>4, Zenon
<1>7. scans \in 0..2 /\ jar_done \in Nat
  BY <1>4
<1>8. QED
  BY <1>1, <1>2, <1>3, <1>4, <1>5, <1>6, <1>7 DEF RestTyped

LEMMA LoadingIsBoolean == IsLoading(phase) \in BOOLEAN
BY DEF IsLoading

LEMMA CrawlRest ==
  ASSUME OwnerInv, RestTyped, NEW c \in Crawls, CrawlTask(c)
  PROVE  RestTyped'
<1>1. crawl[c] \in CrawlRecord
  BY DEF OwnerInv
<1>2. UNCHANGED <<pinned, scans, events, request, requests, materialized,
                  failed, suppressed>>
  BY DEF CrawlTask, CrawlStarts, GateGeneration, GateIndex, GateScanning,
     GateAgain, CrawlCollectsPaths, CrawlChecks, CrawlClears, CrawlLocks,
     CrawlManifests, CrawlLosesSidecar, CrawlUnlocks, CrawlSources,
     CrawlFinalChecks, CrawlFinishes, CrawlReleases, CrawlAbandons,
     CrawlAbandonsPhase, CrawlSignals, CheckPoint, CrawlUnchanged, scanVars
<1>3. guard' \in BOOLEAN /\ phase' \in Phases
  <2>1. CASE CrawlFinishes(c)
    BY <2>1 DEF CrawlFinishes, FinalPhase, RestTyped, Phases
  <2>2. CASE CrawlReleases(c) \/ CrawlAbandons(c) \/ CrawlAbandonsPhase(c)
    BY <2>2 DEF CrawlReleases, CrawlAbandons, CrawlAbandonsPhase, RestTyped,
       Phases
  <2>3. CASE UNCHANGED <<guard, phase>>
    BY <2>3 DEF RestTyped
  <2>4. QED
    BY <2>1, <2>2, <2>3
     DEF CrawlTask, CrawlStarts, GateGeneration, GateIndex, GateScanning,
     GateAgain, CrawlCollectsPaths, CrawlChecks, CrawlClears, CrawlLocks,
     CrawlManifests, CrawlLosesSidecar, CrawlUnlocks, CrawlSources,
     CrawlFinalChecks, CrawlSignals, CheckPoint
<1>4. /\ sidecar_lock' \in {sidecar_lock, Free, c} /\ jar_done' \in {jar_done, jar_done + 1}
      /\ tier1' \in SUBSET Jars /\ loaded' \in {loaded, {}}
  <2>1. CASE CrawlLocks(c) \/ CrawlUnlocks(c)
    BY <2>1 DEF CrawlLocks, CrawlUnlocks, RestTyped
  <2>2. CASE (\E j \in Jars : CrawlManifests(c, j)) \/ CrawlClears(c)
    BY <2>2 DEF CrawlManifests, CrawlClears, RestTyped
  <2>3. CASE CrawlSignals(c)
    BY <2>3 DEF CrawlSignals, RestTyped
  <2>4. CASE UNCHANGED <<sidecar_lock, jar_done, tier1, loaded>>
    BY <2>4 DEF RestTyped
  <2>5. QED
    BY <2>1, <2>2, <2>3, <2>4
     DEF CrawlTask, CrawlStarts, GateGeneration, GateIndex, GateScanning,
     GateAgain, CrawlCollectsPaths, CrawlChecks, CrawlLosesSidecar, CrawlSources,
     CrawlFinalChecks, CrawlFinishes, CrawlReleases, CrawlAbandons,
     CrawlAbandonsPhase, CheckPoint
<1>5. QED
  BY <1>2, <1>3, <1>4 DEF RestTyped

LEMMA OtherRest ==
  ASSUME OwnerInv, HandlerRecord, RestTyped, [Next]_vars,
         ~ \E c \in Crawls : CrawlTask(c)
  PROVE  RestTyped'
<1> USE JarAssumption
<1>1. ASSUME NEW kind \in Kinds, NEW dir \in Roots, TakeEvent(kind, dir)
      PROVE  RestTyped'
  BY <1>1 DEF TakeEvent, scanVars, jarVars, RestTyped
<1>2. CASE ReindexClearsFlags \/ ReindexClearsTier1
  BY <1>2 DEF ReindexClearsFlags, ReindexClearsTier1, Handle, scanVars,
     RestTyped
<1>3. CASE ClearJarIndex
  BY <1>3 DEF ClearJarIndex, Handle, scanVars, RestTyped, Phases
<1>4. CASE ApplyConfig
  BY <1>4 DEF ApplyConfig, Handle, scanVars, jarVars, RestTyped
<1>5. CASE EnqueueScan
  BY <1>5 DEF EnqueueScan, Handle, jarVars, RestTyped
<1>6. CASE SpawnJarIndexing
  BY <1>6 DEF SpawnJarIndexing, Handle, scanVars, jarVars, RestTyped, Phases
<1>7. CASE JarDone
  BY <1>7, LoadingIsBoolean DEF JarDone, scanVars, jarVars, RestTyped
<1>8. CASE Diagnose
  BY <1>8, LoadingIsBoolean DEF Diagnose, scanVars, jarVars, RestTyped
<1>9. CASE ScanResets \/ ScanIndexes
  BY <1>9 DEF ScanResets, ScanIndexes, ScanUnchanged, jarVars, RestTyped
<1>10. CASE ScanEnds
  BY <1>10, LoadingIsBoolean DEF ScanEnds, ScanUnchanged, jarVars, RestTyped
<1>11. ASSUME NEW j \in Jars, RequestBegins(j)
       PROVE  RestTyped'
  BY <1>11 DEF RequestBegins, RequestUnchanged, scanVars, RestTyped,
     RequestRecord
<1>12. CASE RequestThread
  <2>1. CASE RequestTriesLock
    BY <2>1 DEF RequestTriesLock, EndRequest, RequestUnchanged, scanVars,
       RestTyped,
                RequestRecord
  <2>2. CASE RequestPopulates
    BY <2>2 DEF RequestPopulates, RequestUnchanged, scanVars, RestTyped,
       RequestRecord
  <2>3. CASE RequestFails
    BY <2>3 DEF RequestFails, EndRequest, RequestUnchanged, scanVars,
       RestTyped,
                RequestRecord
  <2>4. CASE RequestMarks
    BY <2>4 DEF RequestMarks, EndRequest, RequestUnchanged, scanVars,
       RestTyped,
                RequestRecord
  <2>5. QED
    BY <1>12, <2>1, <2>2, <2>3, <2>4 DEF RequestThread
<1>13. CASE UNCHANGED vars
  BY <1>13 DEF vars, scanVars, RestTyped
<1>14. QED
  BY <1>1, <1>2, <1>3, <1>4, <1>5, <1>6, <1>7, <1>8, <1>9, <1>10, <1>11,
     <1>12, <1>13
     DEF Next, Handler

-----------------------------------------------------------------------------
(* The start-up crawl, that of event 1, and the phase.                     *)

(* Steps of a crawl before it has dropped the JAR data, steps at which it  *)
(* has a verdict, and steps that a settled phase is yet to follow.         *)
Early == {"Start", "GateGeneration", "GateIndex", "GateScanning", "GateAgain",
          "Paths", "Check", "Clear"}
Decided == {"Paths", "Check", "Clear", "Lock", "Manifest"}
Settling == (Owning \ {"Release"}) \cup {"AbandonPhase"}

BeforeSpawn == events = 0 \/ (events = 1 /\ handler.at # "Idle")
Untouched == tier1 = {} /\ materialized = {} /\ request.at = "Idle"

(* The first event is Initialize, which clears nothing.                    *)
FirstInv ==
  events <= 1 =>
    /\ handler.kind = "Initialize" /\ handler.at \in {"Idle", "Apply", "Enqueue", "Spawn"}
    /\ events = 0 => handler.at = "Idle" /\ root = NoRoot

(* Until it has spawned its crawl nothing has happened to the JARs.        *)
SpawnInv ==
  BeforeSpawn =>
    /\ Untouched /\ sidecar_lock = Free
    /\ \A c \in Crawls : crawl[c].at = "None"
    /\ IsLoading(phase) => sidecar

(* Its one scan leaves the index of its root.                              *)
GateInv ==
  events <= 1 =>
    /\ scans <= 1 /\ (events = 0 \/ handler.at \in {"Apply", "Enqueue"} => scans = 0)
    /\ handler.at = "Spawn" => scans = 1
    /\ events = 1 /\ handler.at = "Idle" /\ scans = 0 => jvm = (root \in JvmRoots)
    /\ \A c \in Crawls : crawl[c].at = "GateAgain" => scans = 0
    /\ \A c \in Crawls :
         crawl[c].at \in Decided => crawl[c].verdict \/ root \notin JvmRoots

(* Requests find names, and data to mark, only behind its Clear step.      *)
DataInv ==
  events <= 1 =>
    /\ materialized \subseteq loaded
    /\ request.at = "Mark" => request.jar \in loaded
    /\ (\E c \in Crawls : crawl[c].at \in Early) => Untouched

(* What is announced as loading is due to be settled by a crawl.           *)
PhaseInv ==
  IsLoading(phase) => BeforeSpawn \/ \E c \in Crawls : crawl[c].at \in Settling

StartInv == FirstInv /\ SpawnInv /\ GateInv /\ DataInv

(* How a step of a crawl bears on all this.                                *)
CrawlEffect(c) ==
  /\ crawl[c].at # "None" /\ crawl'[c].at # "None"
  /\ crawl'[c].at \in Early => crawl[c].at \in Early
  /\ loaded' = loaded \/ crawl[c].at \in Early
  /\ tier1' = tier1 \/ crawl[c].at = "Manifest"
  /\ crawl'[c].at = "GateAgain" => scans = 0
  /\ crawl'[c].at \in Decided =>
       \/ crawl[c].at \in Decided /\ crawl'[c].verdict = crawl[c].verdict
       \/ crawl'[c].verdict = TRUE
       \/ crawl[c].at = "GateAgain" /\ crawl'[c].verdict = jvm
  /\ \/ ~IsLoading(phase')
     \/ phase' = phase /\ (crawl[c].at \in Settling => crawl'[c].at \in Settling)

LEMMA CrawlStep ==
  ASSUME OwnerInv, RestTyped, NEW c \in Crawls, CrawlTask(c)
  PROVE  /\ UNCHANGED <<root, scans, jvm, events, handler, request,
                        materialized>>
         /\ \A d \in Crawls : d # c => crawl'[d] = crawl[d]
         /\ CrawlEffect(c)
<1>1. crawl[c] \in CrawlRecord /\ crawl \in [Crawls -> CrawlRecord]
  BY DEF OwnerInv
<1>2. UNCHANGED <<root, scans, jvm, events, handler, request, materialized>>
  BY DEF CrawlTask, CrawlStarts, GateGeneration, GateIndex, GateScanning,
     GateAgain, CrawlCollectsPaths, CrawlChecks, CrawlClears, CrawlLocks,
     CrawlManifests, CrawlLosesSidecar, CrawlUnlocks, CrawlSources,
     CrawlFinalChecks, CrawlFinishes, CrawlReleases, CrawlAbandons,
     CrawlAbandonsPhase, CrawlSignals, CheckPoint, CrawlUnchanged, scanVars
<1>3. \A d \in Crawls : d # c => crawl'[d] = crawl[d]
  BY <1>1 DEF CrawlTask, CrawlStarts, GateGeneration, GateIndex, GateScanning,
     GateAgain, CrawlCollectsPaths, CrawlChecks, CrawlClears, CrawlLocks,
     CrawlManifests, CrawlLosesSidecar, CrawlUnlocks, CrawlSources,
     CrawlFinalChecks, CrawlFinishes, CrawlReleases, CrawlAbandons,
     CrawlAbandonsPhase, CrawlSignals, CheckPoint, Crawl, Decide
<1> SUFFICES CrawlEffect(c)
  BY <1>2, <1>3
<1>4. ASSUME NEW from, NEW to, Crawl(c, from, to)
      PROVE  crawl[c].at = from /\ crawl'[c].at = to /\ crawl'[c].verdict = crawl[c].verdict
  BY <1>1, <1>4 DEF Crawl, CrawlRecord
<1>5. ASSUME NEW from, NEW to, CheckPoint(c, from, to),
             from \in Settling /\ to \in Settling,
             to \in Early => from \in Early, to # "GateAgain",
             to \in Decided => from \in Decided
      PROVE  CrawlEffect(c)
  <2>1. PICK next \in {to, "Abandon"} : Crawl(c, from, next)
    BY <1>5 DEF CheckPoint
  <2>2. /\ crawl[c].at = from /\ crawl'[c].at = next
        /\ crawl'[c].verdict = crawl[c].verdict
    BY <1>4, <2>1
  <2>3. UNCHANGED <<loaded, tier1, phase>>
    BY <1>5 DEF CheckPoint
  <2>4. CASE next = "Abandon"
    BY <1>5, <2>2, <2>3, <2>4 DEF CrawlEffect, Settling, Owning, Early,
       Decided
  <2>5. CASE next = to
    BY <1>5, <2>2, <2>3, <2>5 DEF CrawlEffect, Settling, Owning
  <2>6. QED
    BY <2>1, <2>4, <2>5
<1>6. CASE \/ CrawlStarts(c) \/ GateGeneration(c) \/ CrawlChecks(c)
           \/ CrawlFinalChecks(c) \/ CrawlSources(c)
  BY <1>5, <1>6 DEF CrawlStarts, GateGeneration, CrawlChecks,
     CrawlFinalChecks,
                    CrawlSources, Settling, Owning, Early, Decided
<1>7. ASSUME NEW from \in {"GateIndex", "GateAgain"}, NEW v \in BOOLEAN, Decide(c, from, v),
             v = TRUE \/ (from = "GateAgain" /\ v = jvm),
             UNCHANGED <<loaded, tier1, phase>>
      PROVE  CrawlEffect(c)
  <2>1. crawl[c].at = from /\ crawl'[c].at = "Paths" /\ crawl'[c].verdict = v
    BY <1>1, <1>7 DEF Decide, CrawlRecord
  <2>2. QED
    BY <1>7, <2>1 DEF CrawlEffect, Settling, Owning, Early, Decided
<1>8. CASE GateIndex(c)
  <2>1. CASE Decide(c, "GateIndex", TRUE)
    BY <1>7, <1>8, <2>1 DEF GateIndex
  <2>2. CASE Crawl(c, "GateIndex", "GateScanning")
    <3>1. /\ crawl[c].at = "GateIndex" /\ crawl'[c].at = "GateScanning"
          /\ UNCHANGED <<loaded, tier1, phase>>
      BY <1>4, <1>8, <2>2 DEF GateIndex
    <3>2. /\ crawl[c].at \in Early /\ crawl'[c].at \notin Decided
          /\ crawl'[c].at \in Settling
      BY <3>1 DEF Settling, Owning, Early, Decided
    <3>3. QED
      BY <3>1, <3>2 DEF CrawlEffect
  <2>3. QED
    BY <1>8, <2>1, <2>2 DEF GateIndex
<1>9. CASE GateScanning(c)
  <2>1. scans \in 0..2
    BY DEF RestTyped
  <2>2. PICK next \in {"GateGeneration", "GateAgain"} :
          Crawl(c, "GateScanning", next) /\ (next = "GateAgain" => scans = 0)
    BY <1>9, <2>1 DEF GateScanning
  <2>3. /\ crawl[c].at = "GateScanning" /\ crawl'[c].at = next
        /\ UNCHANGED <<loaded, tier1, phase>>
    BY <1>4, <1>9, <2>2 DEF GateScanning
  <2>4. /\ crawl[c].at \in Early /\ crawl'[c].at \notin Decided
        /\ crawl'[c].at \in Settling
    BY <2>2, <2>3 DEF Settling, Owning, Early, Decided
  <2>5. QED
    BY <2>2, <2>3, <2>4 DEF CrawlEffect
<1>10. CASE GateAgain(c)
  <2>1. jvm \in BOOLEAN
    BY DEF OwnerInv, CopiedType
  <2>2. QED
    BY <1>7, <1>10, <2>1 DEF GateAgain
<1>11. CASE CrawlCollectsPaths(c)
  <2>1. /\ crawl[c].at = "Paths" /\ crawl'[c].at = "Check"
        /\ crawl'[c].verdict = crawl[c].verdict
        /\ UNCHANGED <<loaded, tier1, phase>>
    BY <1>1, <1>11 DEF CrawlCollectsPaths, CrawlRecord
  <2>2. /\ crawl[c].at \in Early /\ crawl'[c].at \in Early
        /\ crawl[c].at \in Decided /\ crawl'[c].at \in Settling
    BY <2>1 DEF Settling, Owning, Early, Decided
  <2>3. QED
    BY <2>1, <2>2 DEF CrawlEffect
<1>12. CASE CrawlClears(c)
  <2>1. /\ crawl[c].at = "Clear" /\ crawl'[c].at = "Lock"
        /\ crawl'[c].verdict = crawl[c].verdict
        /\ UNCHANGED <<tier1, phase>>
    BY <1>4, <1>12 DEF CrawlClears
  <2>2. /\ crawl[c].at \in Early /\ crawl'[c].at \notin Early
        /\ crawl[c].at \in Decided /\ crawl'[c].at \in Settling
    BY <2>1 DEF Settling, Owning, Early, Decided
  <2>3. QED
    BY <2>1, <2>2 DEF CrawlEffect
<1>13. CASE CrawlLocks(c)
  <2>1. /\ crawl[c].at = "Lock" /\ crawl'[c].at = "Manifest"
        /\ crawl'[c].verdict = crawl[c].verdict
        /\ UNCHANGED <<loaded, tier1, phase>>
    BY <1>4, <1>13 DEF CrawlLocks
  <2>2. /\ crawl'[c].at \notin Early /\ crawl[c].at \in Decided /\ crawl'[c].at \in Settling
    BY <2>1 DEF Settling, Owning, Early, Decided
  <2>3. QED
    BY <2>1, <2>2 DEF CrawlEffect
<1>14. CASE CrawlLosesSidecar(c) \/ \E j \in Jars : CrawlManifests(c, j)
  <2>1. /\ crawl[c].at = "Manifest" /\ crawl'[c].at = "Manifest"
        /\ crawl'[c].verdict = crawl[c].verdict
        /\ UNCHANGED <<loaded, phase>>
    <3>1. CASE CrawlLosesSidecar(c)
      BY <1>1, <3>1 DEF CrawlLosesSidecar, CrawlRecord
    <3>2. ASSUME NEW j \in Jars, CrawlManifests(c, j)
          PROVE  /\ crawl[c].at = "Manifest" /\ crawl'[c].at = "Manifest"
                 /\ crawl'[c].verdict = crawl[c].verdict
                 /\ UNCHANGED <<loaded, phase>>
      BY <1>1, <3>2 DEF CrawlManifests, CrawlRecord
    <3>3. QED
      BY <1>14, <3>1, <3>2
  <2>2. /\ crawl'[c].at \notin Early /\ crawl[c].at \in Decided /\ crawl'[c].at \in Settling
    BY <2>1 DEF Settling, Owning, Early, Decided
  <2>3. QED
    BY <2>1, <2>2 DEF CrawlEffect
<1>15. CASE CrawlUnlocks(c)
  <2>1. /\ crawl[c].at = "Manifest" /\ crawl'[c].at = "Sources"
        /\ UNCHANGED <<loaded, tier1, phase>>
    BY <1>1, <1>15 DEF CrawlUnlocks, CrawlRecord
  <2>2. /\ crawl'[c].at \notin Early /\ crawl'[c].at \notin Decided
        /\ crawl'[c].at \in Settling
    BY <2>1 DEF Settling, Owning, Early, Decided
  <2>3. QED
    BY <2>1, <2>2 DEF CrawlEffect
<1>16. CASE CrawlFinishes(c)
  <2>1. /\ crawl[c].at = "Finish" /\ crawl'[c].at = "Release"
        /\ ~IsLoading(phase') /\ UNCHANGED <<loaded, tier1>>
    BY <1>4, <1>16 DEF CrawlFinishes, FinalPhase, IsLoading
  <2>2. crawl'[c].at \notin Early /\ crawl'[c].at \notin Decided
    BY <2>1 DEF Settling, Owning, Early, Decided
  <2>3. QED
    BY <2>1, <2>2 DEF CrawlEffect
<1>17. CASE CrawlReleases(c) \/ CrawlSignals(c)
  <2>1. /\ crawl[c].at \in {"Release", "Signal"} /\ crawl'[c].at \in {"Signal", "Done"}
        /\ UNCHANGED <<loaded, tier1, phase>>
    BY <1>4, <1>17 DEF CrawlReleases, CrawlSignals
  <2>2. /\ crawl'[c].at \notin Early /\ crawl'[c].at \notin Decided
        /\ crawl[c].at \notin Settling
    BY <2>1 DEF Settling, Owning, Early, Decided
  <2>3. QED
    BY <2>1, <2>2 DEF CrawlEffect
<1>18. CASE CrawlAbandons(c)
  <2>1. /\ crawl[c].at = "Abandon" /\ crawl'[c].at = "AbandonPhase"
        /\ UNCHANGED <<loaded, tier1, phase>>
    BY <1>4, <1>18 DEF CrawlAbandons
  <2>2. /\ crawl'[c].at \notin Early /\ crawl'[c].at \notin Decided
        /\ crawl'[c].at \in Settling
    BY <2>1 DEF Settling, Owning, Early, Decided
  <2>3. QED
    BY <2>1, <2>2 DEF CrawlEffect
<1>19. CASE CrawlAbandonsPhase(c)
  <2>1. /\ crawl[c].at = "AbandonPhase" /\ crawl'[c].at = "Signal"
        /\ ~IsLoading(phase') /\ UNCHANGED <<loaded, tier1>>
    BY <1>4, <1>19 DEF CrawlAbandonsPhase, IsLoading
  <2>2. crawl'[c].at \notin Early /\ crawl'[c].at \notin Decided
    BY <2>1 DEF Settling, Owning, Early, Decided
  <2>3. QED
    BY <2>1, <2>2 DEF CrawlEffect
<1>20. QED
  BY <1>6, <1>8, <1>9, <1>10, <1>11, <1>12, <1>13, <1>14, <1>15, <1>16,
     <1>17, <1>18,
     <1>19 DEF CrawlTask

LEMMA StartBegins == Init => StartInv /\ PhaseInv
<1> SUFFICES ASSUME Init PROVE StartInv /\ PhaseInv
  OBVIOUS
<1>1. /\ events = 0 /\ handler.kind = "Initialize" /\ handler.at = "Idle"
      /\ root = NoRoot /\ scans = 0 /\ request.at = "Idle"
      /\ \A c \in Crawls : crawl[c].at = "None"
      /\ Untouched /\ sidecar_lock = Free /\ materialized \subseteq loaded
  BY DEF Init, NoCrawl, Untouched
<1>2. IsLoading(phase) => sidecar
  BY DEF Init, IsLoading
<1>3. BeforeSpawn
  BY <1>1 DEF BeforeSpawn
<1>4. \A c \in Crawls : crawl[c].at \notin Early \cup Decided
  BY <1>1 DEF Early, Decided
<1>5. QED
  BY <1>1, <1>2, <1>3, <1>4 DEF StartInv, FirstInv, SpawnInv, GateInv,
     DataInv, PhaseInv

LEMMA CrawlStart ==
  ASSUME OwnerInv, RestTyped, StartInv, NEW c \in Crawls, CrawlTask(c)
  PROVE  StartInv'
<1>1. /\ UNCHANGED <<root, scans, jvm, events, handler, request,
                     materialized>>
      /\ \A d \in Crawls : d # c => crawl'[d] = crawl[d]
      /\ CrawlEffect(c)
  BY CrawlStep
<1>2. ~BeforeSpawn /\ ~BeforeSpawn'
  BY <1>1 DEF CrawlEffect, BeforeSpawn, StartInv, SpawnInv
<1>3. events \in Nat /\ scans \in 0..2
  BY DEF OwnerInv, RestTyped
<1>4. FirstInv' /\ SpawnInv'
  BY <1>1, <1>2 DEF StartInv, FirstInv, SpawnInv
<1>5. GateInv'
  <2> SUFFICES ASSUME events <= 1
               PROVE  /\ \A d \in Crawls : crawl'[d].at = "GateAgain" => scans = 0
                      /\ \A d \in Crawls : crawl'[d].at \in Decided =>
                           crawl'[d].verdict \/ root \notin JvmRoots
    BY <1>1 DEF StartInv, GateInv
  <2>1. events = 1 /\ handler.at = "Idle"
    BY <1>2, <1>3 DEF BeforeSpawn
  <2>2. \A d \in Crawls : crawl[d].at = "GateAgain" => scans = 0
    BY DEF StartInv, GateInv
  <2>3. \A d \in Crawls : crawl[d].at \in Decided => crawl[d].verdict \/ root \notin JvmRoots
    BY DEF StartInv, GateInv
  <2>4. scans = 0 => jvm = (root \in JvmRoots)
    BY <2>1 DEF StartInv, GateInv
  <2>5. crawl'[c].at = "GateAgain" => scans = 0
    BY <1>1 DEF CrawlEffect
  <2>6. crawl'[c].at \in Decided => crawl'[c].verdict \/ root \notin JvmRoots
    BY <1>1, <2>2, <2>3, <2>4 DEF CrawlEffect
  <2>7. QED
    BY <1>1, <2>2, <2>3, <2>5, <2>6
<1>6. DataInv'
  <2> SUFFICES ASSUME events <= 1
               PROVE  DataInv'
    BY <1>1 DEF DataInv
  <2>1. /\ materialized \subseteq loaded
        /\ request.at = "Mark" => request.jar \in loaded
        /\ \A d \in Crawls : crawl[d].at \in Early => Untouched
    BY DEF StartInv, DataInv
  <2>2. /\ materialized \subseteq loaded'
        /\ request.at = "Mark" => request.jar \in loaded'
    BY <1>1, <2>1 DEF CrawlEffect, Untouched
  <2>3. ASSUME NEW d \in Crawls, crawl'[d].at \in Early
        PROVE  Untouched /\ tier1' = tier1
    <3>1. crawl[d].at \in Early
      BY <1>1, <2>3 DEF CrawlEffect
    <3>2. crawl[c].at = "Manifest" => c = d
      BY <3>1 DEF OwnerInv, OneCrawlAtATime, Owning, Early
    <3>3. crawl[c].at # "Manifest"
      BY <3>1, <3>2 DEF Early
    <3>4. QED
      BY <1>1, <2>1, <3>1, <3>3 DEF CrawlEffect
  <2>4. QED
    BY <1>1, <2>2, <2>3 DEF DataInv, Untouched
<1>7. QED
  BY <1>4, <1>5, <1>6 DEF StartInv

LEMMA CrawlSettles ==
  ASSUME OwnerInv, RestTyped, PhaseInv, NEW c \in Crawls, CrawlTask(c)
  PROVE  PhaseInv'
<1>1. /\ UNCHANGED <<events, handler>>
      /\ \A d \in Crawls : d # c => crawl'[d] = crawl[d]
      /\ \/ ~IsLoading(phase')
         \/ phase' = phase /\ (crawl[c].at \in Settling => crawl'[c].at \in Settling)
  BY CrawlStep DEF CrawlEffect
<1>2. BeforeSpawn' = BeforeSpawn
  BY <1>1 DEF BeforeSpawn
<1>3. QED
  BY <1>1, <1>2 DEF PhaseInv

(* Only a root change clears the JAR index from the actor.                 *)
KindInv ==
  /\ handler.kind \in EventKinds \cup {"Initialize"}
  /\ handler.at = "ClearIndex" => handler.kind = "ChangeRoot"

LEMMA KindBegins == Init => KindInv
BY DEF Init, KindInv

LEMMA KindKept ==
  ASSUME HandlerRecord, KindInv, [Next]_vars
  PROVE  KindInv'
<1>1. ASSUME NEW kind \in Kinds, NEW dir \in Roots, TakeEvent(kind, dir)
      PROVE  KindInv'
  BY <1>1 DEF TakeEvent, FirstStep, KindInv, Kinds
<1>2. ASSUME NEW from, NEW to \in HandlerSteps \ {"ClearIndex"}, Handle(from, to)
      PROVE  KindInv'
  BY <1>2 DEF Handle, HandlerRecord, KindInv
<1>3. CASE Handler
  <2>1. CASE JarDone
    BY <2>1 DEF JarDone, KindInv
  <2>2. CASE ~JarDone
    BY <1>2, <1>3, <2>2 DEF Handler, ReindexClearsFlags, ReindexClearsTier1,
       ClearJarIndex, ApplyConfig, EnqueueScan, SpawnJarIndexing, HandlerSteps
  <2>3. QED
    BY <2>1, <2>2
<1>4. CASE handler' = handler
  BY <1>4 DEF KindInv
<1>5. ASSUME NEW c \in Crawls, CrawlTask(c)
      PROVE  handler' = handler
  BY <1>5 DEF CrawlTask, CrawlStarts, GateGeneration, GateIndex, GateScanning,
     GateAgain, CrawlCollectsPaths, CrawlChecks, CrawlClears, CrawlLocks,
     CrawlManifests, CrawlLosesSidecar, CrawlUnlocks, CrawlSources,
     CrawlFinalChecks, CrawlFinishes, CrawlReleases, CrawlAbandons,
     CrawlAbandonsPhase, CrawlSignals, CheckPoint, CrawlUnchanged
<1>6. CASE \/ Diagnose \/ ScanResets \/ ScanIndexes \/ ScanEnds
           \/ UNCHANGED vars
  BY <1>4, <1>6 DEF Diagnose, ScanResets, ScanIndexes, ScanEnds,
     ScanUnchanged, vars
<1>7. CASE (\E j \in Jars : RequestBegins(j)) \/ RequestThread
  BY <1>4, <1>7 DEF RequestBegins, RequestThread, RequestTriesLock,
     RequestPopulates, RequestFails, RequestMarks, RequestUnchanged
<1>8. QED
  BY <1>1, <1>3, <1>4, <1>5, <1>6, <1>7 DEF Next

(* A later event leaves nothing to be said of the first one.               *)
LEMMA LaterEvent ==
  ASSUME events' \in Nat, events' > 1
  PROVE  StartInv' /\ ~BeforeSpawn'
BY DEF StartInv, FirstInv, SpawnInv, GateInv, DataInv, BeforeSpawn

LEMMA EventStart ==
  ASSUME OwnerInv, StartInv,
         NEW kind \in Kinds, NEW dir \in Roots, TakeEvent(kind, dir)
  PROVE  StartInv'
<1>1. /\ events' = events + 1 /\ events \in Nat
      /\ handler'.at = FirstStep(kind) /\ handler'.kind = kind
      /\ handler.at = "Idle"
      /\ UNCHANGED <<root, scans, jvm, phase, sidecar, sidecar_lock, crawl,
                     tier1, loaded,
                     materialized, request>>
      /\ root = NoRoot => kind = "Initialize"
  BY DEF TakeEvent, OwnerInv, scanVars, jarVars
<1>2. CASE events # 0
  <2>1. events' > 1 /\ events' \in Nat
    BY <1>1, <1>2
  <2>2. QED
    BY <2>1, LaterEvent
<1>3. CASE events = 0
  <2>1. events' = 1 /\ kind = "Initialize" /\ handler'.at = "Apply"
    BY <1>1, <1>3 DEF StartInv, FirstInv, FirstStep
  <2>2. BeforeSpawn /\ BeforeSpawn'
    BY <1>3, <2>1 DEF BeforeSpawn
  <2>3. \A c \in Crawls : crawl[c].at = "None"
    BY <2>2 DEF StartInv, SpawnInv
  <2>4. FirstInv' /\ SpawnInv'
    BY <1>1, <2>1, <2>2 DEF StartInv, FirstInv, SpawnInv, Untouched
  <2>5. scans = 0
    BY <1>3 DEF StartInv, GateInv
  <2>6. GateInv'
    BY <1>1, <2>1, <2>3, <2>5 DEF GateInv, Decided
  <2>7. DataInv'
    BY <1>1, <1>3, <2>3 DEF StartInv, DataInv, Early
  <2>8. QED
    BY <2>4, <2>6, <2>7 DEF StartInv
<1>4. QED
  BY <1>2, <1>3

LEMMA EventSettles ==
  ASSUME OwnerInv, StartInv, PhaseInv,
         NEW kind \in Kinds, NEW dir \in Roots, TakeEvent(kind, dir)
  PROVE  PhaseInv'
<1>1. /\ events' = events + 1 /\ events \in Nat
      /\ handler'.at = FirstStep(kind) /\ handler.at = "Idle"
      /\ UNCHANGED <<phase, crawl>>
      /\ root = NoRoot => kind = "Initialize"
  BY DEF TakeEvent, OwnerInv, scanVars, jarVars
<1>2. CASE events # 0
  <2>1. ~BeforeSpawn
    BY <1>1, <1>2 DEF BeforeSpawn
  <2>2. QED
    BY <1>1, <2>1 DEF PhaseInv
<1>3. CASE events = 0
  <2>1. events' = 1 /\ handler'.at = "Apply"
    BY <1>1, <1>3 DEF StartInv, FirstInv, FirstStep
  <2>2. BeforeSpawn'
    BY <2>1 DEF BeforeSpawn
  <2>3. QED
    BY <2>2 DEF PhaseInv
<1>4. QED
  BY <1>2, <1>3

(* The actor on its way to spawn the start-up crawl.                       *)
LEMMA HandlerStart ==
  ASSUME OwnerInv, HandlerRecord, RestTyped, StartInv, Handler
  PROVE  StartInv'
<1>1. events \in Nat /\ events' = events
  BY DEF OwnerInv, Handler, ReindexClearsFlags, ReindexClearsTier1,
     ClearJarIndex,
         ApplyConfig, EnqueueScan, SpawnJarIndexing, JarDone, Handle
<1>2. CASE events > 1
  BY <1>1, <1>2, LaterEvent
<1>3. CASE events <= 1
  <2>1. /\ handler.kind = "Initialize"
        /\ handler.at \in {"Idle", "Apply", "Enqueue", "Spawn"}
        /\ handler.at # "Idle" => events = 1
    BY <1>1, <1>3 DEF StartInv, FirstInv
  <2>2. ASSUME NEW from \in {"Apply", "Enqueue", "Spawn"}, NEW to, Handle(from, to)
        PROVE  /\ events = 1 /\ BeforeSpawn /\ handler.at = from
               /\ Untouched /\ sidecar_lock = Free
               /\ \A c \in Crawls : crawl[c].at = "None"
               /\ IsLoading(phase) => sidecar
               /\ handler'.at = to /\ handler'.kind = "Initialize"
               /\ UNCHANGED <<events, sidecar, sidecar_lock, request>>
    <3>1. events = 1 /\ BeforeSpawn /\ handler.at = from
      BY <2>1, <2>2 DEF Handle, BeforeSpawn
    <3>2. handler'.at = to /\ handler'.kind = "Initialize"
      BY <2>1, <2>2 DEF Handle, HandlerRecord
    <3>3. QED
      BY <2>2, <3>1, <3>2 DEF Handle, StartInv, SpawnInv
  <2>3. CASE ReindexClearsFlags \/ ReindexClearsTier1 \/ ClearJarIndex
    BY <2>1, <2>3 DEF ReindexClearsFlags, ReindexClearsTier1, ClearJarIndex,
       Handle
  <2>4. CASE ApplyConfig
    <3>1. /\ events = 1 /\ handler.at = "Apply" /\ handler'.at = "Enqueue"
          /\ handler'.kind = "Initialize" /\ Untouched /\ sidecar_lock = Free
          /\ \A c \in Crawls : crawl[c].at = "None"
          /\ IsLoading(phase) => sidecar
          /\ UNCHANGED <<events, sidecar, sidecar_lock, request, scans, jvm,
                         phase, crawl,
                         tier1, loaded, materialized>>
      BY <2>2, <2>4 DEF ApplyConfig, scanVars, jarVars
    <3>2. scans = 0
      BY <1>3, <3>1 DEF StartInv, GateInv
    <3>3. FirstInv' /\ SpawnInv'
      BY <3>1 DEF FirstInv, SpawnInv, Untouched
    <3>4. GateInv'
      BY <3>1, <3>2 DEF GateInv, Decided
    <3>5. DataInv'
      BY <1>3, <3>1 DEF StartInv, DataInv, Early
    <3>6. QED
      BY <3>3, <3>4, <3>5 DEF StartInv
  <2>5. CASE EnqueueScan
    <3>1. /\ events = 1 /\ handler.at = "Enqueue" /\ handler'.at = "Spawn"
          /\ handler'.kind = "Initialize" /\ Untouched /\ sidecar_lock = Free
          /\ \A c \in Crawls : crawl[c].at = "None"
          /\ IsLoading(phase) => sidecar
          /\ UNCHANGED <<events, sidecar, sidecar_lock, request, phase, crawl,
                         tier1, loaded, materialized>>
      BY <2>2, <2>5 DEF EnqueueScan, jarVars
    <3>2. scans' = 1
      BY <1>3, <2>5, <3>1 DEF StartInv, GateInv, EnqueueScan
    <3>3. FirstInv' /\ SpawnInv'
      BY <3>1 DEF FirstInv, SpawnInv, Untouched
    <3>4. GateInv'
      BY <3>1, <3>2 DEF GateInv, Decided
    <3>5. DataInv'
      BY <1>3, <3>1 DEF StartInv, DataInv, Early
    <3>6. QED
      BY <3>3, <3>4, <3>5 DEF StartInv
  <2>6. CASE SpawnJarIndexing
    <3>1. /\ events = 1 /\ handler.at = "Spawn" /\ handler'.at = "Idle"
          /\ handler'.kind = "Initialize" /\ Untouched
          /\ \A c \in Crawls : crawl[c].at = "None"
          /\ UNCHANGED <<events, request, scans, jvm, tier1, loaded,
                         materialized>>
      BY <2>2, <2>6 DEF SpawnJarIndexing, scanVars, jarVars
    <3>2. scans = 1
      BY <1>3, <3>1 DEF StartInv, GateInv
    <3>3. \A c \in Crawls : crawl'[c].at \in {"None", "Start"}
      BY <2>6, <3>1 DEF SpawnJarIndexing, OwnerInv, CrawlRecord
    <3>4. FirstInv' /\ SpawnInv'
      BY <3>1 DEF FirstInv, SpawnInv, BeforeSpawn
    <3>5. GateInv'
      BY <3>1, <3>2, <3>3 DEF GateInv, Decided
    <3>6. DataInv'
      BY <1>3, <3>1 DEF StartInv, DataInv, Untouched
    <3>7. QED
      BY <3>4, <3>5, <3>6 DEF StartInv
  <2>7. CASE JarDone
    <3>1. UNCHANGED <<root, scans, jvm, events, handler, phase, sidecar,
                      sidecar_lock,
                      crawl, tier1, loaded, materialized, request>>
      BY <2>7 DEF JarDone, scanVars, jarVars
    <3>2. QED
      BY <3>1 DEF StartInv, FirstInv, SpawnInv, GateInv, DataInv,
         BeforeSpawn, Untouched
  <2>8. QED
    BY <2>3, <2>4, <2>5, <2>6, <2>7 DEF Handler
<1>4. QED
  BY <1>1, <1>2, <1>3

(* The scan and the requests.                                              *)
LEMMA OutsideStart ==
  ASSUME OwnerInv, RestTyped, StartInv,
         \/ Diagnose \/ ScanResets \/ ScanIndexes \/ ScanEnds
         \/ \E j \in Jars : RequestBegins(j)
         \/ RequestThread
         \/ UNCHANGED vars
  PROVE  StartInv'
<1>1. CASE Diagnose \/ UNCHANGED vars
  <2>1. UNCHANGED <<root, scans, jvm, events, handler, phase, sidecar,
                    sidecar_lock,
                    crawl, tier1, loaded, materialized, request>>
    BY <1>1 DEF Diagnose, scanVars, jarVars, vars
  <2>2. QED
    BY <2>1 DEF StartInv, FirstInv, SpawnInv, GateInv, DataInv, BeforeSpawn,
       Untouched
<1>2. CASE ScanResets \/ ScanIndexes \/ ScanEnds
  <2>1. UNCHANGED <<root, events, handler, phase, sidecar, sidecar_lock,
                    crawl, tier1, loaded, materialized, request>>
    BY <1>2 DEF ScanResets, ScanIndexes, ScanEnds, ScanUnchanged, jarVars
  <2>2. FirstInv' /\ SpawnInv' /\ DataInv'
    BY <2>1 DEF StartInv, FirstInv, SpawnInv, DataInv, BeforeSpawn, Untouched
  <2>3. GateInv'
    <3> SUFFICES ASSUME events <= 1 PROVE GateInv'
      BY <2>1 DEF GateInv
    <3>1. scans \in 0..2 /\ events \in Nat
      BY DEF OwnerInv, RestTyped
    <3>2. CASE ScanResets
      BY <3>1, <3>2 DEF ScanResets
    <3>3. CASE ScanIndexes
      <4>1. scans > 0 /\ scans' = scans
        BY <3>3 DEF ScanIndexes
      <4>2. QED
        BY <2>1, <3>1, <4>1 DEF StartInv, GateInv
    <3>4. CASE ScanEnds
      <4>1. /\ scans = 1 /\ scans' = 0 /\ handler.at = "Idle"
            /\ jvm' = (root \in JvmRoots)
        BY <3>1, <3>4 DEF ScanEnds, StartInv, GateInv
      <4>2. QED
        BY <2>1, <3>1, <4>1 DEF StartInv, GateInv
    <3>5. QED
      BY <1>2, <3>2, <3>3, <3>4
  <2>4. QED
    BY <2>2, <2>3 DEF StartInv
<1>3. ASSUME NEW j \in Jars, RequestBegins(j)
      PROVE  StartInv'
  <2>1. /\ UNCHANGED <<root, scans, jvm, events, handler, phase, sidecar,
                       sidecar_lock,
                       crawl, tier1, loaded, materialized>>
        /\ ~Untouched /\ request'.at = "TryLock"
    BY <1>3 DEF RequestBegins, RequestUnchanged, scanVars, Untouched
  <2>2. FirstInv' /\ GateInv'
    BY <2>1 DEF StartInv, FirstInv, GateInv
  <2>3. SpawnInv'
    BY <2>1 DEF StartInv, SpawnInv, BeforeSpawn
  <2>4. DataInv'
    BY <2>1 DEF StartInv, DataInv
  <2>5. QED
    BY <2>2, <2>3, <2>4 DEF StartInv
<1>4. CASE RequestThread
  <2>1. /\ UNCHANGED <<root, scans, jvm, events, handler, phase, crawl,
                       tier1>>
        /\ ~Untouched
    BY <1>4 DEF RequestThread, RequestTriesLock, RequestPopulates,
       RequestFails,
                RequestMarks, RequestUnchanged, scanVars, Untouched
  <2>2. FirstInv' /\ GateInv'
    BY <2>1 DEF StartInv, FirstInv, GateInv
  <2>3. SpawnInv'
    BY <2>1 DEF StartInv, SpawnInv, BeforeSpawn
  <2>4. DataInv'
    <3> SUFFICES ASSUME events <= 1
                 PROVE  /\ materialized' \subseteq loaded'
                        /\ request'.at = "Mark" => request'.jar \in loaded'
      BY <2>1 DEF StartInv, DataInv
    <3>1. /\ materialized \subseteq loaded
          /\ request.at = "Mark" => request.jar \in loaded
      BY DEF StartInv, DataInv
    <3>2. request \in RequestRecord
      BY DEF RestTyped
    <3>3. CASE RequestTriesLock
      BY <3>1, <3>2, <3>3 DEF RequestTriesLock, EndRequest, RequestRecord
    <3>4. CASE RequestPopulates
      BY <3>1, <3>2, <3>4 DEF RequestPopulates, RequestRecord
    <3>5. CASE RequestFails
      BY <3>1, <3>5 DEF RequestFails, EndRequest
    <3>6. CASE RequestMarks
      BY <3>1, <3>6 DEF RequestMarks, EndRequest
    <3>7. QED
      BY <1>4, <3>3, <3>4, <3>5, <3>6 DEF RequestThread
  <2>5. QED
    BY <2>2, <2>3, <2>4 DEF StartInv
<1>5. QED
  BY <1>1, <1>2, <1>3, <1>4

(* Without a root change only a crawl that is spawned announces loading.   *)
LEMMA OtherSettles ==
  ASSUME "ChangeRoot" \notin EventKinds, OwnerInv, HandlerRecord, StartInv, KindInv,
         PhaseInv, [Next]_vars, ~ \E c \in Crawls : CrawlTask(c)
  PROVE  PhaseInv'
<1>1. ASSUME NEW kind \in Kinds, NEW dir \in Roots, TakeEvent(kind, dir)
      PROVE  PhaseInv'
  BY <1>1, EventSettles
<1>2. ASSUME UNCHANGED <<events, phase, crawl>>, BeforeSpawn => BeforeSpawn'
      PROVE  PhaseInv'
  BY <1>2 DEF PhaseInv
<1>3. CASE ReindexClearsFlags \/ ReindexClearsTier1 \/ ApplyConfig \/ EnqueueScan
  <2>1. UNCHANGED <<events, phase, crawl>> /\ handler'.at # "Idle"
    BY <1>3 DEF ReindexClearsFlags, ReindexClearsTier1, ApplyConfig,
       EnqueueScan, Handle,
                HandlerRecord
  <2>2. QED
    BY <1>2, <2>1 DEF BeforeSpawn
<1>4. ~ClearJarIndex
  BY DEF ClearJarIndex, Handle, KindInv
<1>5. CASE SpawnJarIndexing
  <2>1. events \in Crawls /\ events' = events
    BY <1>5 DEF SpawnJarIndexing, Handle, OwnerInv
  <2>2. CASE MaySpawn
    <3>1. crawl'[events].at = "Start"
      BY <1>5, <2>1, <2>2 DEF SpawnJarIndexing, OwnerInv, CrawlRecord
    <3>2. crawl'[events].at \in Settling
      BY <3>1 DEF Settling, Owning
    <3>3. QED
      BY <2>1, <3>2 DEF PhaseInv
  <2>3. CASE ~MaySpawn
    <3>1. UNCHANGED <<phase, crawl>>
      BY <1>5, <2>3 DEF SpawnJarIndexing
    <3>2. CASE BeforeSpawn
      <4>1. /\ sidecar_lock = Free /\ (IsLoading(phase) => sidecar)
            /\ \A c \in Crawls : crawl[c].at = "None"
        BY <3>2 DEF StartInv, SpawnInv
      <4>2. ~guard
        BY <4>1 DEF OwnerInv, OneCrawlAtATime, Owning
      <4>3. ~IsLoading(phase)
        BY <2>3, <4>1, <4>2 DEF MaySpawn
      <4>4. QED
        BY <3>1, <4>3 DEF PhaseInv, IsLoading
    <3>3. CASE ~BeforeSpawn
      BY <1>2, <2>1, <3>1, <3>3
    <3>4. QED
      BY <3>2, <3>3
  <2>4. QED
    BY <2>2, <2>3
<1>6. CASE Diagnose \/ JarDone \/ UNCHANGED vars
  <2>1. UNCHANGED <<events, phase, crawl, handler>>
    BY <1>6 DEF Diagnose, JarDone, vars
  <2>2. QED
    BY <1>2, <2>1 DEF BeforeSpawn
<1>7. CASE ScanResets \/ ScanIndexes \/ ScanEnds
  <2>1. UNCHANGED <<events, phase, crawl, handler>>
    BY <1>7 DEF ScanResets, ScanIndexes, ScanEnds, ScanUnchanged
  <2>2. QED
    BY <1>2, <2>1 DEF BeforeSpawn
<1>8. CASE (\E j \in Jars : RequestBegins(j)) \/ RequestThread
  <2>1. UNCHANGED <<events, phase, crawl, handler>>
    BY <1>8 DEF RequestBegins, RequestThread, RequestTriesLock,
       RequestPopulates,
                RequestFails, RequestMarks, RequestUnchanged
  <2>2. QED
    BY <1>2, <2>1 DEF BeforeSpawn
<1>9. QED
  BY <1>1, <1>3, <1>4, <1>5, <1>6, <1>7, <1>8 DEF Next, Handler

-----------------------------------------------------------------------------
(* The invariants together.                                                *)

LEMMA TypesHold == Spec => [](OwnerInv /\ HandlerRecord /\ RestTyped)
<1>1. OwnerInv /\ HandlerRecord /\ [Next]_vars => OwnerInv'
  BY EventOwner, HandlerOwner, CrawlOwner, OutsideOwner DEF Next,
     HandlerRecord
<1>2. OwnerInv /\ HandlerRecord /\ RestTyped /\ [Next]_vars => RestTyped'
  BY CrawlRest, OtherRest
<1>3. QED
  BY InitOwner, InitHandler, InitRest, NextHandler, <1>1, <1>2, PTL DEF Spec

LEMMA StartHolds == Spec => []StartInv
<1>1. OwnerInv /\ HandlerRecord /\ RestTyped /\ StartInv /\ [Next]_vars => StartInv'
  BY EventStart, HandlerStart, CrawlStart, OutsideStart DEF Next
<1>2. QED
  BY StartBegins, TypesHold, <1>1, PTL DEF Spec

-----------------------------------------------------------------------------
(* Every variable of the pipeline keeps its type: the local state of the   *)
(* actor, of each crawl and of the request thread, the phase, the maps.    *)
THEOREM JarTypeCorrect == Spec => []TypeOK
<1>1. OwnerInv /\ HandlerRecord /\ RestTyped => TypeOK
  BY DEF OwnerInv, CopiedType, CrawlRecord, HandlerRecord, HandlerSteps,
     RestTyped, TypeOK,
         Phases, RequestRecord
<1>2. QED
  BY <1>1, TypesHold, PTL

(* jar_indexing_in_progress always has exactly one live owner: no crawl    *)
(* rebuilds the JAR maps beside another, and the flag is never left set.   *)
THEOREM OneCrawl == Spec => []OneCrawlAtATime
<1>1. OwnerInv => OneCrawlAtATime
  BY DEF OwnerInv
<1>2. QED
  BY <1>1, TypesHold, PTL

(* await_jvm_gate_verdict: the crawl of the start-up decides that a root   *)
(* is no JVM workspace only from the index that the scan of that root has  *)
(* left, never from the empty one before it.                               *)
THEOREM NegativeVerdictsAreRight == Spec => []NegativeVerdictIsRight
<1>1. StartInv => NegativeVerdictIsRight
  BY DEF StartInv, GateInv, Decided, NegativeVerdictIsRight
<1>2. QED
  BY <1>1, StartHolds, PTL

(* materialize_jar_on_demand beside the start-up crawl: a JAR is marked    *)
(* only behind the crawl's clearing of the maps, so its data is there.     *)
THEOREM MaterializedHoldsData == Spec => []MaterializedHasData
<1>1. StartInv => MaterializedHasData
  BY DEF StartInv, DataInv, MaterializedHasData
<1>2. QED
  BY <1>1, StartHolds, PTL

(* abandon_stale_jar_scan and the coalesced spawn: as long as the server   *)
(* keeps its root, which is all that its handlers ask of the actor, a      *)
(* phase announced as loading has a crawl that is yet to settle it.        *)
THEOREM NeverLeftLoading ==
  ASSUME "ChangeRoot" \notin EventKinds
  PROVE  Spec => []NeverStuckLoading
<1>1. OwnerInv /\ HandlerRecord /\ RestTyped /\ StartInv /\ KindInv /\ PhaseInv
        /\ [Next]_vars => PhaseInv'
  BY OtherSettles, CrawlSettles
<1>2. HandlerRecord /\ KindInv /\ [Next]_vars => KindInv'
  BY KindKept
<1>3. PhaseInv => NeverStuckLoading
  <2>1. Settling \cap {"None", "Done"} = {}
    BY DEF Settling, Owning
  <2>2. QED
    BY <2>1 DEF PhaseInv, NeverStuckLoading, Quiet, Live, BeforeSpawn
<1>4. QED
  BY StartBegins, KindBegins, TypesHold, StartHolds, <1>1, <1>2, <1>3, PTL
     DEF Spec
===============================================================================
