----------------------- MODULE ScanCoordinatorProofs -----------------------
(***************************************************************************)
(* The safety properties of ScanCoordinator hold for every set of roots    *)
(* and every number of requests and restarts.                              *)
(*                                                                         *)
(* None of them is inductive by itself.  IndInv ties the queue's flag and  *)
(* the indexing guard to the phase of the one working task, orders the     *)
(* generations a task captured on its way, and follows the newest request: *)
(* it waits, or it works with the current generation, or it was served.    *)
(* What is ready and what is cached to hold the root needs, beside it,     *)
(* what each task carries from its start to its save (RootInv).            *)
(***************************************************************************)
EXTENDS ScanCoordinator, TLAPS

PreCapture == {"Start", "Reset", "Prioritize", "Acquire"}
PreApply == PreCapture \cup {"Parse", "Apply"}
PostApply == {"Save", "Release", "SourcesRead", "SourcesGeneration",
              "SourcesApply"}

(* Requests are numbered as taken; the newest may still be in its handler. *)
NumberingInv ==
  /\ actor # None => actor = issued
  /\ \A r \in Requests : pc[r] = "Unused" <=> r > issued
  /\ \A r \in Requests : pc[r] = "Handler" <=> actor = r

(* The waiting request is the newest that reached the queue.               *)
PendingInv ==
  /\ pending # None => in_progress
  /\ \A r \in Requests : pc[r] = "Pending" <=> pending = r
  /\ pending # None =>
       \A r \in Requests : r > pending => pc[r] \in {"Unused", "Handler"}

(* A request that was taken names a root; so do the source paths a task    *)
(* goes on to index.                                                       *)
RootsInv ==
  \A r \in Requests :
    /\ pc[r] # "Unused" => args[r].root \in Roots
    /\ pc[r] \in {"SourcesGeneration", "SourcesApply"} => scan[r].raw \in Roots

(* indexing_in_progress is held exactly from Parse to Release or Cancel.   *)
GuardInv == indexing <=> \E r \in Requests : pc[r] \in Holding

(* Generations only grow, and a scan that did not install its results was  *)
(* superseded since it was stamped.                                        *)
GenerationInv ==
  \A r \in Requests :
    /\ pc[r] \in Working \cup {"Pending", "Complete"} => args[r].gen <= generation
    /\ pc[r] \in {"Parse", "Apply"} => /\ args[r].gen <= scan[r].start_gen
                                       /\ scan[r].start_gen <= generation
    /\ pc[r] = "Cancel" => args[r].gen < generation
    /\ pc[r] \in PostApply => r \in applied \/ MayPanic
    /\ pc[r] \in {"Signal", "Complete"} =>
         r \in applied \/ MayPanic \/ args[r].gen < generation

(* What is served is older than everything that may still be applied.      *)
ServedInv ==
  /\ served <= issued
  /\ announced <= issued
  /\ \A r \in Requests :
       pc[r] \in PreApply \cup {"Unused", "Handler", "Pending"} => r > served

(* The newest request is served, or its results are still to come.         *)
LatestInv ==
  actor = None =>
    \/ served = issued
    \/ MayPanic
    \/ /\ issued \in Requests
       /\ pc[issued] \in PreApply \cup {"Pending"}
       /\ args[issued].gen = generation
       /\ pc[issued] \in {"Parse", "Apply"} =>
            scan[issued].start_gen = generation

ReadyInv == was_ready => ~in_progress

(* The inductive invariant.                                                *)
IndInv ==
  /\ TypeOK
  /\ OneScanAtATime
  /\ NumberingInv
  /\ PendingInv
  /\ RootsInv
  /\ GuardInv
  /\ GenerationInv
  /\ ServedInv
  /\ LatestInv
  /\ ReadyInv

-----------------------------------------------------------------------------
(* The initial state satisfies the inductive invariant.                    *)
LEMMA InitIndInv == Init => IndInv
<1> SUFFICES ASSUME Init PROVE IndInv
  OBVIOUS
<1> USE RootsAssumption, BoundsAssumption
<1>1. TypeOK
  <2>1. ActorType
    BY DEF Init, ActorType
  <2>2. FlagType
    BY DEF Init, FlagType
  <2>3. TaskType
    BY DEF Init, TaskType, NoArgs, NoScan, Phases, Kinds
  <2>4. IndexType
    BY DEF Init, IndexType, NoCache
  <2>5. HistoryType
    BY DEF Init, HistoryType
  <2>6. QED
    BY <2>1, <2>2, <2>3, <2>4, <2>5 DEF TypeOK
<1>2. OneScanAtATime /\ NumberingInv /\ PendingInv /\ RootsInv /\ GuardInv
  BY DEF Init, OneScanAtATime, NumberingInv, PendingInv, RootsInv, GuardInv,
     Requests,
         None, Working, Holding
<1>3. GenerationInv /\ ServedInv /\ LatestInv /\ ReadyInv
  BY DEF Init, GenerationInv, ServedInv, LatestInv, ReadyInv, Requests, None,
         Working, Holding, PostApply, PreApply, PreCapture
<1>4. QED
  BY <1>1, <1>2, <1>3 DEF IndInv

-----------------------------------------------------------------------------
(* Steps of a scan task.                                                   *)

(* A task that moves from one working phase to another disturbs neither    *)
(* the queue nor the numbering of requests.                                *)
LEMMA WorkStep ==
  ASSUME IndInv, NEW r \in Requests, NEW from \in Working, NEW to \in Working,
         Step(r, from, to), scan_done' = scan_done
  PROVE  /\ OneScanAtATime' /\ NumberingInv' /\ PendingInv' /\ ReadyInv'
         /\ ActorType'
<1>1. /\ pc \in [Requests -> Phases]
      /\ pc[r] = from
      /\ pc' = [pc EXCEPT ![r] = to]
      /\ UNCHANGED <<root, generation, source_paths, pending, in_progress,
                     issued, actor, was_ready, capped, crashes>>
  BY DEF IndInv, TypeOK, TaskType, Step, queueVars
<1>2. OneScanAtATime'
  BY <1>1 DEF IndInv, OneScanAtATime
<1>3. NumberingInv' /\ PendingInv'
  BY <1>1 DEF IndInv, NumberingInv, PendingInv, Working, Holding
<1>4. ReadyInv' /\ ActorType'
  BY <1>1 DEF IndInv, TypeOK, ReadyInv, ActorType
<1>5. QED
  BY <1>2, <1>3, <1>4

(* A step inside the phases before the generation is captured, or inside   *)
(* those after the results were installed, keeps the other invariants too. *)
LEMMA QuietStep ==
  ASSUME IndInv, NEW r \in Requests, NEW from, NEW to, Step(r, from, to),
         \/ from \in PreCapture /\ to \in PreCapture
         \/ from \in PostApply /\ to \in PostApply,
         from \in Holding <=> to \in Holding,
         UNCHANGED <<scan_done, indexing, applied, served>>,
         \A q \in Requests : scan'[q].start_gen = scan[q].start_gen
  PROVE  GuardInv' /\ GenerationInv' /\ ServedInv' /\ LatestInv'
<1>1. /\ pc \in [Requests -> Phases]
      /\ pc[r] = from
      /\ pc' = [pc EXCEPT ![r] = to]
      /\ UNCHANGED <<generation, issued, actor, args, announced>>
  BY DEF IndInv, TypeOK, TaskType, Step
<1>2. GuardInv'
  BY <1>1 DEF IndInv, GuardInv, Holding, PreCapture, PostApply
<1>3. GenerationInv'
  BY <1>1 DEF IndInv, GenerationInv, Working, Holding, PreCapture, PostApply
<1>4. ServedInv' /\ LatestInv'
  BY <1>1 DEF IndInv, ServedInv, LatestInv, PreApply, PreCapture, PostApply
<1>5. QED
  BY <1>2, <1>3, <1>4

(* What TaskParse records of a scan.                                       *)
LEMMA ParsedRecord ==
  ASSUME NEW F, NEW R,
         NEW s \in [start_gen : Nat, found : SUBSET F, parsed : BOOLEAN,
                    complete : BOOLEAN, raw : R, gen : Nat],
         NEW found \in SUBSET F, NEW parsed \in BOOLEAN
  PROVE  LET t == [s EXCEPT !.found = found, !.parsed = parsed]
         IN  /\ t \in [start_gen : Nat, found : SUBSET F, parsed : BOOLEAN,
                       complete : BOOLEAN, raw : R, gen : Nat]
             /\ t.found = found /\ t.complete = s.complete
             /\ t.raw = s.raw /\ t.start_gen = s.start_gen
OBVIOUS

(* Every step of a scan task preserves the inductive invariant.            *)
LEMMA TaskIndInv ==
  ASSUME IndInv, NEW r \in Requests, Task(r)
  PROVE  IndInv'
<1> USE RootsAssumption, BoundsAssumption
<1>0. /\ pc \in [Requests -> Phases]
      /\ r \in Nat /\ generation \in Nat /\ issued \in Nat
      /\ \A q \in Requests : /\ args[q].gen \in Nat
                             /\ scan[q].start_gen \in Nat
                             /\ q \in Nat
  BY DEF IndInv, TypeOK, TaskType, ActorType, Requests
<1>1. CASE TaskStart(r)
  <2>1. OneScanAtATime' /\ NumberingInv' /\ PendingInv' /\ ReadyInv' /\ ActorType'
    BY <1>1, WorkStep DEF TaskStart, Working, Holding
  <2>2. GuardInv' /\ GenerationInv' /\ ServedInv' /\ LatestInv'
    BY <1>1, <1>0, QuietStep DEF TaskStart, PreCapture, PostApply, Holding,
       diskVars, IndInv, TypeOK, TaskType
  <2>3. FlagType' /\ HistoryType'
    BY <1>1 DEF TaskStart, Step, IndInv, TypeOK, FlagType, HistoryType,
       queueVars, diskVars
  <2>r. RootsInv'
    BY <1>1, <1>0 DEF TaskStart, Step, IndInv, TypeOK, TaskType, ActorType,
       RootsInv
  <2>4. TaskType'
    BY <1>1 DEF TaskStart, Step, IndInv, TypeOK, TaskType, ActorType, Phases,
       Working, Holding
  <2>5. IndexType'
    BY <1>1 DEF TaskStart, Step, RootsInv, IndInv, TypeOK, IndexType,
       TaskType, ActorType, FlagType, Shallow, Files, diskVars
  <2>6. QED
    BY <2>1, <2>r, <2>2, <2>3, <2>4, <2>5 DEF IndInv, TypeOK
<1>2. CASE TaskReset(r)
  <2>1. OneScanAtATime' /\ NumberingInv' /\ PendingInv' /\ ReadyInv' /\ ActorType'
    BY <1>2, WorkStep DEF TaskReset, Working, Holding
  <2>2. GuardInv' /\ GenerationInv' /\ ServedInv' /\ LatestInv'
    BY <1>2, <1>0, QuietStep DEF TaskReset, PreCapture, PostApply, Holding,
       diskVars, IndInv, TypeOK, TaskType
  <2>3. FlagType' /\ HistoryType'
    BY <1>2 DEF TaskReset, Step, IndInv, TypeOK, FlagType, HistoryType,
       queueVars, diskVars
  <2>r. RootsInv'
    BY <1>2, <1>0 DEF TaskReset, Step, IndInv, TypeOK, TaskType, ActorType,
       RootsInv
  <2>4. TaskType'
    BY <1>2 DEF TaskReset, Step, IndInv, TypeOK, TaskType, ActorType, Phases,
       Working, Holding
  <2>5. IndexType'
    BY <1>2 DEF TaskReset, Step, RootsInv, IndInv, TypeOK, IndexType,
       TaskType, ActorType, FlagType, Shallow, Files, diskVars
  <2>6. QED
    BY <2>1, <2>r, <2>2, <2>3, <2>4, <2>5 DEF IndInv, TypeOK
<1>3. CASE TaskPrioritize(r)
  <2>1. OneScanAtATime' /\ NumberingInv' /\ PendingInv' /\ ReadyInv' /\ ActorType'
    BY <1>3, WorkStep DEF TaskPrioritize, Working, Holding
  <2>2. GuardInv' /\ GenerationInv' /\ ServedInv' /\ LatestInv'
    BY <1>3, <1>0, QuietStep DEF TaskPrioritize, PreCapture, PostApply,
       Holding, diskVars, IndInv, TypeOK, TaskType
  <2>3. FlagType' /\ HistoryType'
    BY <1>3 DEF TaskPrioritize, Step, IndInv, TypeOK, FlagType, HistoryType,
       queueVars, diskVars
  <2>r. RootsInv'
    BY <1>3, <1>0 DEF TaskPrioritize, Step, IndInv, TypeOK, TaskType,
       ActorType, RootsInv
  <2>4. TaskType'
    BY <1>3 DEF TaskPrioritize, Step, IndInv, TypeOK, TaskType, ActorType,
       Phases, Working, Holding
  <2>5. IndexType'
    BY <1>3 DEF TaskPrioritize, Step, RootsInv, IndInv, TypeOK, IndexType,
       TaskType, ActorType, FlagType, Shallow, Files, diskVars
  <2>6. QED
    BY <2>1, <2>r, <2>2, <2>3, <2>4, <2>5 DEF IndInv, TypeOK
<1>4. CASE TaskAcquire(r)
  <2> DEFINE found == Discovered(args[r].root)
             whole == ~Truncated(args[r].root)
             captured == [scan[r] EXCEPT !.start_gen = generation, !.found = found,
                                         !.complete = whole]
  <2>1. OneScanAtATime' /\ NumberingInv' /\ PendingInv' /\ ReadyInv' /\ ActorType'
    BY <1>4, WorkStep DEF TaskAcquire, Working, Holding
  <2>2. GuardInv'
    BY <1>4, <1>0 DEF TaskAcquire, Step, IndInv, GuardInv, OneScanAtATime,
       Holding, Working
  <2>3. found \in SUBSET Files
    BY <1>4 DEF TaskAcquire, Step, IndInv, TypeOK, RootsInv, IndexType,
                Discovered, Shallow, FilesOf, Files
  <2>4. captured \in [start_gen : Nat, found : SUBSET Files, parsed : BOOLEAN,
                      complete : BOOLEAN, raw : Roots \cup {NoRoot}, gen : Nat]
    <3>1. whole \in BOOLEAN
      BY DEF Truncated
    <3>2. scan[r] \in [start_gen : Nat, found : SUBSET Files, parsed : BOOLEAN,
                       complete : BOOLEAN, raw : Roots \cup {NoRoot}, gen : Nat]
      BY DEF IndInv, TypeOK, TaskType
    <3> HIDE DEF found, whole
    <3>3. QED
      BY <2>3, <3>1, <3>2, <1>0
  <2>5. /\ scan' = [scan EXCEPT ![r] = captured]
        /\ pc[r] = "Acquire"
        /\ pc' = [pc EXCEPT ![r] = "Parse"]
        /\ UNCHANGED <<generation, issued, actor, args, announced, applied,
                       served>>
    BY <1>4 DEF TaskAcquire, Step
  <2>6. captured.start_gen = generation /\ captured.raw = scan[r].raw
    BY <2>4 DEF IndInv, TypeOK, TaskType
  <2> HIDE DEF captured
  <2>7. TaskType'
    <3>1. scan_done' = scan_done
      BY <1>4 DEF TaskAcquire
    <3>2. QED
      BY <2>4, <2>5, <3>1 DEF IndInv, TypeOK, TaskType, Phases, Working,
         Holding
  <2>8. \A q \in Requests :
          /\ q # r => scan'[q] = scan[q]
          /\ q = r => scan'[q].start_gen = generation /\ scan'[q].raw = scan[q].raw
    BY <2>5, <2>6 DEF IndInv, TypeOK, TaskType
  <2>9. GenerationInv'
    BY <2>5, <2>8, <1>0 DEF IndInv, GenerationInv, Working, Holding, PostApply
  <2>10. ServedInv' /\ RootsInv'
    BY <2>5, <2>8, <1>0 DEF IndInv, ServedInv, RootsInv, PreApply, PreCapture
  <2>11. LatestInv'
    BY <2>5, <2>8, <1>0 DEF IndInv, LatestInv, PreApply, PreCapture
  <2>12. FlagType' /\ HistoryType'
    BY <1>4 DEF TaskAcquire, Step, IndInv, TypeOK, FlagType, HistoryType,
                queueVars, diskVars
  <2>13. IndexType'
    BY <1>4 DEF TaskAcquire, IndInv, TypeOK, IndexType, diskVars
  <2>14. QED
    BY <2>1, <2>2, <2>7, <2>9, <2>10, <2>11, <2>12, <2>13 DEF IndInv, TypeOK
<1>5. CASE TaskParseAborted(r)
  <2>1. OneScanAtATime' /\ NumberingInv' /\ PendingInv' /\ ReadyInv' /\ ActorType'
    BY <1>5, WorkStep DEF TaskParseAborted, Working, Holding
  <2>2. GuardInv'
    BY <1>5, <1>0 DEF TaskParseAborted, Step, IndInv, GuardInv, OneScanAtATime,
       Holding, Working
  <2>3. GenerationInv'
    BY <1>5, <1>0 DEF TaskParseAborted, Step, IndInv, GenerationInv, Working,
       Holding, PostApply
  <2>4. ServedInv'
    BY <1>5, <1>0 DEF TaskParseAborted, Step, IndInv, ServedInv, OneScanAtATime,
       NumberingInv, PendingInv, PreApply, PreCapture, Working, Holding
  <2>5. LatestInv'
    BY <1>5, <1>0 DEF TaskParseAborted, Step, IndInv, LatestInv, GenerationInv,
       PreApply, PreCapture, PostApply
  <2>6. FlagType' /\ HistoryType'
    BY <1>5 DEF TaskParseAborted, Step, IndInv, TypeOK, FlagType, HistoryType,
       TaskType, queueVars, diskVars, Requests
  <2>r. RootsInv'
    BY <1>5, <1>0 DEF TaskParseAborted, Step, IndInv, TypeOK, TaskType, ActorType,
       RootsInv
  <2>7. TaskType'
    BY <1>5 DEF TaskParseAborted, Step, IndInv, TypeOK, TaskType, ActorType, Phases,
       Working, Holding
  <2>8. IndexType'
    BY <1>5 DEF TaskParseAborted, Step, RootsInv, IndInv, TypeOK, IndexType,
       TaskType, ActorType, FlagType, diskVars
  <2>9. QED
    BY <2>1, <2>r, <2>2, <2>3, <2>4, <2>5, <2>6, <2>7, <2>8 DEF IndInv, TypeOK
<1>p. CASE TaskParse(r)
  <2> DEFINE todo == scan[r].found \ cache[args[r].root].files
  <2>1. PICK lost \in MayBeLost(todo), parsed \in BOOLEAN :
          /\ scan' = [scan EXCEPT ![r] =
                        [scan[r] EXCEPT !.found = scan[r].found \ lost,
                                        !.parsed = parsed]]
          /\ unread' = (unread \ todo) \cup lost
    BY <1>p DEF TaskParse
  <2>2. /\ pc[r] = "Parse" /\ pc' = [pc EXCEPT ![r] = "Apply"]
        /\ generation = scan[r].start_gen
        /\ UNCHANGED <<generation, issued, actor, args, announced, indexing,
                       applied, served, scan_done>>
    BY <1>p DEF TaskParse, Step
  <2>3. /\ scan[r].found \in SUBSET Files
        /\ lost \in SUBSET Files
        /\ unread' \in SUBSET Files
    <3>1. scan[r].found \in SUBSET Files /\ unread \in SUBSET Files
      BY DEF IndInv, TypeOK, TaskType, IndexType
    <3>2. lost \in SUBSET todo
      BY <2>1 DEF MayBeLost
    <3>3. QED
      BY <2>1, <3>1, <3>2
  <2>4. scan' \in [Requests -> [start_gen : Nat, found : SUBSET Files,
                               parsed : BOOLEAN, complete : BOOLEAN,
                               raw : Roots \cup {NoRoot}, gen : Nat]]
    <3>1. scan[r] \in [start_gen : Nat, found : SUBSET Files, parsed : BOOLEAN,
                       complete : BOOLEAN, raw : Roots \cup {NoRoot}, gen : Nat]
      BY DEF IndInv, TypeOK, TaskType
    <3>2. scan[r].found \ lost \in SUBSET Files
      BY <2>3
    <3>3. [scan[r] EXCEPT !.found = scan[r].found \ lost, !.parsed = parsed]
            \in [start_gen : Nat, found : SUBSET Files, parsed : BOOLEAN,
                 complete : BOOLEAN, raw : Roots \cup {NoRoot}, gen : Nat]
      BY <3>1, <3>2, ParsedRecord
    <3>4. QED
      BY <2>1, <3>3 DEF IndInv, TypeOK, TaskType
  <2>5. \A q \in Requests : /\ scan'[q].start_gen = scan[q].start_gen
                            /\ scan'[q].raw = scan[q].raw
    BY <2>1 DEF IndInv, TypeOK, TaskType
  <2>6. OneScanAtATime' /\ NumberingInv' /\ PendingInv' /\ ReadyInv' /\ ActorType'
    BY <1>p, WorkStep DEF TaskParse, Working, Holding
  <2>7. GuardInv' /\ GenerationInv' /\ RootsInv'
    <3>1. GuardInv'
      BY <2>2, <1>0 DEF IndInv, GuardInv, OneScanAtATime, Holding, Working
    <3>2. GenerationInv'
      BY <2>2, <2>5, <1>0 DEF IndInv, GenerationInv, Working, Holding, PostApply
    <3>3. RootsInv'
      BY <2>2, <2>5, <1>0 DEF IndInv, RootsInv
    <3>4. QED
      BY <3>1, <3>2, <3>3
  <2>8. ServedInv' /\ LatestInv'
    <3>1. ServedInv'
      BY <2>2, <1>0 DEF IndInv, ServedInv, PreApply, PreCapture
    <3>2. LatestInv'
      BY <2>2, <2>5, <1>0 DEF IndInv, LatestInv, PreApply, PreCapture
    <3>3. QED
      BY <3>1, <3>2
  <2>9. FlagType' /\ HistoryType'
    BY <1>p DEF TaskParse, Step, IndInv, TypeOK, FlagType, HistoryType,
       queueVars
  <2>10. TaskType'
    BY <2>2, <2>4 DEF IndInv, TypeOK, TaskType, Phases, Working, Holding
  <2>11. IndexType'
    BY <1>p, <2>3 DEF TaskParse, IndInv, TypeOK, IndexType
  <2>12. QED
    BY <2>6, <2>7, <2>8, <2>9, <2>10, <2>11 DEF IndInv, TypeOK
<1>6. CASE TaskCancel(r)
  <2>1. OneScanAtATime' /\ NumberingInv' /\ PendingInv' /\ ReadyInv' /\ ActorType'
    BY <1>6, WorkStep DEF TaskCancel, Working, Holding
  <2>2. GuardInv'
    BY <1>6, <1>0 DEF TaskCancel, Step, IndInv, GuardInv, OneScanAtATime,
       Holding, Working
  <2>3. GenerationInv'
    BY <1>6, <1>0 DEF TaskCancel, Step, IndInv, GenerationInv, Working,
       Holding, PostApply
  <2>4. ServedInv'
    BY <1>6, <1>0 DEF TaskCancel, Step, IndInv, ServedInv, OneScanAtATime,
       NumberingInv, PendingInv, PreApply, PreCapture, Working, Holding
  <2>5. LatestInv'
    BY <1>6, <1>0 DEF TaskCancel, Step, IndInv, LatestInv, GenerationInv,
       PreApply, PreCapture, PostApply
  <2>6. FlagType' /\ HistoryType'
    BY <1>6 DEF TaskCancel, Step, IndInv, TypeOK, FlagType, HistoryType,
       TaskType, queueVars, diskVars, Requests
  <2>r. RootsInv'
    BY <1>6, <1>0 DEF TaskCancel, Step, IndInv, TypeOK, TaskType, ActorType,
       RootsInv
  <2>7. TaskType'
    BY <1>6 DEF TaskCancel, Step, IndInv, TypeOK, TaskType, ActorType,
       Phases, Working, Holding
  <2>8. IndexType'
    BY <1>6 DEF TaskCancel, Step, RootsInv, IndInv, TypeOK, IndexType,
       TaskType, ActorType, FlagType, diskVars
  <2>9. QED
    BY <2>1, <2>r, <2>2, <2>3, <2>4, <2>5, <2>6, <2>7, <2>8 DEF IndInv, TypeOK
<1>7. CASE TaskApply(r)
  <2>1. OneScanAtATime' /\ NumberingInv' /\ PendingInv' /\ ReadyInv' /\ ActorType'
    BY <1>7, WorkStep DEF TaskApply, Working, Holding
  <2>2. GuardInv'
    BY <1>7, <1>0 DEF TaskApply, Step, IndInv, GuardInv, OneScanAtATime,
       Holding, Working
  <2>3. GenerationInv'
    BY <1>7, <1>0 DEF TaskApply, Step, IndInv, GenerationInv, Working,
       Holding, PostApply
  <2>4. ServedInv'
    <3>1. r <= issued /\ served' = r /\ issued' = issued /\ announced' = announced
      BY <1>7, <1>0 DEF TaskApply, Step, IndInv, NumberingInv
    <3>2. ASSUME NEW q \in Requests,
                 pc'[q] \in PreApply \cup {"Unused", "Handler", "Pending"}
          PROVE  q > r
      <4>1. q # r /\ pc[q] = pc'[q]
        BY <1>7, <1>0, <3>2 DEF TaskApply, Step, PreApply, PreCapture
      <4>2. pc[r] \in Working /\ pc[q] \notin PreApply
        BY <1>7, <4>1 DEF TaskApply, Step, IndInv, OneScanAtATime, Working,
                          Holding, PreApply, PreCapture
      <4>3. CASE pc[q] = "Unused"
        BY <4>3, <3>1, <1>0 DEF IndInv, NumberingInv
      <4>4. CASE pc[q] = "Handler"
        <5>1. q = issued
          BY <4>4 DEF IndInv, NumberingInv, None, Requests
        <5>2. QED
          BY <5>1, <4>1, <3>1, <1>0
      <4>5. CASE pc[q] = "Pending"
        <5>1. pending = q /\ ~(r > q)
          BY <4>5, <4>2, <1>0 DEF IndInv, PendingInv, None, Requests,
             Working, Holding
        <5>2. QED
          BY <5>1, <4>1, <1>0
      <4>6. QED
        BY <3>2, <4>1, <4>2, <4>3, <4>4, <4>5
    <3>3. QED
      BY <3>1, <3>2 DEF IndInv, ServedInv
  <2>5. LatestInv'
    <3>1. r <= issued /\ r > served
      BY <1>7, <1>0 DEF TaskApply, Step, IndInv, NumberingInv, ServedInv,
         PreApply
    <3>2. CASE r = issued
      BY <1>7, <3>2 DEF TaskApply, Step, LatestInv
    <3>3. CASE r # issued
      <4>1. served # issued
        BY <3>1, <3>3, <1>0 DEF IndInv, TypeOK, HistoryType
      <4>2. QED
        BY <1>7, <1>0, <3>3, <4>1 DEF TaskApply, Step, IndInv, LatestInv,
                                      PreApply, PreCapture
    <3>4. QED
      BY <3>2, <3>3
  <2>6. FlagType' /\ HistoryType'
    BY <1>7 DEF TaskApply, Step, IndInv, TypeOK, FlagType, HistoryType,
       TaskType, queueVars, diskVars, Requests
  <2>r. RootsInv'
    BY <1>7, <1>0 DEF TaskApply, Step, IndInv, TypeOK, TaskType, ActorType,
       RootsInv
  <2>7. TaskType'
    BY <1>7 DEF TaskApply, Step, IndInv, TypeOK, TaskType, ActorType, Phases,
       Working, Holding
  <2>8. IndexType'
    BY <1>7 DEF TaskApply, Step, RootsInv, IndInv, TypeOK, IndexType,
       TaskType, ActorType, FlagType, diskVars
  <2>9. QED
    BY <2>1, <2>r, <2>2, <2>3, <2>4, <2>5, <2>6, <2>7, <2>8 DEF IndInv, TypeOK
<1>8. CASE TaskApplyPanics(r)
  <2>1. OneScanAtATime' /\ NumberingInv' /\ PendingInv' /\ ReadyInv' /\ ActorType'
    BY <1>8, WorkStep DEF TaskApplyPanics, Working, Holding
  <2>2. GuardInv'
    BY <1>8, <1>0 DEF TaskApplyPanics, Step, IndInv, GuardInv,
       OneScanAtATime, Holding, Working
  <2>3. GenerationInv'
    BY <1>8, <1>0 DEF TaskApplyPanics, Step, IndInv, GenerationInv, Working,
       Holding, PostApply
  <2>4. ServedInv'
    BY <1>8, <1>0 DEF TaskApplyPanics, Step, IndInv, ServedInv,
       OneScanAtATime, NumberingInv, PendingInv, PreApply, PreCapture,
       Working, Holding
  <2>5. LatestInv'
    BY <1>8, <1>0 DEF TaskApplyPanics, Step, IndInv, LatestInv,
       GenerationInv, PreApply, PreCapture, PostApply
  <2>6. FlagType' /\ HistoryType'
    BY <1>8 DEF TaskApplyPanics, Step, IndInv, TypeOK, FlagType, HistoryType,
       TaskType, queueVars, diskVars, Requests
  <2>r. RootsInv'
    BY <1>8, <1>0 DEF TaskApplyPanics, Step, IndInv, TypeOK, TaskType,
       ActorType, RootsInv
  <2>7. TaskType'
    BY <1>8 DEF TaskApplyPanics, Step, IndInv, TypeOK, TaskType, ActorType,
       Phases, Working, Holding
  <2>8. IndexType'
    BY <1>8 DEF TaskApplyPanics, Step, RootsInv, IndInv, TypeOK, IndexType,
       TaskType, ActorType, FlagType, diskVars
  <2>9. QED
    BY <2>1, <2>r, <2>2, <2>3, <2>4, <2>5, <2>6, <2>7, <2>8 DEF IndInv, TypeOK
<1>9. CASE TaskSave(r)
  <2>1. OneScanAtATime' /\ NumberingInv' /\ PendingInv' /\ ReadyInv' /\ ActorType'
    BY <1>9, WorkStep DEF TaskSave, Working, Holding
  <2>2. GuardInv' /\ GenerationInv' /\ ServedInv' /\ LatestInv'
    BY <1>9, <1>0, QuietStep DEF TaskSave, PreCapture, PostApply, Holding,
       diskVars, IndInv, TypeOK, TaskType
  <2>3. FlagType' /\ HistoryType'
    BY <1>9 DEF TaskSave, Step, IndInv, TypeOK, FlagType, HistoryType,
       queueVars, diskVars
  <2>r. RootsInv'
    BY <1>9, <1>0 DEF TaskSave, Step, IndInv, TypeOK, TaskType, ActorType,
       RootsInv
  <2>4. TaskType'
    BY <1>9 DEF TaskSave, Step, IndInv, TypeOK, TaskType, ActorType, Phases,
       Working, Holding
  <2>5. IndexType'
    BY <1>9 DEF TaskSave, Step, RootsInv, IndInv, TypeOK, IndexType,
       TaskType, ActorType, FlagType, Shallow, Files, diskVars
  <2>6. QED
    BY <2>1, <2>r, <2>2, <2>3, <2>4, <2>5 DEF IndInv, TypeOK
<1>10. CASE TaskRelease(r)
  <2>1. OneScanAtATime' /\ NumberingInv' /\ PendingInv' /\ ReadyInv' /\ ActorType'
    BY <1>10, WorkStep DEF TaskRelease, Working, Holding
  <2>2. GuardInv'
    BY <1>10, <1>0 DEF TaskRelease, Step, IndInv, GuardInv, OneScanAtATime,
       Holding, Working
  <2>3. GenerationInv'
    BY <1>10, <1>0 DEF TaskRelease, Step, IndInv, GenerationInv, Working,
       Holding, PostApply
  <2>4. ServedInv'
    BY <1>10, <1>0 DEF TaskRelease, Step, IndInv, ServedInv, OneScanAtATime,
       NumberingInv, PendingInv, PreApply, PreCapture, Working, Holding
  <2>5. LatestInv'
    BY <1>10, <1>0 DEF TaskRelease, Step, IndInv, LatestInv, GenerationInv,
       PreApply, PreCapture, PostApply
  <2>6. FlagType' /\ HistoryType'
    BY <1>10 DEF TaskRelease, Step, IndInv, TypeOK, FlagType, HistoryType,
       TaskType, queueVars, diskVars, Requests
  <2>r. RootsInv'
    BY <1>10, <1>0 DEF TaskRelease, Step, IndInv, TypeOK, TaskType,
       ActorType, RootsInv
  <2>7. TaskType'
    BY <1>10 DEF TaskRelease, Step, IndInv, TypeOK, TaskType, ActorType,
       Phases, Working, Holding
  <2>8. IndexType'
    BY <1>10 DEF TaskRelease, Step, RootsInv, IndInv, TypeOK, IndexType,
       TaskType, ActorType, FlagType, diskVars
  <2>9. QED
    BY <2>1, <2>r, <2>2, <2>3, <2>4, <2>5, <2>6, <2>7, <2>8 DEF IndInv, TypeOK
<1>11. CASE TaskSourcesRead(r)
  <2>1. OneScanAtATime' /\ NumberingInv' /\ PendingInv' /\ ReadyInv' /\ ActorType'
    BY <1>11, WorkStep DEF TaskSourcesRead, Working, Holding
  <2>2. GuardInv'
    BY <1>11, <1>0 DEF TaskSourcesRead, Step, IndInv, GuardInv,
       OneScanAtATime, Holding, Working
  <2>3. GenerationInv'
    BY <1>11, <1>0 DEF TaskSourcesRead, Step, IndInv, GenerationInv, Working,
       Holding, PostApply
  <2>4. ServedInv'
    BY <1>11, <1>0 DEF TaskSourcesRead, Step, IndInv, ServedInv,
       OneScanAtATime, NumberingInv, PendingInv, PreApply, PreCapture,
       Working, Holding
  <2>5. LatestInv'
    BY <1>11, <1>0 DEF TaskSourcesRead, Step, IndInv, LatestInv,
       GenerationInv, PreApply, PreCapture, PostApply
  <2>6. FlagType' /\ HistoryType'
    BY <1>11 DEF TaskSourcesRead, Step, IndInv, TypeOK, FlagType,
       HistoryType, TaskType, queueVars, diskVars, Requests
  <2>r. RootsInv'
    BY <1>11, <1>0 DEF TaskSourcesRead, Step, IndInv, TypeOK, TaskType,
       ActorType, RootsInv
  <2>7. TaskType'
    <3>1. TaskType /\ source_paths \in Roots \cup {NoRoot}
      BY DEF IndInv, TypeOK, ActorType
    <3>2. pc' \in [Requests -> Phases] /\ scan_done' \in Nat
      BY <1>11, <3>1 DEF TaskSourcesRead, Step, TaskType, Phases, Working,
         Holding
    <3>3. scan' \in [Requests -> [start_gen : Nat, found : SUBSET Files,
                                 parsed : BOOLEAN, complete : BOOLEAN,
                                 raw : Roots \cup {NoRoot}, gen : Nat]]
      BY <1>11, <3>1 DEF TaskSourcesRead, TaskType
    <3>4. QED
      BY <1>11, <3>1, <3>2, <3>3 DEF TaskSourcesRead, Step, TaskType
  <2>8. IndexType'
    BY <1>11 DEF TaskSourcesRead, Step, RootsInv, IndInv, TypeOK, IndexType,
       TaskType, ActorType, FlagType, diskVars
  <2>9. QED
    BY <2>1, <2>r, <2>2, <2>3, <2>4, <2>5, <2>6, <2>7, <2>8 DEF IndInv, TypeOK
<1>12. CASE TaskSourcesGeneration(r)
  <2>1. OneScanAtATime' /\ NumberingInv' /\ PendingInv' /\ ReadyInv' /\ ActorType'
    BY <1>12, WorkStep DEF TaskSourcesGeneration, Working, Holding
  <2>2. GuardInv' /\ GenerationInv' /\ ServedInv' /\ LatestInv'
    BY <1>12, <1>0, QuietStep DEF TaskSourcesGeneration, PreCapture,
       PostApply, Holding, diskVars, IndInv, TypeOK, TaskType
  <2>3. FlagType' /\ HistoryType'
    BY <1>12 DEF TaskSourcesGeneration, Step, IndInv, TypeOK, FlagType,
       HistoryType, queueVars, diskVars
  <2>r. RootsInv'
    BY <1>12, <1>0 DEF TaskSourcesGeneration, Step, IndInv, TypeOK, TaskType,
       ActorType, RootsInv
  <2>4. TaskType'
    <3>1. TaskType /\ generation \in Nat
      BY DEF IndInv, TypeOK, ActorType
    <3>2. pc' \in [Requests -> Phases] /\ scan_done' \in Nat
      BY <1>12, <3>1 DEF TaskSourcesGeneration, Step, TaskType, Phases,
         Working, Holding
    <3>3. scan' \in [Requests -> [start_gen : Nat, found : SUBSET Files,
                                 parsed : BOOLEAN, complete : BOOLEAN,
                                 raw : Roots \cup {NoRoot}, gen : Nat]]
      BY <1>12, <3>1 DEF TaskSourcesGeneration, TaskType
    <3>4. QED
      BY <1>12, <3>1, <3>2, <3>3 DEF TaskSourcesGeneration, Step, TaskType
  <2>5. IndexType'
    BY <1>12 DEF TaskSourcesGeneration, Step, RootsInv, IndInv, TypeOK,
       IndexType, TaskType, ActorType, FlagType, Shallow, Files, diskVars
  <2>6. QED
    BY <2>1, <2>r, <2>2, <2>3, <2>4, <2>5 DEF IndInv, TypeOK
<1>13. CASE TaskSourcesRestore(r)
  <2>1. OneScanAtATime' /\ NumberingInv' /\ PendingInv' /\ ReadyInv' /\ ActorType'
    BY <1>13, WorkStep DEF TaskSourcesRestore, Working, Holding
  <2>2. GuardInv'
    BY <1>13, <1>0 DEF TaskSourcesRestore, Step, IndInv, GuardInv,
       OneScanAtATime, Holding, Working
  <2>3. GenerationInv'
    BY <1>13, <1>0 DEF TaskSourcesRestore, Step, IndInv, GenerationInv,
       Working, Holding, PostApply
  <2>4. ServedInv'
    BY <1>13, <1>0 DEF TaskSourcesRestore, Step, IndInv, ServedInv,
       OneScanAtATime, NumberingInv, PendingInv, PreApply, PreCapture,
       Working, Holding
  <2>5. LatestInv'
    BY <1>13, <1>0 DEF TaskSourcesRestore, Step, IndInv, LatestInv,
       GenerationInv, PreApply, PreCapture, PostApply
  <2>6. FlagType' /\ HistoryType'
    BY <1>13 DEF TaskSourcesRestore, Step, IndInv, TypeOK, FlagType,
       HistoryType, TaskType, queueVars, diskVars, Requests
  <2>r. RootsInv'
    BY <1>13, <1>0 DEF TaskSourcesRestore, Step, IndInv, TypeOK, TaskType,
       ActorType, RootsInv
  <2>7. TaskType'
    BY <1>13 DEF TaskSourcesRestore, Step, IndInv, TypeOK, TaskType,
       ActorType, Phases, Working, Holding
  <2>8. IndexType'
    BY <1>13 DEF TaskSourcesRestore, Step, RootsInv, IndInv, TypeOK,
       IndexType, TaskType, ActorType, FlagType, diskVars
  <2>9. QED
    BY <2>1, <2>r, <2>2, <2>3, <2>4, <2>5, <2>6, <2>7, <2>8 DEF IndInv, TypeOK
<1>14. CASE TaskSourcesScan(r)
  <2>1. OneScanAtATime' /\ NumberingInv' /\ PendingInv' /\ ReadyInv' /\ ActorType'
    BY <1>14, WorkStep DEF TaskSourcesScan, Working, Holding
  <2>2. GuardInv'
    BY <1>14, <1>0 DEF TaskSourcesScan, Step, IndInv, GuardInv,
       OneScanAtATime, Holding, Working
  <2>3. GenerationInv'
    BY <1>14, <1>0 DEF TaskSourcesScan, Step, IndInv, GenerationInv, Working,
       Holding, PostApply
  <2>4. ServedInv'
    BY <1>14, <1>0 DEF TaskSourcesScan, Step, IndInv, ServedInv,
       OneScanAtATime, NumberingInv, PendingInv, PreApply, PreCapture,
       Working, Holding
  <2>5. LatestInv'
    BY <1>14, <1>0 DEF TaskSourcesScan, Step, IndInv, LatestInv,
       GenerationInv, PreApply, PreCapture, PostApply
  <2>6. FlagType' /\ HistoryType'
    BY <1>14 DEF TaskSourcesScan, Step, IndInv, TypeOK, FlagType,
       HistoryType, TaskType, queueVars, diskVars, Requests
  <2>r. RootsInv'
    BY <1>14, <1>0 DEF TaskSourcesScan, Step, IndInv, TypeOK, TaskType,
       ActorType, RootsInv
  <2>7. TaskType'
    BY <1>14 DEF TaskSourcesScan, Step, IndInv, TypeOK, TaskType, ActorType,
       Phases, Working, Holding
  <2>8. IndexType'
    BY <1>14 DEF TaskSourcesScan, Step, RootsInv, IndInv, TypeOK, IndexType,
       TaskType, ActorType, FlagType, diskVars
  <2>9. QED
    BY <2>1, <2>r, <2>2, <2>3, <2>4, <2>5, <2>6, <2>7, <2>8 DEF IndInv, TypeOK
<1>15. CASE TaskSuperseded(r)
  <2>1. OneScanAtATime'
    BY <1>15, <1>0 DEF TaskSuperseded, Step, IndInv, OneScanAtATime,
       queueVars, Working, Holding
  <2>2. NumberingInv' /\ PendingInv' /\ ReadyInv'
    BY <1>15, <1>0 DEF TaskSuperseded, Step, IndInv, NumberingInv,
       PendingInv, ReadyInv, queueVars
  <2>3. GuardInv'
    BY <1>15, <1>0 DEF TaskSuperseded, Step, IndInv, GuardInv, Holding
  <2>4. GenerationInv'
    BY <1>15, <1>0 DEF TaskSuperseded, Step, IndInv, GenerationInv, Working,
       Holding, PostApply
  <2>5. ServedInv'
    BY <1>15, <1>0 DEF TaskSuperseded, Step, IndInv, ServedInv, PreApply,
       PreCapture
  <2>6. LatestInv'
    BY <1>15, <1>0 DEF TaskSuperseded, Step, IndInv, LatestInv, PreApply,
       PreCapture
  <2>7. ActorType' /\ IndexType'
    BY <1>15 DEF TaskSuperseded, Step, IndInv, TypeOK, ActorType, IndexType,
       queueVars, diskVars
  <2>8. FlagType' /\ HistoryType'
    BY <1>15 DEF TaskSuperseded, Step, IndInv, TypeOK, FlagType, HistoryType,
       queueVars
  <2>r. RootsInv'
    BY <1>15, <1>0 DEF TaskSuperseded, Step, IndInv, TypeOK, TaskType,
       ActorType, RootsInv
  <2>9. TaskType'
    BY <1>15 DEF TaskSuperseded, Step, IndInv, TypeOK, TaskType, Phases,
       Working, Holding, Settled
  <2>10. QED
    BY <2>1, <2>r, <2>2, <2>3, <2>4, <2>5, <2>6, <2>7, <2>8, <2>9 DEF IndInv,
       TypeOK
<1>16. CASE TaskSignal(r)
  <2>1. OneScanAtATime'
    BY <1>16, <1>0 DEF TaskSignal, Step, IndInv, OneScanAtATime, queueVars,
       Working, Holding
  <2>2. NumberingInv' /\ PendingInv' /\ ReadyInv'
    BY <1>16, <1>0 DEF TaskSignal, Step, IndInv, NumberingInv, PendingInv,
       ReadyInv, queueVars
  <2>3. GuardInv'
    BY <1>16, <1>0 DEF TaskSignal, Step, IndInv, GuardInv, Holding
  <2>4. GenerationInv'
    BY <1>16, <1>0 DEF TaskSignal, Step, IndInv, GenerationInv, Working,
       Holding, PostApply
  <2>5. ServedInv'
    BY <1>16, <1>0 DEF TaskSignal, Step, IndInv, ServedInv, PreApply,
       PreCapture
  <2>6. LatestInv'
    BY <1>16, <1>0 DEF TaskSignal, Step, IndInv, LatestInv, PreApply,
       PreCapture
  <2>7. ActorType' /\ IndexType'
    BY <1>16 DEF TaskSignal, Step, IndInv, TypeOK, ActorType, IndexType,
       queueVars, diskVars
  <2>8. FlagType' /\ HistoryType'
    BY <1>16 DEF TaskSignal, Step, IndInv, TypeOK, FlagType, HistoryType,
       queueVars
  <2>r. RootsInv'
    BY <1>16, <1>0 DEF TaskSignal, Step, IndInv, TypeOK, TaskType, ActorType,
       RootsInv
  <2>9. TaskType'
    BY <1>16 DEF TaskSignal, Step, IndInv, TypeOK, TaskType, Phases, Working,
       Holding, Settled
  <2>10. QED
    BY <2>1, <2>r, <2>2, <2>3, <2>4, <2>5, <2>6, <2>7, <2>8, <2>9 DEF IndInv,
       TypeOK
<1>17. CASE TaskComplete(r)
  <2>1. OneScanAtATime'
    BY <1>17, <1>0 DEF TaskComplete, Step, IndInv, OneScanAtATime, queueVars,
       Working, Holding
  <2>2. NumberingInv' /\ PendingInv' /\ ReadyInv'
    BY <1>17, <1>0 DEF TaskComplete, Step, IndInv, NumberingInv, PendingInv,
       ReadyInv, queueVars
  <2>3. GuardInv'
    BY <1>17, <1>0 DEF TaskComplete, Step, IndInv, GuardInv, Holding
  <2>4. GenerationInv'
    BY <1>17, <1>0 DEF TaskComplete, Step, IndInv, GenerationInv, Working,
       Holding, PostApply
  <2>5. ServedInv'
    BY <1>17, <1>0 DEF TaskComplete, Step, IndInv, ServedInv, PreApply,
       PreCapture
  <2>6. LatestInv'
    BY <1>17, <1>0 DEF TaskComplete, Step, IndInv, LatestInv, PreApply,
       PreCapture
  <2>7. ActorType' /\ IndexType'
    BY <1>17 DEF TaskComplete, Step, IndInv, TypeOK, ActorType, IndexType,
       queueVars, diskVars
  <2>8. FlagType' /\ HistoryType'
    BY <1>17 DEF TaskComplete, Step, IndInv, TypeOK, FlagType, HistoryType,
       queueVars
  <2>r. RootsInv'
    BY <1>17, <1>0 DEF TaskComplete, Step, IndInv, TypeOK, TaskType,
       ActorType, RootsInv
  <2>9. TaskType'
    BY <1>17 DEF TaskComplete, Step, IndInv, TypeOK, TaskType, Phases,
       Working, Holding, Settled
  <2>10. QED
    BY <2>1, <2>r, <2>2, <2>3, <2>4, <2>5, <2>6, <2>7, <2>8, <2>9 DEF IndInv,
       TypeOK
<1>18. QED
  BY <1>1, <1>2, <1>3, <1>4, <1>5, <1>6, <1>7, <1>8, <1>9, <1>10, <1>11,
     <1>12, <1>13, <1>14, <1>15, <1>16, <1>17, <1>p DEF Task

-----------------------------------------------------------------------------
(* Steps of the actor.                                                     *)

(* What taking an event changes, whichever event it is.                    *)
LEMMA EventFacts ==
  ASSUME IndInv, Event
  PROVE  \E kind \in Kinds, dir \in Roots, tx \in BOOLEAN :
           /\ BeginRequest(kind, dir, tx)
           /\ generation' \in {generation, generation + 1}
           /\ root' = dir
           /\ source_paths' \in Roots \cup {NoRoot}
           /\ pinned' \in BOOLEAN /\ initialised' \in BOOLEAN
           /\ UNCHANGED <<queueVars, was_ready, scan, scan_done, indexing,
                          last_complete, index, library, diskVars, histVars,
                          capped, crashes>>
<1>1. CASE \E dir \in Roots, pin, tx \in BOOLEAN : HandleInitialize(dir, pin, tx)
  BY <1>1 DEF HandleInitialize, ApplyConfig, Kinds
<1>2. CASE HandleReindex
  <2>1. root \in Roots /\ source_paths \in Roots \cup {NoRoot}
        /\ pinned \in BOOLEAN /\ initialised \in BOOLEAN
    BY <1>2 DEF HandleReindex, IndInv, TypeOK, ActorType, FlagType
  <2>2. QED
    BY <1>2, <2>1 DEF HandleReindex, Kinds
<1>3. CASE \E dir \in Roots : HandleChangeRoot(dir)
  BY <1>3 DEF HandleChangeRoot, ApplyConfig, Kinds
<1>4. CASE \E dir \in Roots : SwitchWorkspaceRoot(dir)
  BY <1>4 DEF SwitchWorkspaceRoot, ApplyConfig, Kinds
<1>5. QED
  BY <1>1, <1>2, <1>3, <1>4 DEF Event

(* Taking an event preserves the inductive invariant.                      *)
LEMMA EventIndInv ==
  ASSUME IndInv, Event
  PROVE  IndInv'
<1> USE RootsAssumption, BoundsAssumption
<1>1. PICK kind \in Kinds, dir \in Roots, tx \in BOOLEAN :
        /\ BeginRequest(kind, dir, tx)
        /\ generation' \in {generation, generation + 1}
        /\ root' = dir
        /\ source_paths' \in Roots \cup {NoRoot}
        /\ pinned' \in BOOLEAN /\ initialised' \in BOOLEAN
        /\ UNCHANGED <<queueVars, was_ready, scan, scan_done, indexing,
                       last_complete, index, library, diskVars, histVars,
                       capped, crashes>>
  BY EventFacts
<1> DEFINE n == issued + 1
<1>2. /\ actor = None /\ n \in Requests /\ n \in Nat /\ n # None
      /\ issued' = n /\ actor' = n
      /\ pc' = [pc EXCEPT ![n] = "Handler"]
      /\ args' = [args EXCEPT ![n] =
                   [root |-> dir, kind |-> kind, tx |-> tx, gen |-> 0]]
      /\ UNCHANGED <<pending, in_progress, was_ready, scan, scan_done,
                     indexing,
                     index, library, completed, applied, served, announced>>
  BY <1>1 DEF BeginRequest, IndInv, TypeOK, ActorType, Requests, None,
              queueVars, histVars
<1>3. /\ pc \in [Requests -> Phases]
      /\ pc[n] = "Unused"
      /\ generation \in Nat /\ generation' \in Nat /\ generation <= generation'
      /\ issued \in Nat /\ served \in Nat /\ announced \in Nat
      /\ \A q \in Requests : /\ q \in Nat /\ args[q].gen \in Nat
                             /\ scan[q].start_gen \in Nat
      /\ \A q \in Requests : q # n => args'[q] = args[q] /\ pc'[q] = pc[q]
      /\ pc'[n] = "Handler" /\ args'[n].root = dir
  BY <1>1, <1>2 DEF IndInv, TypeOK, TaskType, ActorType, HistoryType,
                    NumberingInv, Requests
<1> HIDE DEF n
<1>4. OneScanAtATime' /\ GuardInv' /\ ReadyInv'
  <2>1. \A q \in Requests :
          (pc'[q] \in Working <=> pc[q] \in Working)
          /\ (pc'[q] \in Holding <=> pc[q] \in Holding)
    BY <1>3 DEF Working, Holding
  <2>2. OneScanAtATime'
    <3>1. OneScanAtATime
      BY DEF IndInv
    <3>2. QED
      BY <1>2, <2>1, <3>1 DEF OneScanAtATime
  <2>3. GuardInv'
    <3>1. GuardInv
      BY DEF IndInv
    <3>2. QED
      BY <1>2, <2>1, <3>1 DEF GuardInv
  <2>4. ReadyInv'
    BY <1>2 DEF IndInv, ReadyInv
  <2>5. QED
    BY <2>2, <2>3, <2>4
<1>5. NumberingInv'
  <2>1. n = issued + 1
    BY DEF n
  <2>2. ASSUME NEW q \in Requests
        PROVE  (pc'[q] = "Unused" <=> q > issued') /\ (pc'[q] = "Handler" <=> actor' = q)
    <3>1. CASE q = n
      BY <2>1, <3>1, <1>2, <1>3
    <3>2. CASE q # n
      <4>1. (pc[q] = "Unused" <=> q > issued) /\ (pc[q] = "Handler" <=> actor = q)
        BY DEF IndInv, NumberingInv
      <4>2. q # None /\ q \in Nat /\ pc'[q] = pc[q]
        BY <3>2, <1>3 DEF Requests, None
      <4>3. QED
        BY <2>1, <3>2, <4>1, <4>2, <1>2, <1>3
    <3>3. QED
      BY <3>1, <3>2
  <2>3. QED
    BY <2>2, <1>2 DEF NumberingInv
<1>6. PendingInv'
  BY <1>2, <1>3 DEF IndInv, PendingInv, None
<1>7. RootsInv'
  BY <1>2, <1>3 DEF IndInv, RootsInv
<1>8. GenerationInv'
  BY <1>2, <1>3 DEF IndInv, GenerationInv, Working, Holding, PostApply
<1>9. ServedInv'
  <2>1. n = issued + 1
    BY DEF n
  <2>2. QED
    BY <2>1, <1>2, <1>3 DEF IndInv, ServedInv
<1>10. LatestInv'
  BY <1>2 DEF LatestInv
<1>11. ActorType'
  BY <1>1, <1>2, <1>3 DEF IndInv, TypeOK, ActorType, Requests
<1>12. FlagType' /\ IndexType' /\ HistoryType'
  BY <1>1, <1>2 DEF IndInv, TypeOK, FlagType, IndexType, HistoryType, diskVars
<1>13. TaskType'
  BY <1>2 DEF IndInv, TypeOK, TaskType, Phases
<1>14. QED
  BY <1>4, <1>5, <1>6, <1>7, <1>8, <1>9, <1>10, <1>11, <1>12, <1>13
     DEF IndInv, TypeOK

(* Queueing the scan of the event in hand preserves it.                    *)
LEMMA EnqueueIndInv ==
  ASSUME IndInv, EnqueueScan
  PROVE  IndInv'
<1> USE RootsAssumption, BoundsAssumption
<1> DEFINE n == actor
           gen == BumpedGeneration
<1>1. /\ n \in Requests /\ n = issued /\ n # None /\ pc[n] = "Handler"
      /\ actor' = None /\ in_progress' = TRUE /\ was_ready' = FALSE
      /\ pc' = Requeue(n, IF in_progress THEN None ELSE n)
      /\ pending' = IF in_progress THEN n ELSE None
      /\ generation' = gen
      /\ args' = [args EXCEPT ![n].gen = gen]
      /\ announced' = announced
      /\ UNCHANGED <<issued, scan, scan_done, indexing, index, library,
                     completed, applied, served>>
  <2>1. n \in Requests /\ n = issued /\ n # None /\ pc[n] = "Handler"
    BY DEF EnqueueScan, IndInv, TypeOK, ActorType, NumberingInv
  <2>2. IsReady = FALSE
    BY DEF EnqueueScan, IsReady
  <2>3. QED
    BY <2>1, <2>2 DEF EnqueueScan, TryStart, Request, ExpectedGeneration,
                      DetectReady
<1>2. /\ pc \in [Requests -> Phases] /\ args \in [Requests -> [root : Roots \cup {NoRoot}, kind : Kinds, tx : BOOLEAN, gen : Nat]]
      /\ generation \in Nat /\ gen \in Nat /\ generation <= gen
      /\ issued \in Nat /\ served \in Nat /\ announced \in Nat
      /\ \A q \in Requests : /\ q \in Nat /\ args[q].gen \in Nat
                             /\ scan[q].start_gen \in Nat
  BY DEF BumpedGeneration, IndInv, TypeOK, TaskType, ActorType, HistoryType,
     Requests
<1>3. /\ \A q \in Requests : q # n => args'[q] = args[q]
      /\ args'[n].gen = gen /\ args'[n].root = args[n].root
  BY <1>1, <1>2
<1>4. /\ pc'[n] = IF in_progress THEN "Pending" ELSE "Start"
      /\ \A q \in Requests : q # n =>
           pc'[q] = IF q = pending THEN "Superseded" ELSE pc[q]
      /\ pc' \in [Requests -> Phases]
  BY <1>1, <1>2 DEF Requeue, None, Phases, Working, Holding, Settled
<1> HIDE DEF n, gen
<1>5. OneScanAtATime'
  BY <1>1, <1>4 DEF IndInv, OneScanAtATime, PendingInv, Working, Holding
<1>6. NumberingInv'
  <2>1. ASSUME NEW q \in Requests
        PROVE  (pc'[q] = "Unused" <=> q > issued') /\ (pc'[q] = "Handler" <=> actor' = q)
    <3>1. /\ pc[q] = "Unused" <=> q > issued
          /\ pc[q] = "Handler" <=> n = q
          /\ pc[q] = "Pending" <=> pending = q
      BY DEF IndInv, NumberingInv, PendingInv, n
    <3>2. q # None /\ q \in Nat
      BY DEF Requests, None
    <3>3. CASE q = n
      BY <3>2, <3>3, <1>1, <1>2, <1>4
    <3>4. CASE q # n
      BY <3>1, <3>2, <3>4, <1>1, <1>4
    <3>5. QED
      BY <3>3, <3>4
  <2>2. QED
    BY <2>1, <1>1 DEF NumberingInv
<1>7. PendingInv'
  <2>1. ASSUME NEW q \in Requests
        PROVE  /\ pc'[q] = "Pending" <=> pending' = q
               /\ q > pending' /\ pending' # None => pc'[q] \in {"Unused", "Handler"}
    <3>1. /\ pc[q] = "Unused" <=> q > issued
          /\ pc[q] = "Pending" <=> pending = q
          /\ pending # None => in_progress
      BY DEF IndInv, NumberingInv, PendingInv
    <3>2. q # None /\ q \in Nat /\ pending \in Requests \cup {None}
      BY DEF Requests, None, IndInv, TypeOK, ActorType
    <3>3. CASE q = n
      BY <3>2, <3>3, <1>1, <1>2, <1>4
    <3>4. CASE q # n
      BY <3>1, <3>2, <3>4, <1>1, <1>2, <1>4
    <3>5. QED
      BY <3>3, <3>4
  <2>2. QED
    BY <2>1, <1>1 DEF PendingInv
<1>8. RootsInv'
  BY <1>1, <1>2, <1>3, <1>4 DEF IndInv, RootsInv, PendingInv
<1>9. GuardInv'
  BY <1>1, <1>4 DEF IndInv, GuardInv, PendingInv, Holding
<1>10. GenerationInv'
  BY <1>1, <1>2, <1>3, <1>4 DEF IndInv, GenerationInv, Working, Holding,
     PostApply
<1>11. ServedInv'
  BY <1>1, <1>2, <1>4 DEF IndInv, ServedInv, PreApply, PreCapture
<1>12. LatestInv' /\ ReadyInv'
  BY <1>1, <1>3, <1>4 DEF LatestInv, ReadyInv, PreApply, PreCapture
<1>13. ActorType'
  BY <1>1, <1>2 DEF EnqueueScan, IndInv, TypeOK, ActorType
<1>14. FlagType'
  BY <1>1 DEF EnqueueScan, IndInv, TypeOK, FlagType
<1>15. IndexType' /\ HistoryType'
  BY <1>1 DEF EnqueueScan, diskVars, IndInv, TypeOK, IndexType, HistoryType
<1>16. TaskType'
  <2>1. args' \in [Requests -> [root : Roots \cup {NoRoot}, kind : Kinds,
                               tx : BOOLEAN, gen : Nat]]
    BY <1>1, <1>2
  <2>2. QED
    BY <2>1, <1>1, <1>4 DEF IndInv, TypeOK, TaskType
<1>17. QED
  BY <1>5, <1>6, <1>7, <1>8, <1>9, <1>10, <1>11, <1>12, <1>13, <1>14, <1>15,
     <1>16 DEF IndInv, TypeOK

(* The end of a scan, and the start of the waiting one, preserve it; the   *)
(* workspace is announced ready only when the newest request was served.   *)
LEMMA CompletedIndInv ==
  ASSUME IndInv, OnScanCompleted
  PROVE  /\ IndInv'
         /\ announced' # announced /\ ~MayPanic => served = issued
<1> USE RootsAssumption, BoundsAssumption
<1>1. /\ actor = None /\ actor' = None /\ pending' = None
      /\ scan_done = 1 /\ scan_done' = 0
      /\ in_progress' = (pending # None)
      /\ pc' = [q \in Requests |-> IF pending = q THEN "Start" ELSE pc[q]]
      /\ UNCHANGED <<generation, issued, args, scan, indexing, index, library,
                     completed, applied, served>>
  BY DEF OnScanCompleted, TryStart, IndInv, OneScanAtATime
<1>2. /\ pc \in [Requests -> Phases] /\ pc' \in [Requests -> Phases]
      /\ issued \in Nat /\ served \in Nat /\ announced \in Nat
      /\ pending \in Requests \cup {None}
      /\ \A q \in Requests : q \in Nat /\ pc[q] \notin Working
  BY <1>1 DEF IndInv, TypeOK, TaskType, ActorType, HistoryType, Requests,
              OneScanAtATime, Phases, Working, Holding
<1>3. was_ready' = IsReady /\ announced' \in {announced, issued}
      /\ (announced' # announced => in_progress' = FALSE)
  BY DEF OnScanCompleted, DetectReady, IsReady
<1>4. OneScanAtATime'
  <2>1. \A q \in Requests : pc'[q] \in Working <=> pending = q
    BY <1>1, <1>2 DEF Working
  <2>2. pending # None <=> \E q \in Requests : pending = q
    BY <1>2 DEF None, Requests
  <2>3. in_progress' <=> \E q \in Requests : pc'[q] \in Working
    BY <2>1, <2>2, <1>1
  <2>4. QED
    BY <2>1, <2>3, <1>1 DEF OneScanAtATime
<1>5. NumberingInv' /\ PendingInv'
  BY <1>1, <1>2 DEF IndInv, NumberingInv, PendingInv, None, Requests
<1>6. RootsInv'
  BY <1>1, <1>2 DEF IndInv, RootsInv, PendingInv
<1>7. GuardInv'
  BY <1>1, <1>2 DEF IndInv, GuardInv, Working, Holding
<1>8. GenerationInv'
  BY <1>1, <1>2 DEF IndInv, GenerationInv, PendingInv, Working, Holding,
     PostApply
<1>9. ServedInv'
  BY <1>1, <1>2, <1>3 DEF IndInv, ServedInv, PendingInv, PreApply, PreCapture
<1>10. LatestInv'
  BY <1>1, <1>2 DEF IndInv, LatestInv, PendingInv, PreApply, PreCapture
<1>11. ReadyInv'
  BY <1>3 DEF ReadyInv, IsReady
<1>12. ActorType' /\ IndexType'
  BY <1>1 DEF OnScanCompleted, diskVars, IndInv, TypeOK, ActorType, IndexType
<1>13. FlagType'
  <2>1. IsReady \in BOOLEAN
    BY DEF IsReady
  <2>2. (pending # None) \in BOOLEAN
    OBVIOUS
  <2>3. QED
    BY <1>1, <1>3, <2>1, <2>2 DEF OnScanCompleted, IndInv, TypeOK, FlagType
<1>14. HistoryType'
  BY <1>1, <1>3 DEF IndInv, TypeOK, ActorType, HistoryType
<1>15. TaskType'
  BY <1>1, <1>2 DEF IndInv, TypeOK, TaskType
<1>16. ASSUME announced' # announced, ~MayPanic
       PROVE  served = issued
  <2>1. pending = None
    BY <1>1, <1>3, <1>16
  <2>2. \A q \in Requests : pc[q] # "Pending" /\ pc[q] \notin PreApply
    BY <1>2, <2>1 DEF IndInv, PendingInv, None, Requests, PreApply,
       PreCapture,
                      Working, Holding
  <2>3. QED
    BY <1>1, <1>16, <2>2 DEF IndInv, LatestInv
<1>17. QED
  BY <1>4, <1>5, <1>6, <1>7, <1>8, <1>9, <1>10, <1>11, <1>12, <1>13, <1>14,
     <1>15, <1>16 DEF IndInv, TypeOK

(* So does a restart: every request that was taken is settled.             *)
LEMMA RestartIndInv ==
  ASSUME IndInv, Restart
  PROVE  IndInv'
<1> USE RootsAssumption, BoundsAssumption
<1>1. /\ pc' = [r \in Requests |->
                  IF pc[r] = "Unused" \/ pc[r] \in Settled THEN pc[r] ELSE "Lost"]
      /\ generation' = 0 /\ pending' = None /\ in_progress' = FALSE
      /\ actor' = None /\ was_ready' = FALSE /\ scan_done' = 0
      /\ indexing' = FALSE /\ served' = issued /\ announced' = issued
      /\ UNCHANGED <<issued, args, scan, completed, applied>>
  BY DEF Restart
<1>2. /\ pc \in [Requests -> Phases] /\ pc' \in [Requests -> Phases]
      /\ issued \in Nat
      /\ \A q \in Requests : /\ q \in Nat
                             /\ pc'[q] \in {"Unused"} \cup Settled
                             /\ pc'[q] = "Unused" <=> pc[q] = "Unused"
  BY <1>1 DEF IndInv, TypeOK, TaskType, ActorType, Requests, Phases, Settled
<1>3. OneScanAtATime' /\ GuardInv' /\ ReadyInv'
  BY <1>1, <1>2 DEF OneScanAtATime, GuardInv, ReadyInv, Working, Holding,
     Settled
<1>4. NumberingInv' /\ PendingInv'
  BY <1>1, <1>2 DEF IndInv, NumberingInv, PendingInv, Settled, None, Requests
<1>5. RootsInv' /\ GenerationInv'
  BY <1>1, <1>2 DEF IndInv, RootsInv, GenerationInv, Working, Holding,
                    PostApply, Settled
<1>6. ServedInv' /\ LatestInv'
  BY <1>1, <1>2 DEF IndInv, NumberingInv, ServedInv, LatestInv, PreApply,
                    PreCapture, Settled
<1>7. ActorType' /\ FlagType'
  <2>1. ActorType'
    BY DEF Restart, IndInv, TypeOK, ActorType, Requests, None
  <2>2. FlagType'
    BY DEF Restart, FlagType
  <2>3. QED
    BY <2>1, <2>2
<1>8. IndexType' /\ HistoryType'
  BY DEF Restart, diskVars, IndInv, TypeOK, ActorType, IndexType, HistoryType
<1>9. TaskType'
  BY <1>1, <1>2 DEF IndInv, TypeOK, TaskType
<1>10. QED
  BY <1>3, <1>4, <1>5, <1>6, <1>7, <1>8, <1>9 DEF IndInv, TypeOK

(* A step that changes nothing preserves it.                               *)
LEMMA StutterIndInv ==
  ASSUME IndInv, UNCHANGED vars
  PROVE  IndInv'
<1>1. TypeOK'
  BY DEF vars, IndInv, TypeOK, ActorType, FlagType, TaskType, IndexType,
     HistoryType
<1>2. OneScanAtATime' /\ NumberingInv' /\ PendingInv' /\ RootsInv' /\ GuardInv'
  BY DEF vars, IndInv, OneScanAtATime, NumberingInv, PendingInv, RootsInv,
     GuardInv
<1>3. GenerationInv' /\ ServedInv' /\ LatestInv' /\ ReadyInv'
  BY DEF vars, IndInv, GenerationInv, ServedInv, LatestInv, ReadyInv
<1>4. QED
  BY <1>1, <1>2, <1>3 DEF IndInv

-----------------------------------------------------------------------------
(* Every reachable state satisfies the inductive invariant.                *)
THEOREM Inductive == Spec => []IndInv
<1>1. IndInv /\ [Next]_vars => IndInv'
  BY TaskIndInv, EventIndInv, EnqueueIndInv, CompletedIndInv, RestartIndInv,
     StutterIndInv DEF Next, Actor
<1>2. QED
  BY InitIndInv, <1>1, PTL DEF Spec

(* Type correctness.                                                       *)
THEOREM TypeCorrect == Spec => []TypeOK
<1>1. IndInv => TypeOK
  BY DEF IndInv
<1>2. QED
  BY <1>1, Inductive, PTL

(* ScanQueue lets one scan run at a time, and its flag is never stuck.     *)
THEOREM OneScan == Spec => []OneScanAtATime
<1>1. IndInv => OneScanAtATime
  BY DEF IndInv
<1>2. QED
  BY <1>1, Inductive, PTL

(* The queue alone keeps indexing_in_progress free for the next task: no   *)
(* reset races with a running scan, and no scan is queued behind another   *)
(* inside the indexer.                                                     *)
THEOREM ResetNeverRaces == Spec => []GuardIsFree
<1>1. IndInv => GuardIsFree
  BY DEF IndInv, GuardIsFree, GuardInv, OneScanAtATime, Working, Holding
<1>2. QED
  BY <1>1, Inductive, PTL

(* Only the newest request waits.                                          *)
THEOREM NewestWaits == Spec => []PendingIsNewest
<1>1. IndInv => PendingIsNewest
  BY DEF IndInv, PendingIsNewest, PendingInv, TypeOK, ActorType, None
<1>2. QED
  BY <1>1, Inductive, PTL

(* Once the event loop is ready, the newest request is the one served.     *)
THEOREM ReadyIsLatest ==
  ASSUME ~MayPanic
  PROVE  Spec => []ReadyServesLatest
<1>1. IndInv => ReadyServesLatest
  BY DEF IndInv, ReadyServesLatest, ReadyInv, LatestInv, PendingInv,
         OneScanAtATime, PreApply, PreCapture, Working, Holding, None, Requests
<1>2. QED
  BY <1>1, Inductive, PTL

-----------------------------------------------------------------------------
(* Completion.                                                             *)

(* What a step does to the requests applied and completed.                 *)
LEMMA CompletionStep ==
  ASSUME IndInv, ~MayPanic, CompletionMeansApplied, [Next]_vars
  PROVE  CompletionMeansApplied'
<1>1. ASSUME NEW r \in Requests, TaskComplete(r)
      PROVE  CompletionMeansApplied'
  <2>1. NotSuperseded(r) => r \in applied
    BY <1>1 DEF TaskComplete, Step, NotSuperseded, IndInv, TypeOK, ActorType,
                GenerationInv
  <2>2. QED
    BY <1>1, <2>1 DEF TaskComplete, CompletionMeansApplied
<1>2. ASSUME NEW r \in Requests, Task(r), ~TaskComplete(r)
      PROVE  completed' = completed /\ applied \subseteq applied'
  BY <1>2 DEF Task, TaskSuperseded, TaskStart, TaskReset, TaskPrioritize,
     TaskAcquire, TaskParse, TaskParseAborted, TaskCancel, TaskApply, TaskApplyPanics, TaskSave,
     TaskRelease, TaskSourcesRead, TaskSourcesGeneration, TaskSourcesRestore,
     TaskSourcesScan, TaskSignal
<1>3. CASE Event \/ Actor \/ Restart \/ UNCHANGED vars
  <2>1. UNCHANGED <<completed, applied>>
    BY <1>3 DEF Event, Actor, Restart, vars, histVars, HandleInitialize,
       HandleReindex, HandleChangeRoot, SwitchWorkspaceRoot, EnqueueScan,
       OnScanCompleted
  <2>2. QED
    BY <2>1 DEF CompletionMeansApplied
<1>4. QED
  BY <1>1, <1>2, <1>3 DEF Next, CompletionMeansApplied

(* Completion is reported only to a caller whose own scan was installed.   *)
THEOREM CompletionIsHonest ==
  ASSUME ~MayPanic
  PROVE  Spec => []CompletionMeansApplied
<1>1. Init => CompletionMeansApplied
  BY DEF Init, CompletionMeansApplied
<1>2. IndInv /\ CompletionMeansApplied /\ [Next]_vars => CompletionMeansApplied'
  BY CompletionStep
<1>3. QED
  BY Inductive, <1>1, <1>2, PTL DEF Spec

-----------------------------------------------------------------------------
(* Refinement.                                                             *)

(* A scan task serves its own request, which is newer than what was served *)
(* before, or does not touch what is served.                               *)
LEMMA TaskServes ==
  ASSUME IndInv, NEW r \in Requests, Task(r)
  PROVE  /\ UNCHANGED <<issued, announced>>
         /\ served' = served \/ (served' = r /\ served < r /\ r <= issued)
<1>1. UNCHANGED <<issued, announced>>
  BY DEF Task, Step, TaskSuperseded, TaskStart, TaskReset, TaskPrioritize,
     TaskAcquire, TaskParse, TaskParseAborted, TaskCancel, TaskApply, TaskApplyPanics, TaskSave,
     TaskRelease, TaskSourcesRead, TaskSourcesGeneration, TaskSourcesRestore,
     TaskSourcesScan, TaskSignal, TaskComplete
<1>2. CASE TaskApply(r)
  <2>1. served' = r /\ pc[r] = "Apply"
    BY <1>2 DEF TaskApply, Step
  <2>2. served < r
    BY <2>1 DEF IndInv, ServedInv, PreApply
  <2>3. r <= issued
    BY <2>1 DEF IndInv, NumberingInv, TypeOK, ActorType, Requests
  <2>4. QED
    BY <1>1, <2>1, <2>2, <2>3
<1>3. CASE ~TaskApply(r)
  <2>1. served' = served
    BY <1>3 DEF Task, TaskSuperseded, TaskStart, TaskReset, TaskPrioritize,
       TaskAcquire, TaskParse, TaskParseAborted, TaskCancel, TaskApplyPanics, TaskSave,
       TaskRelease, TaskSourcesRead, TaskSourcesGeneration, TaskSourcesRestore,
       TaskSourcesScan, TaskSignal, TaskComplete
  <2>2. QED
    BY <1>1, <2>1
<1>4. QED
  BY <1>2, <1>3

(* Every step of the mechanism is a step of LatestRequestWins or none.     *)
LEMMA RefinedStep ==
  ASSUME IndInv, ~MayPanic, [Next]_vars
  PROVE  [LatestRequest!Next]_(LatestRequest!vars)
<1>1. /\ issued \in Nat /\ served \in Nat /\ announced \in Nat
      /\ served <= issued /\ announced <= issued
  BY DEF IndInv, TypeOK, ActorType, HistoryType, ServedInv
<1>2. CASE Event
  <2>1. issued' = issued + 1 /\ UNCHANGED <<served, announced>>
    BY <1>2 DEF Event, HandleInitialize, HandleReindex, HandleChangeRoot,
       SwitchWorkspaceRoot, BeginRequest, histVars
  <2>2. QED
    BY <2>1 DEF LatestRequest!Next, LatestRequest!Request
<1>3. CASE EnqueueScan
  BY <1>3 DEF EnqueueScan, DetectReady, IsReady, LatestRequest!vars
<1>4. CASE OnScanCompleted
  <2>1. UNCHANGED <<issued, served>> /\ announced' \in {announced, issued}
    BY <1>4 DEF OnScanCompleted, DetectReady
  <2>2. announced' # announced => served = issued
    BY <1>4, CompletedIndInv
  <2>3. QED
    BY <1>1, <2>1, <2>2
    DEF LatestRequest!Next, LatestRequest!Announce, LatestRequest!vars
<1>5. CASE \E r \in Requests : Task(r)
  <2>1. PICK r \in Requests : Task(r)
    BY <1>5
  <2>2. served' # served => served' \in (served + 1)..issued
    BY <1>1, <2>1, TaskServes DEF Requests
  <2>3. QED
    BY <2>1, <2>2, TaskServes
    DEF LatestRequest!Next, LatestRequest!Serve, LatestRequest!vars
<1>6. CASE Restart
  BY <1>6 DEF Restart, LatestRequest!Next, LatestRequest!Restart
<1>7. CASE UNCHANGED vars
  BY <1>7 DEF vars, LatestRequest!vars
<1>8. QED
  BY <1>2, <1>3, <1>4, <1>5, <1>6, <1>7 DEF Next, Actor

(* The scan machinery, restarts included, implements LatestRequestWins: no *)
(* older result replaces a newer one, and readiness is announced only for  *)
(* the newest request.                                                     *)
THEOREM LatestWins ==
  ASSUME ~MayPanic
  PROVE  Spec => ImplementsLatestRequestWins
<1>1. Init => LatestRequest!Init
  BY DEF Init, LatestRequest!Init
<1>2. IndInv /\ [Next]_vars => [LatestRequest!Next]_(LatestRequest!vars)
  BY RefinedStep
<1>3. QED
  BY Inductive, <1>1, <1>2, PTL
  DEF Spec, ImplementsLatestRequestWins, LatestRequest!Spec
-----------------------------------------------------------------------------
(* The index, and the cache of a server that keeps its root.  With a second *)
(* root both properties fail: a scan saves under the root of the moment.    *)

(* A request in hand has a root; nothing that was applied is newer than    *)
(* what is served.                                                         *)
LivesInv ==
  /\ initialised <=> root # NoRoot
  /\ was_ready => initialised
  /\ \A r \in Requests : pc[r] \notin {"Unused"} \cup Settled => initialised
  /\ \A r \in applied : r <= served

(* What a scan found holds the root until it is installed, and then the    *)
(* index does until it is saved.  Of a root whose cache is the manifest    *)
(* nothing is left to parse.                                               *)
FoundInv ==
  \A r \in Requests :
    /\ pc[r] \in {"Parse", "Apply"} =>
         HoldsRoot(scan[r].found, args[r].root, scan[r].complete)
    /\ pc[r] = "Parse" /\ cache[args[r].root].complete =>
         scan[r].found \subseteq cache[args[r].root].files
    /\ pc[r] = "Save" => HoldsRoot(index, root, last_complete)

(* The index as the newest request's results left it.                      *)
NewestInv ==
  initialised /\ issued \in applied => HoldsRoot(index, root, last_complete)

RootInv == LivesInv /\ CompleteCacheHoldsRoot /\ FoundInv /\ NewestInv

LEMMA InitRootInv == Init => RootInv
<1> SUFFICES ASSUME Init PROVE RootInv
  OBVIOUS
<1>1. LivesInv /\ NewestInv
  BY RootsAssumption DEF Init, LivesInv, NewestInv, Settled
<1>2. CompleteCacheHoldsRoot
  BY DEF Init, CompleteCacheHoldsRoot, NoCache
<1>3. FoundInv
  BY DEF Init, FoundInv
<1>4. QED
  BY <1>1, <1>2, <1>3 DEF RootInv

(* Steps that move a task on and leave the index, its completeness and the *)
(* cache as they are.                                                      *)
LEMMA RootQuiet ==
  ASSUME IndInv, RootInv, NEW r \in Requests, NEW from \in Working \cup {"Complete"},
         NEW to, Step(r, from, to),
         to \notin {"Parse", "Apply", "Save"},
         UNCHANGED <<index, last_complete, cache, unread, applied, served>>,
         \A q \in Requests : /\ scan'[q].found = scan[q].found
                             /\ scan'[q].complete = scan[q].complete
  PROVE  RootInv'
<1>1. /\ pc \in [Requests -> Phases] /\ pc[r] = from /\ pc' = [pc EXCEPT ![r] = to]
      /\ UNCHANGED <<root, initialised, was_ready, issued, args>>
  BY DEF Step, IndInv, TypeOK, TaskType
<1>2. LivesInv' /\ CompleteCacheHoldsRoot' /\ NewestInv'
  BY <1>1 DEF RootInv, LivesInv, CompleteCacheHoldsRoot, NewestInv, HoldsRoot,
     Working, Holding, Settled
<1>3. FoundInv'
  BY <1>1 DEF RootInv, FoundInv, HoldsRoot
<1>4. QED
  BY <1>2, <1>3 DEF RootInv

(* A task that may still touch the index is newer than what is served.     *)
LEMMA NewestUntouched ==
  ASSUME IndInv, RootInv, NEW r \in Requests, pc[r] \in PreApply
  PROVE  issued \notin applied /\ \A q \in Requests : q # r => pc[q] \notin Working
<1>1. /\ issued \in Nat /\ served \in Nat /\ r \in Nat
      /\ pc[r] # "Unused" /\ pc[r] \in Working
  BY DEF IndInv, TypeOK, ActorType, HistoryType, Requests, PreApply,
     PreCapture, Working,
         Holding
<1>2. r <= issued /\ r > served
  BY <1>1 DEF IndInv, NumberingInv, ServedInv
<1>3. issued \notin applied
  BY <1>1, <1>2 DEF RootInv, LivesInv
<1>4. QED
  BY <1>1, <1>3 DEF IndInv, OneScanAtATime

LEMMA TaskRoot ==
  ASSUME \A d, e \in Roots : d = e, IndInv, RootInv, NEW r \in Requests, Task(r)
  PROVE  RootInv'
<1> USE RootsAssumption
<1>1. /\ pc \in [Requests -> Phases] /\ r \in Nat
      /\ scan \in [Requests -> [start_gen : Nat, found : SUBSET Files,
                                parsed : BOOLEAN, complete : BOOLEAN,
                                raw : Roots \cup {NoRoot}, gen : Nat]]
      /\ issued \in Nat /\ served \in Nat
  BY DEF IndInv, TypeOK, TaskType, ActorType, HistoryType, Requests
<1>2. CASE TaskSuperseded(r) \/ TaskStart(r) \/ TaskParseAborted(r) \/ TaskCancel(r)
           \/ TaskRelease(r)
  BY <1>2, RootQuiet DEF TaskSuperseded, TaskStart, TaskParseAborted, TaskCancel,
     TaskRelease,
     diskVars, Working, Holding
<1>3. CASE TaskSourcesRead(r) \/ TaskSourcesGeneration(r)
  <2>1. \A q \in Requests : /\ scan'[q].found = scan[q].found
                            /\ scan'[q].complete = scan[q].complete
    BY <1>1, <1>3 DEF TaskSourcesRead, TaskSourcesGeneration
  <2>2. UNCHANGED <<index, last_complete, cache, unread, applied, served>>
    BY <1>3 DEF TaskSourcesRead, TaskSourcesGeneration, diskVars
  <2>3. \/ \E to \in {"Signal", "SourcesGeneration"} : Step(r, "SourcesRead", to)
        \/ Step(r, "SourcesGeneration", "SourcesApply")
    BY <1>3 DEF TaskSourcesRead, TaskSourcesGeneration
  <2>4. QED
    BY <2>1, <2>2, <2>3, RootQuiet DEF Working, Holding
<1>4. CASE TaskSourcesRestore(r) \/ TaskSourcesScan(r) \/ TaskSignal(r) \/ TaskComplete(r)
  BY <1>4, RootQuiet DEF TaskSourcesRestore, TaskSourcesScan, TaskSignal,
     TaskComplete,
     diskVars, Working, Holding
<1>5. ASSUME NEW from \in PreApply, NEW to \in Working, Step(r, from, to)
      PROVE  /\ issued \notin applied
             /\ \A q \in Requests : q # r => pc'[q] \notin Working
             /\ pc'[r] = to
             /\ UNCHANGED <<root, initialised, was_ready, issued, args>>
  <2>1. pc[r] = from /\ pc' = [pc EXCEPT ![r] = to]
        /\ UNCHANGED <<root, initialised, was_ready, issued, args>>
    BY <1>5 DEF Step
  <2>2. QED
    BY <1>1, <1>5, <2>1, NewestUntouched DEF RootInv
<1>6. CASE TaskReset(r) \/ TaskPrioritize(r)
  <2>1. PICK from \in {"Reset", "Prioritize"}, to \in {"Prioritize", "Acquire"} :
          Step(r, from, to)
    BY <1>6 DEF TaskReset, TaskPrioritize
  <2>2. /\ issued \notin applied /\ UNCHANGED <<root, initialised, was_ready,
                                                issued, args>>
        /\ pc[r] = from /\ pc' = [pc EXCEPT ![r] = to]
        /\ \A q \in Requests : q # r => pc'[q] \notin Working
    BY <2>1, <1>5 DEF PreApply, PreCapture, Working, Holding, Step
  <2>3. UNCHANGED <<applied, served, cache, unread>>
    BY <1>6 DEF TaskReset, TaskPrioritize, diskVars
  <2>4. LivesInv' /\ CompleteCacheHoldsRoot' /\ NewestInv'
    BY <1>1, <2>2, <2>3 DEF RootInv, LivesInv, CompleteCacheHoldsRoot,
       NewestInv, HoldsRoot, Settled
  <2>5. FoundInv'
    BY <1>1, <2>2 DEF FoundInv, Working, Holding
  <2>6. QED
    BY <2>4, <2>5 DEF RootInv
<1>7. CASE TaskAcquire(r)
  <2> DEFINE dir == args[r].root
  <2>1. /\ issued \notin applied /\ UNCHANGED <<root, initialised, was_ready,
                                                issued, args>>
        /\ pc[r] = "Acquire" /\ pc' = [pc EXCEPT ![r] = "Parse"]
        /\ \A q \in Requests : q # r => pc'[q] \notin Working
    BY <1>5, <1>7 DEF TaskAcquire, PreApply, PreCapture, Working, Holding,
       Step
  <2>2. UNCHANGED <<applied, served, cache, unread>>
    BY <1>7 DEF TaskAcquire, diskVars
  <2>3. dir \in Roots
    BY <2>1 DEF IndInv, RootsInv
  <2>4. HoldsRoot(Discovered(dir), dir, ~Truncated(dir))
    BY <2>3 DEF HoldsRoot, Discovered, Truncated, RootInv, CompleteCacheHoldsRoot,
       FilesOf
  <2>5. scan'[r].found = Discovered(dir) /\ scan'[r].complete = ~Truncated(dir)
    BY <1>1, <1>7 DEF TaskAcquire
  <2>6. HoldsRoot(scan'[r].found, dir, scan'[r].complete)
    BY <2>4, <2>5
  <2>p. cache[dir].complete => scan'[r].found \subseteq cache[dir].files
    BY <2>5 DEF Discovered
  <2>7. FoundInv'
    BY <1>1, <2>1, <2>2, <2>6, <2>p DEF FoundInv, HoldsRoot, Working, Holding
  <2>8. LivesInv' /\ CompleteCacheHoldsRoot' /\ NewestInv'
    BY <1>1, <2>1, <2>2 DEF RootInv, LivesInv, CompleteCacheHoldsRoot,
       HoldsRoot, NewestInv, Settled
  <2>9. QED
    BY <2>7, <2>8 DEF RootInv
<1>8. CASE TaskApply(r) \/ TaskApplyPanics(r)
  <2>1. PICK to \in {"Save", "Release"} : Step(r, "Apply", to)
    BY <1>8 DEF TaskApply, TaskApplyPanics
  <2>2. /\ issued \notin applied /\ UNCHANGED <<root, initialised, was_ready,
                                                issued, args>>
        /\ pc[r] = "Apply" /\ pc' = [pc EXCEPT ![r] = to]
        /\ \A q \in Requests : q # r => pc'[q] \notin Working
    BY <2>1, <1>5 DEF PreApply, PreCapture, Working, Holding, Step
  <2>3. /\ args[r].root = root /\ initialised
    <3>1. initialised /\ root # NoRoot
      BY <2>2 DEF RootInv, LivesInv, Settled
    <3>2. root \in Roots /\ args[r].root \in Roots
      BY <2>2, <3>1 DEF IndInv, RootsInv, TypeOK, ActorType
    <3>3. QED
      BY <3>1, <3>2
  <2>4. HoldsRoot(scan[r].found, root, scan[r].complete)
    BY <2>2, <2>3 DEF RootInv, FoundInv
  <2>p. unread' = unread
    BY <1>8 DEF TaskApply, TaskApplyPanics, diskVars
  <2>5. CompleteCacheHoldsRoot'
    BY <1>8 DEF TaskApply, TaskApplyPanics, diskVars, RootInv,
       CompleteCacheHoldsRoot, HoldsRoot
  <2>6. CASE TaskApply(r)
    <3>1. /\ pc'[r] = "Save" /\ served' = r /\ applied' = applied \cup {r}
          /\ index' = scan[r].found /\ last_complete' = scan[r].complete
      BY <1>1, <2>6 DEF TaskApply, Step
    <3>2. \A q \in applied : q <= served /\ q \in Nat
      BY DEF RootInv, LivesInv, IndInv, TypeOK, HistoryType, Requests
    <3>3. served < r
      BY <2>2 DEF IndInv, ServedInv, PreApply
    <3>4. LivesInv'
      BY <1>1, <2>2, <2>3, <3>1, <3>2, <3>3 DEF RootInv, LivesInv, Settled
    <3>5. FoundInv'
      BY <1>1, <2>2, <2>4, <2>p, <3>1 DEF FoundInv, HoldsRoot, Working,
         Holding
    <3>6. NewestInv'
      BY <2>2, <2>4, <2>p, <3>1 DEF NewestInv, HoldsRoot
    <3>7. QED
      BY <2>5, <3>4, <3>5, <3>6 DEF RootInv
  <2>7. CASE TaskApplyPanics(r)
    <3>1. pc'[r] = "Release" /\ UNCHANGED <<applied, served>>
      BY <1>1, <2>7 DEF TaskApplyPanics, Step
    <3>2. LivesInv' /\ NewestInv'
      BY <1>1, <2>2, <3>1 DEF RootInv, LivesInv, NewestInv, Settled
    <3>3. FoundInv'
      BY <1>1, <2>2, <3>1 DEF FoundInv, Working, Holding
    <3>4. QED
      BY <2>5, <3>2, <3>3 DEF RootInv
  <2>8. QED
    BY <1>8, <2>6, <2>7
<1>9. CASE TaskSave(r)
  <2>1. /\ pc[r] = "Save" /\ pc' = [pc EXCEPT ![r] = "Release"]
        /\ UNCHANGED <<root, initialised, was_ready, issued, args, scan,
                       index, last_complete, unread, applied, served>>
    BY <1>9 DEF TaskSave, Step
  <2>2. root \in Roots
    BY <2>1 DEF RootInv, LivesInv, Settled, IndInv, TypeOK, ActorType
  <2>3. cache \in [Roots -> [files : SUBSET Files, complete : BOOLEAN]]
    BY DEF IndInv, TypeOK, IndexType
  <2>4. HoldsRoot(index, root, last_complete)
    BY <2>1 DEF RootInv, FoundInv
  <2>5. CompleteCacheHoldsRoot'
    <3> SUFFICES ASSUME NEW d \in Roots, cache'[d].complete
                 PROVE  HoldsRoot(cache'[d].files, d, TRUE)
      BY <2>1 DEF CompleteCacheHoldsRoot, HoldsRoot
    <3>1. \/ cache'[d] = cache[d]
          \/ d = root /\ cache'[d] = [files |-> index, complete |-> last_complete]
      BY <1>9, <2>2, <2>3 DEF TaskSave
    <3>2. CASE cache'[d] = cache[d]
      BY <3>2 DEF RootInv, CompleteCacheHoldsRoot
    <3>3. CASE d = root /\ cache'[d] = [files |-> index, complete |-> last_complete]
      <4>1. last_complete /\ cache'[d].files = index
        BY <3>3
      <4>2. QED
        BY <2>4, <3>3, <4>1 DEF HoldsRoot
    <3>4. QED
      BY <3>1, <3>2, <3>3
  <2>6. LivesInv' /\ FoundInv' /\ NewestInv'
    <3>1. \A q \in Requests : pc'[q] \notin {"Parse", "Apply", "Save"}
      BY <1>1, <2>1 DEF IndInv, OneScanAtATime, Working, Holding
    <3>2. FoundInv'
      BY <3>1 DEF FoundInv
    <3>3. LivesInv' /\ NewestInv'
      BY <1>1, <2>1 DEF RootInv, LivesInv, NewestInv, HoldsRoot, Settled
    <3>4. QED
      BY <3>2, <3>3
  <2>7. QED
    BY <2>5, <2>6 DEF RootInv
<1>p. CASE TaskParse(r)
  <2> DEFINE dir == args[r].root
             todo == scan[r].found \ cache[dir].files
  <2>1. /\ issued \notin applied /\ UNCHANGED <<root, initialised, was_ready,
                                                issued, args>>
        /\ pc[r] = "Parse" /\ pc' = [pc EXCEPT ![r] = "Apply"]
        /\ \A q \in Requests : q # r => pc'[q] \notin Working
    BY <1>5, <1>p DEF TaskParse, PreApply, PreCapture, Working, Holding, Step
  <2>2. UNCHANGED <<applied, served, cache>>
    BY <1>p DEF TaskParse
  <2>3. PICK lost \in MayBeLost(todo), parsed \in BOOLEAN :
          /\ scan' = [scan EXCEPT ![r] =
                        [scan[r] EXCEPT !.found = scan[r].found \ lost,
                                        !.parsed = parsed]]
          /\ unread' = (unread \ todo) \cup lost
    BY <1>p DEF TaskParse
  <2>4. lost \subseteq todo
    BY <2>3 DEF MayBeLost
  <2>5. scan'[r].found = scan[r].found \ lost /\ scan'[r].complete = scan[r].complete
    <3>1. scan[r].found \ lost \in SUBSET Files
      BY <1>1
    <3>2. scan'[r] = [scan[r] EXCEPT !.found = scan[r].found \ lost,
                                     !.parsed = parsed]
      BY <1>1, <2>3
    <3>3. scan[r] \in [start_gen : Nat, found : SUBSET Files, parsed : BOOLEAN,
                       complete : BOOLEAN, raw : Roots \cup {NoRoot}, gen : Nat]
      BY <1>1
    <3>4. QED
      BY ONLY <3>1, <3>2, <3>3, parsed \in BOOLEAN, ParsedRecord
  <2>6. dir \in Roots
    BY <2>1 DEF IndInv, RootsInv
  <2>7. /\ HoldsRoot(scan[r].found, dir, scan[r].complete)
        /\ cache[dir].complete => scan[r].found \subseteq cache[dir].files
    BY <2>1 DEF RootInv, FoundInv
  <2>8. HoldsRoot(scan[r].found \ lost, dir, scan[r].complete)'
    BY <2>1, <2>3, <2>4, <2>5, <2>7 DEF HoldsRoot, FilesOf, Shallow
  <2>9. FoundInv'
    BY <1>1, <2>1, <2>5, <2>8 DEF FoundInv, HoldsRoot, Working, Holding
  <2>10. CompleteCacheHoldsRoot'
    <3> SUFFICES ASSUME NEW d \in Roots, cache[d].complete
                 PROVE  HoldsRoot(cache[d].files, d, TRUE)'
      BY <2>2 DEF CompleteCacheHoldsRoot, HoldsRoot
    <3>1. d = dir
      BY <2>6
    <3>2. todo = {} /\ lost = {}
      BY <2>4, <2>7, <3>1
    <3>3. unread' = unread
      BY <2>3, <3>2
    <3>4. QED
      BY <2>2, <3>3 DEF RootInv, CompleteCacheHoldsRoot, HoldsRoot
  <2>11. LivesInv' /\ NewestInv'
    BY <1>1, <2>1, <2>2 DEF RootInv, LivesInv, NewestInv, Settled
  <2>12. QED
    BY <2>9, <2>10, <2>11 DEF RootInv
<1>10. QED
  BY <1>2, <1>3, <1>4, <1>6, <1>7, <1>8, <1>9, <1>p DEF Task

LEMMA OtherRoot ==
  ASSUME \A d, e \in Roots : d = e, IndInv, RootInv,
         Event \/ Actor \/ Restart \/ UNCHANGED vars
  PROVE  RootInv'
<1> USE RootsAssumption, BoundsAssumption
<1>1. /\ pc \in [Requests -> Phases] /\ issued \in Nat /\ served \in Nat
      /\ args \in [Requests -> [root : Roots \cup {NoRoot}, kind : Kinds,
                                tx : BOOLEAN, gen : Nat]]
      /\ root \in Roots \cup {NoRoot} /\ applied \in SUBSET Nat /\ served <= issued
  BY DEF IndInv, TypeOK, TaskType, ActorType, HistoryType, Requests, ServedInv
<1>2. CASE Event
  <2>1. PICK kind \in Kinds, dir \in Roots, tx \in BOOLEAN : BeginRequest(kind, dir, tx)
    BY <1>1, <1>2 DEF Event, HandleInitialize, HandleReindex,
       HandleChangeRoot,
       SwitchWorkspaceRoot, Kinds
  <2>2. /\ root' \in Roots /\ initialised' = TRUE
        /\ root # NoRoot => root' = root
        /\ UNCHANGED <<was_ready, index, last_complete, cache, unread, applied,
                       served, scan>>
    <3>1. root # NoRoot => initialised = TRUE
      BY DEF RootInv, LivesInv, IndInv, TypeOK, FlagType
    <3>2. QED
      BY <1>1, <1>2, <3>1 DEF Event, HandleInitialize, HandleReindex,
         HandleChangeRoot,
         SwitchWorkspaceRoot, ApplyConfig, histVars, diskVars
  <2>3. /\ issued' = issued + 1 /\ issued' \in Requests
        /\ pc' = [pc EXCEPT ![issued'] = "Handler"] /\ pc[issued'] = "Unused"
        /\ \A q \in Requests : q # issued' => args'[q] = args[q]
    BY <1>1, <2>1 DEF BeginRequest, Requests, IndInv, NumberingInv
  <2>4. issued' \notin applied
    BY <1>1, <2>3 DEF RootInv, LivesInv
  <2>5. \A q \in Requests : pc'[q] = pc[q] \/ pc'[q] = "Handler"
    BY <1>1, <2>3
  <2>6. LivesInv' /\ CompleteCacheHoldsRoot' /\ NewestInv'
    BY <2>2, <2>4 DEF RootInv, LivesInv, CompleteCacheHoldsRoot, HoldsRoot,
       NewestInv
  <2>7. FoundInv'
    <3> SUFFICES ASSUME NEW q \in Requests, pc'[q] \in {"Parse", "Apply", "Save"}
                 PROVE  /\ pc[q] \in {"Parse", "Apply"} =>
                             HoldsRoot(scan[q].found, args[q].root, scan[q].complete)'
                        /\ pc[q] = "Parse" =>
                             (cache[args[q].root].complete =>
                                scan[q].found \subseteq cache[args[q].root].files)'
                        /\ pc[q] = "Save" => HoldsRoot(index, root, last_complete)'
                        /\ pc'[q] = pc[q]
      BY <2>2 DEF FoundInv
    <3>1. pc'[q] = pc[q] /\ q # issued'
      BY <1>1, <2>3
    <3>2. root # NoRoot
      BY <3>1 DEF RootInv, LivesInv, Settled
    <3>3. QED
      BY <2>2, <2>3, <3>1, <3>2 DEF RootInv, FoundInv, HoldsRoot
  <2>8. QED
    BY <2>6, <2>7 DEF RootInv
<1>3. CASE Actor \/ UNCHANGED vars
  <2>1. UNCHANGED <<root, initialised, issued, index, last_complete, cache,
                    unread, applied, served, scan>>
    BY <1>3 DEF Actor, EnqueueScan, OnScanCompleted, vars, diskVars, histVars
  <2>2. was_ready' => initialised
    BY <1>3, <2>1 DEF Actor, EnqueueScan, OnScanCompleted, DetectReady,
       IsReady, vars,
                      RootInv, LivesInv
  <2>3. \A q \in Requests :
          /\ args'[q].root = args[q].root /\ args'[q].kind = args[q].kind
          /\ pc'[q] = pc[q] \/ pc'[q] \in {"Start", "Pending", "Superseded"}
    <3>1. CASE EnqueueScan
      <4>1. /\ actor \in Requests /\ pc' \in {Requeue(actor, started) : started \in {None, actor}}
            /\ args' = [args EXCEPT ![actor].gen = ExpectedGeneration]
        BY <3>1 DEF EnqueueScan, Request, TryStart, IndInv, TypeOK, ActorType
      <4>2. QED
        BY <1>1, <4>1 DEF Requeue
    <3>2. CASE OnScanCompleted
      BY <3>2 DEF OnScanCompleted
    <3>3. CASE UNCHANGED vars
      BY <3>3 DEF vars
    <3>4. QED
      BY <1>3, <3>1, <3>2, <3>3 DEF Actor
  <2>4. \A q \in Requests : pc'[q] \in {"Start", "Pending"} => initialised
    <3>1. CASE EnqueueScan
      <4>1. actor \in Requests /\ pc[actor] = "Handler"
        BY <3>1 DEF EnqueueScan, IndInv, TypeOK, ActorType, NumberingInv
      <4>2. QED
        BY <4>1 DEF RootInv, LivesInv, Settled
    <3>2. CASE OnScanCompleted
      <4>1. \A q \in Requests : pc'[q] = pc[q] \/ (q = pending /\ pc[q] = "Pending")
        BY <3>2 DEF OnScanCompleted, TryStart, IndInv, PendingInv
      <4>2. QED
        BY <4>1 DEF RootInv, LivesInv, Settled
    <3>3. CASE UNCHANGED vars
      BY <3>3 DEF vars, RootInv, LivesInv, Settled
    <3>4. QED
      BY <1>3, <3>1, <3>2, <3>3 DEF Actor
  <2>5. LivesInv'
    BY <2>1, <2>2, <2>3, <2>4 DEF RootInv, LivesInv, Settled
  <2>6. CompleteCacheHoldsRoot' /\ FoundInv'
    BY <2>1, <2>3 DEF RootInv, CompleteCacheHoldsRoot, FoundInv, HoldsRoot
  <2>7. NewestInv'
    BY <2>1 DEF RootInv, NewestInv, HoldsRoot
  <2>8. QED
    BY <2>5, <2>6, <2>7 DEF RootInv
<1>4. CASE Restart
  <2>1. /\ root' = NoRoot /\ initialised' = FALSE /\ was_ready' = FALSE
        /\ served' = issued /\ UNCHANGED <<applied, cache, unread>>
    BY <1>4 DEF Restart, diskVars
  <2>2. \A q \in Requests : pc'[q] \in {"Unused"} \cup Settled
    BY <1>4 DEF Restart, Settled
  <2>3. LivesInv' /\ CompleteCacheHoldsRoot'
    BY <1>1, <2>1, <2>2 DEF RootInv, LivesInv, CompleteCacheHoldsRoot, HoldsRoot
  <2>4. FoundInv' /\ NewestInv'
    BY <2>1, <2>2 DEF FoundInv, NewestInv, Settled
  <2>5. QED
    BY <2>3, <2>4 DEF RootInv
<1>5. QED
  BY <1>2, <1>3, <1>4

LEMMA RootHolds ==
  ASSUME \A d, e \in Roots : d = e
  PROVE  Spec => []RootInv
<1>1. IndInv /\ RootInv /\ [Next]_vars => RootInv'
  BY TaskRoot, OtherRoot DEF Next
<1>2. QED
  BY InitRootInv, Inductive, <1>1, PTL DEF Spec

(* save_cache_to_disk, scans that panic and restarts included: while the   *)
(* server keeps its root, a cache that a warm start trusts as the manifest *)
(* lists every file of the root but those whose last read or parse failed. *)
THEOREM CompleteCacheIsWhole ==
  ASSUME \A d, e \in Roots : d = e
  PROVE  Spec => []CompleteCacheHoldsRoot
<1>1. RootInv => CompleteCacheHoldsRoot
  BY DEF RootInv
<1>2. QED
  BY <1>1, RootHolds, PTL

(* Under the same condition the index that the loop announces as ready is  *)
(* that of the root, up to the cap of a truncated scan and to the files    *)
(* whose last read or parse failed.                                        *)
THEOREM ReadyIndexIsWhole ==
  ASSUME \A d, e \in Roots : d = e
  PROVE  Spec => []ReadyIndexIsRoot
<1>1. RootInv => ReadyIndexIsRoot
  BY DEF RootInv, LivesInv, NewestInv, ReadyIndexIsRoot
<1>2. QED
  BY <1>1, RootHolds, PTL
===============================================================================
