------------------------------ MODULE Enrichment ------------------------------
(* Background enrichment (indexer/enrich.rs): hot paths submit symbols     *)
(* they could not resolve, a worker looks each up with rg and indexes the  *)
(* file that declares it, and asks the editor to refresh its inlay hints.  *)
(* A Reindex or a root switch bumps the generation and later clears the    *)
(* index and the record of what was submitted (Indexer::reset_index_state).*)
EXTENDS Naturals, Sequences, FiniteSets

CONSTANTS
  Symbols,
  Declared,            \* the symbols some file of the workspace declares
  Callers,             \* threads on hot paths
  Nobody,              \* no symbol
  MaxSubmits,          \* bound on the requests that reach submit
  MaxResets            \* bound on reindexes and root switches

ASSUME EnrichmentAssumption ==
  /\ Declared \subseteq Symbols /\ Nobody \notin Symbols
  /\ {MaxSubmits, MaxResets} \subseteq Nat

VARIABLES
  root_generation,
  reset_due,           \* the scan task has not yet cleared the index
  resolvable,          \* symbols whose file is in Indexer.files
  seen,                \* the dedup map: Absent, Pending or Miss
  requests,            \* the channel
  caller,              \* what each caller is submitting, and how far it is
  looking_up,          \* what the worker has taken from the channel
  dirty_hints,         \* the worker's flag: a refresh is due
  unshown,             \* symbols indexed for hints that were not refreshed since
  submits

enrichVars == <<root_generation, reset_due, resolvable, seen, requests, caller,
                looking_up, dirty_hints, unshown, submits>>

EnrichRequest == [symbol : Symbols, generation : 0..MaxResets]
NoRequest == [symbol |-> Nobody, generation |-> 0]
NotSubmitting == [at |-> "No", request |-> NoRequest]

InQueue(s) == \E i \in DOMAIN requests : requests[i].symbol = s

EnrichmentTypeOK ==
  /\ root_generation \in 0..MaxResets /\ reset_due \in BOOLEAN
  /\ resolvable \subseteq Declared
  /\ seen \in [Symbols -> {"Absent", "Pending", "Miss"}]
  /\ requests \in Seq(EnrichRequest)
  /\ caller \in [Callers -> [at : {"No", "Insert", "Send"},
                             request : EnrichRequest \cup {NoRequest}]]
  /\ looking_up \in EnrichRequest \cup {NoRequest}
  /\ dirty_hints \in BOOLEAN
  /\ unshown \subseteq Declared
  /\ submits \in 0..MaxSubmits
  \* nothing is sent twice
  /\ Len(requests) + Cardinality({c \in Callers : caller[c].at # "No"}) <= submits

EnrichmentInit ==
  /\ root_generation = 0 /\ reset_due = FALSE
  /\ resolvable = {}
  /\ seen = [s \in Symbols |-> "Absent"]
  /\ requests = <<>>
  /\ caller = [c \in Callers |-> NotSubmitting]
  /\ looking_up = NoRequest
  /\ dirty_hints = FALSE /\ unshown = {}
  /\ submits = 0

----------------------------------------------------------------------------
(* EnrichmentHandle::submit: the check, the insertion and the send are     *)
(* three steps.  A miss may be retried once its cooldown has passed.       *)

outsideCallers == <<root_generation, reset_due, resolvable, looking_up, dirty_hints, unshown>>

Submit(c, s, cooled) ==
  /\ caller[c].at = "No" /\ submits < MaxSubmits
  /\ s \notin resolvable
  /\ submits' = submits + 1
  /\ seen[s] = "Absent" \/ (seen[s] = "Miss" /\ cooled)
  /\ caller' = [caller EXCEPT ![c] = [at |-> "Insert", request |->
                  [symbol |-> s, generation |-> root_generation]]]
  /\ UNCHANGED <<outsideCallers, seen, requests>>

Insert(c) ==
  /\ caller[c].at = "Insert"
  /\ seen' = [seen EXCEPT ![caller[c].request.symbol] = "Pending"]
  /\ caller' = [caller EXCEPT ![c].at = "Send"]
  /\ UNCHANGED <<outsideCallers, requests, submits>>

Send(c) ==
  /\ caller[c].at = "Send"
  /\ requests' = Append(requests, caller[c].request)
  /\ caller' = [caller EXCEPT ![c] = NotSubmitting]
  /\ UNCHANGED <<outsideCallers, seen, submits>>

----------------------------------------------------------------------------
(* The worker.                                                             *)

outsideWorker == <<root_generation, reset_due, caller, submits>>

(* Mutant: a dropped request stays pending.                                *)
DropStaleSilently ==
  /\ UNCHANGED <<seen, looking_up>>
DropStale ==
  /\ seen' = [seen EXCEPT ![Head(requests).symbol] = "Absent"]
  /\ UNCHANGED looking_up

Receive ==
  /\ looking_up = NoRequest /\ requests # <<>>
  /\ requests' = Tail(requests)
  /\ IF Head(requests).generation # root_generation
     THEN DropStale
     ELSE looking_up' = Head(requests) /\ UNCHANGED seen
  /\ UNCHANGED <<outsideWorker, resolvable, dirty_hints, unshown>>

(* enrich_symbol.  A file that is indexed already counts as nothing found. *)
Found(s) == s \in Declared \ resolvable

Finds ==
  LET s == looking_up.symbol IN
  /\ Found(s)
  /\ resolvable' = resolvable \cup {s}
  /\ dirty_hints' = TRUE /\ unshown' = unshown \cup {s}
  /\ seen' = [seen EXCEPT ![s] = "Absent"]
  /\ looking_up' = NoRequest
  /\ UNCHANGED <<outsideWorker, requests>>

(* Mutant: dirty = found.                                                  *)
DirtyAsFound == FALSE
DirtyAfterMiss == dirty_hints

Misses ==
  LET s == looking_up.symbol IN
  /\ s # Nobody /\ ~Found(s)
  /\ dirty_hints' = DirtyAfterMiss
  /\ seen' = [seen EXCEPT ![s] = "Miss"]
  /\ looking_up' = NoRequest
  /\ UNCHANGED <<outsideWorker, requests, resolvable, unshown>>

(* The debounce of 200 ms runs out.  The select prefers a request that is  *)
(* there.                                                                  *)
Refresh ==
  /\ dirty_hints
  /\ looking_up = NoRequest /\ requests = <<>>
  /\ dirty_hints' = FALSE /\ unshown' = {}
  /\ UNCHANGED <<outsideWorker, seen, requests, looking_up, resolvable>>

----------------------------------------------------------------------------
(* The rest of the server: generations, the scan task, and a scan that     *)
(* indexes what it finds.                                                  *)

outsideScan == <<requests, caller, looking_up, dirty_hints, unshown, submits>>

NewGeneration ==
  /\ root_generation < MaxResets
  /\ root_generation' = root_generation + 1
  /\ reset_due' = TRUE
  /\ UNCHANGED <<outsideScan, resolvable, seen>>

ResetIndex ==
  /\ reset_due
  /\ reset_due' = FALSE
  /\ resolvable' = {}
  /\ seen' = [s \in Symbols |-> "Absent"]
  /\ UNCHANGED <<outsideScan, root_generation>>

ScanIndexes(s) ==
  /\ ~reset_due /\ s \in Declared \ resolvable
  /\ resolvable' = resolvable \cup {s}
  /\ UNCHANGED <<outsideScan, root_generation, reset_due, seen>>

----------------------------------------------------------------------------
Worker == Receive \/ Finds \/ Misses \/ Refresh
Calling == \E c \in Callers : Insert(c) \/ Send(c)

EnrichmentNext ==
  \/ \E c \in Callers, s \in Symbols, cooled \in BOOLEAN : Submit(c, s, cooled)
  \/ Calling
  \/ Worker
  \/ NewGeneration \/ ResetIndex
  \/ \E s \in Declared : ScanIndexes(s)

(* The worker is a task that waits for nothing but rg; submit never waits. *)
EnrichmentFairness == WF_enrichVars(Worker) /\ WF_enrichVars(Calling)

EnrichmentSpec == EnrichmentInit /\ [][EnrichmentNext]_enrichVars /\ EnrichmentFairness

(* enrich.rs:39: a symbol whose entry says pending or in flight is, so     *)
(* that no symbol is refused for ever.  An entry that a reset has cleared  *)
(* and a request of the old generation has outlived is the hard case.      *)
PendingIsUnderway ==
  \A s \in Symbols : seen[s] = "Pending" =>
    \/ InQueue(s)
    \/ looking_up.symbol = s
    \/ \E c \in Callers : caller[c].at = "Send" /\ caller[c].request.symbol = s

(* A symbol that enrichment indexed is shown: the refresh that the debounce*)
(* postpones is sent when requests pause, whatever is dropped meanwhile.   *)
FoundIsShown == \A s \in Declared : s \in unshown ~> s \notin unshown
===============================================================================
