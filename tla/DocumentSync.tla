----------------------------- MODULE DocumentSync -----------------------------
(***************************************************************************)
(* One document of an open workspace: the notifications the editor sends,  *)
(* the actor that handles them one after the other, and the tasks its      *)
(* handlers leave behind, which outlive it: live-tree updates, the 300 ms  *)
(* debounce of an edit, the indexing of an opened document, re-indexing    *)
(* from disk, and the republishing of diagnostics.                         *)
(*                                                                         *)
(* All of this state is keyed by URI, so one document is enough; its text  *)
(* is a member of Texts.  The workspace scan is seen through what it does  *)
(* to this document's entry: it drops it, reads the file, inserts it, and  *)
(* while it runs indexing_in_progress is set.                              *)
(***************************************************************************)
EXTENDS Integers, Sequences

CONSTANTS
  Texts, NoText,
  OnDisk,         \* texts the file may have at first
  Scenarios       \* settings to start in: the operations besides opening,
                  \* editing and handling; the permits of parse_sem; and a
                  \* bound on notifications and other outside events

ASSUME DocumentAssumption ==
  /\ NoText \notin Texts /\ OnDisk \subseteq Texts \cup {NoText}
  /\ Scenarios \subseteq
       [operations : SUBSET {"Save", "Watch", "WatchOpen", "Delete", "Request",
                             "Republish", "Scan"},
        permits : Nat \ {0}, events : Nat]

VARIABLES
  scenario,               \* the setting of this behaviour
  client, disk,           \* text in the editor (NoText: closed), on disk
  inbox,                  \* the actor's event channel
  handling,                \* the actor is between two steps of this handler
  live_lines, live_tree,  \* text of Indexer.live_lines, .live_trees
  files, content_hash,    \* text of Indexer.files, .content_hashes
  arcs, arc,              \* counters of diagnostic_generation; the current one
  pending_reindex,        \* job of the debounce handle, or 0
  jobs, spawned,          \* tasks started so far
  parse_queue, parse_free,\* parse_sem: waiting jobs in order, free permits
  scan, scan_text,        \* step of the workspace scan and what it read
  indexing,               \* indexing_in_progress
  request,                \* text a request is parsing on demand
  published,              \* diagnostics the editor shows
  events

clientVars == <<client, disk, events>>
actorVars  == <<inbox, handling>>
liveVars   == <<live_lines, live_tree>>
indexVars  == <<files, content_hash>>
genVars    == <<arcs, arc, pending_reindex>>
jobVars    == <<jobs, spawned, parse_queue, parse_free>>
scanVars   == <<scan, scan_text, indexing>>
vars == <<scenario, client, disk, inbox, handling, live_lines, live_tree, files, content_hash,
          arcs, arc, pending_reindex, jobs, spawned, parse_queue, parse_free,
          scan, scan_text, indexing, request, published, events>>

Operations == scenario.operations
Permits    == scenario.permits
MaxEvents  == scenario.events

TextOrNone == Texts \cup {NoText}
None == 0
Jobs == 1..(MaxEvents + 1)        \* an event leaves at most one; and the first scan's

JobKinds == {"Edit", "Open", "Disk", "Republish"}
(* Asynchronous steps of a job, and steps of its blocking closures.        *)
Steps == {"None", "Sleep", "Read", "Queued", "Indexing", "Promote",
          "Semantic", "FinalCheck", "Publish", "Published", "Done"}
Works == {"None", "Guard", "Hash", "Store", "File", "Done"}
Trees == {"None", "Check", "Store", "Done"}

NoJob == [kind |-> "Edit", at |-> "None", work |-> "None", tree |-> "None",
          text |-> NoText, arc |-> None, gen |-> 0, parsed |-> FALSE,
          syntax |-> NoText, skip |-> FALSE, semantic |-> NoText]
NoDiagnostics == [syntax |-> NoText, semantic |-> NoText, by |-> None]

TypeOK ==
  /\ {client, disk, live_lines, live_tree, files, content_hash, scan_text,
      request} \subseteq TextOrNone
  /\ \A n \in DOMAIN inbox :
       inbox[n] \in [kind : {"Opened", "Changed", "Saved", "Closed", "Deleted"},
                     text : TextOrNone]
  /\ handling \in {"Idle", "Open", "Close"}
  /\ arcs \in Seq(Nat) /\ arc \in 0..Len(arcs)
  /\ pending_reindex \in 0..spawned /\ spawned \in 0..(MaxEvents + 1)
  /\ jobs \in [Jobs -> [kind : JobKinds, at : Steps, work : Works, tree : Trees,
                        text : TextOrNone, arc : Nat, gen : Nat, parsed : BOOLEAN,
                        syntax : TextOrNone, skip : BOOLEAN, semantic : TextOrNone]]
  /\ \A n \in DOMAIN parse_queue : parse_queue[n] \in 1..spawned
  /\ parse_free \in 0..Permits
  /\ scan \in {"Idle", "Reset", "Acquire", "Read", "Apply", "Insert", "Release", "Ready"}
  /\ indexing \in BOOLEAN
  /\ published \in [syntax : TextOrNone, semantic : TextOrNone, by : 0..spawned]
  /\ events \in 0..MaxEvents

Init ==
  /\ scenario \in Scenarios
  /\ client = NoText
  /\ disk \in OnDisk
  /\ inbox = <<>>
  /\ handling = "Idle"
  /\ live_lines = NoText
  /\ live_tree = NoText
  /\ files = NoText
  /\ content_hash = NoText
  /\ arcs = <<>>
  /\ arc = None
  /\ pending_reindex = None
  /\ jobs = [j \in Jobs |-> NoJob]
  /\ spawned = 0
  /\ parse_queue = <<>>
  /\ parse_free = Permits
  /\ scan = IF "Scan" \in Operations THEN "Acquire" ELSE "Idle"
  /\ scan_text = NoText
  /\ indexing = FALSE
  /\ request = NoText
  /\ published = NoDiagnostics
  /\ events = 0

----------------------------------------------------------------------------
(* The editor and its transport.                                           *)

Outside == events < MaxEvents /\ events' = events + 1
Send(kind, text) == inbox' = Append(inbox, [kind |-> kind, text |-> text])
Spawn(before, job) ==
  /\ spawned' = spawned + 1
  /\ jobs' = [before EXCEPT ![spawned + 1] = job]

(* did_open: the editor shows what is on disk, if anything is; only when   *)
(* it starts may it restore unsaved text.                                  *)
DidOpen(text) ==
  /\ Outside
  /\ client = NoText
  /\ disk \in {text, NoText} \/ events = 0
  /\ client' = text
  /\ Send("Opened", text)
  /\ UNCHANGED <<disk, handling, liveVars, indexVars, genVars, jobVars, scanVars,
                 request, published>>

(* did_change: the live state is updated before the actor hears of it.     *)
DidChange(text) ==
  /\ Outside
  /\ client \notin {NoText, text}
  /\ client' = text
  /\ live_tree' = NoText
  /\ live_lines' = text
  /\ Send("Changed", text)
  /\ UNCHANGED <<disk, handling, indexVars, genVars, jobVars, scanVars, request,
                 published>>

(* did_save: the editor has written the file.                              *)
DidSave ==
  /\ "Save" \in Operations
  /\ Outside
  /\ client # NoText
  /\ disk' = client
  /\ Send("Saved", NoText)
  /\ UNCHANGED <<client, handling, liveVars, indexVars, genVars, jobVars, scanVars,
                 request, published>>

(* did_close *)
DidClose ==
  /\ Outside
  /\ client # NoText
  /\ client' = NoText
  /\ Send("Closed", NoText)
  /\ UNCHANGED <<disk, handling, liveVars, indexVars, genVars, jobVars, scanVars,
                 request, published>>

(* did_change_watched_files: somebody else wrote the file ...              *)
WatchedFileChanged(text) ==
  /\ (IF client = NoText THEN "Watch" ELSE "WatchOpen") \in Operations
  /\ Outside
  /\ disk' = text
  /\ Spawn(jobs, [NoJob EXCEPT !.kind = "Disk", !.at = "Read"])
  /\ UNCHANGED <<client, actorVars, liveVars, indexVars, genVars, parse_queue,
                 parse_free, scanVars, request, published>>

(* ... or deleted it.                                                      *)
WatchedFileDeleted ==
  /\ "Delete" \in Operations
  /\ Outside
  /\ client = NoText /\ disk # NoText
  /\ disk' = NoText
  /\ Send("Deleted", NoText)
  /\ UNCHANGED <<client, handling, liveVars, indexVars, genVars, jobVars, scanVars,
                 request, published>>

(* A request calls live_doc_or_parse and has to parse.                     *)
RequestBegins ==
  /\ "Request" \in Operations
  /\ Outside
  /\ request = NoText
  /\ live_tree = NoText /\ live_lines # NoText
  /\ request' = live_lines
  /\ UNCHANGED <<client, disk, actorVars, liveVars, indexVars, genVars, jobVars,
                 scanVars, published>>
RequestStores ==
  /\ request # NoText
  /\ live_tree' = request
  /\ request' = NoText
  /\ UNCHANGED <<clientVars, actorVars, live_lines, indexVars, genVars, jobVars,
                 scanVars, published>>

(* jar_done, or a Reindex.                                                 *)
RepublishJob == [NoJob EXCEPT !.kind = "Republish",
                              !.at = IF live_tree = NoText THEN "Done" ELSE "Promote"]
JarDone ==
  /\ "Republish" \in Operations
  /\ Outside
  /\ handling = "Idle"
  /\ Spawn(jobs, RepublishJob)
  /\ UNCHANGED <<client, disk, actorVars, liveVars, indexVars, genVars, parse_queue,
                 parse_free, scanVars, request, published>>
Reindex ==
  /\ "Scan" \in Operations
  /\ Outside
  /\ scan = "Idle"
  /\ scan' = "Reset"
  /\ UNCHANGED <<client, disk, actorVars, liveVars, indexVars, genVars, jobVars,
                 scan_text, indexing, request, published>>

----------------------------------------------------------------------------
(* The actor.  Its handlers take the events one after the other.           *)

Takes(kind) == handling = "Idle" /\ inbox # <<>> /\ Head(inbox).kind = kind
Done == inbox' = Tail(inbox) /\ handling' = "Idle"

(* JoinHandle::abort ends a task where it awaits; one that is being polled *)
(* gets to its next await, so a publish that has begun may still go out.   *)
(* A blocking closure that was started runs to its end in any case.        *)
Ended(j)  == [jobs EXCEPT ![j].at = "Done"]
Aborts(j) ==
  IF j = None THEN {jobs}
  ELSE {Ended(j)} \cup (IF jobs[j].at = "Publish" THEN {jobs} ELSE {})
(* A task that no longer waits for a permit leaves the line.               *)
Places(j)   == {k \in DOMAIN parse_queue : parse_queue[k] = j}
Withdraw(j) ==
  \/ Places(j) = {} /\ UNCHANGED parse_queue
  \/ \E k \in Places(j) :
       parse_queue' = [i \in 1..(Len(parse_queue) - 1) |->
                         parse_queue[IF i < k THEN i ELSE i + 1]]

(* handle_file_opened: live lines, then the tree, awaited, then the job,   *)
(* which asks for its permit at once.                                      *)
HandleOpened ==
  /\ Takes("Opened")
  /\ live_lines' = Head(inbox).text
  /\ handling' = "Open"
  /\ UNCHANGED <<clientVars, inbox, live_tree, indexVars, genVars, jobVars, scanVars,
                 request, published>>
OpenStoresTree ==
  /\ handling = "Open"
  /\ live_tree' = Head(inbox).text
  /\ Spawn(jobs, [NoJob EXCEPT !.kind = "Open", !.at = "Queued",
                               !.text = Head(inbox).text])
  /\ parse_queue' = Append(parse_queue, spawned')
  /\ Done
  /\ UNCHANGED <<clientVars, live_lines, indexVars, genVars, parse_free, scanVars,
                 request, published>>

(* The Arc of this opening is made by its first edit.                      *)
CurrentArc == IF arc = None THEN Len(arcs) + 1 ELSE arc
BumpedArcs == IF arc = None THEN Append(arcs, 1)
                            ELSE [arcs EXCEPT ![arc] = @ + 1]
(* Mutant: the generation is captured before the bump.                     *)
CapturedGenerationBeforeBump == BumpedArcs[CurrentArc] - 1
CapturedGeneration == BumpedArcs[CurrentArc]
LinesAfterChange == Head(inbox).text

(* drain_and_apply_file_changes: bump, live lines, tree update, and a new  *)
(* debounce instead of the pending one.                                    *)
HandleChanged ==
  /\ Takes("Changed")
  /\ arcs' = BumpedArcs
  /\ arc' = CurrentArc
  /\ live_lines' = LinesAfterChange
  /\ \E aborted \in Aborts(pending_reindex) :
       Spawn(aborted, [NoJob EXCEPT !.at = "Sleep", !.tree = "Check",
                                    !.text = Head(inbox).text, !.arc = CurrentArc,
                                    !.gen = CapturedGeneration])
  /\ Withdraw(pending_reindex)
  /\ pending_reindex' = spawned'
  /\ Done
  /\ UNCHANGED <<clientVars, live_tree, indexVars, parse_free, scanVars, request,
                 published>>

(* handle_file_saved                                                       *)
HandleSaved ==
  /\ Takes("Saved")
  /\ Spawn(jobs, [NoJob EXCEPT !.kind = "Disk", !.at = "Read"])
  /\ Done
  /\ UNCHANGED <<clientVars, liveVars, indexVars, genVars, parse_queue, parse_free,
                 scanVars, request, published>>

(* handle_file_closed and handle_file_deleted: cancel_pending_reindex and  *)
(* the tree first (a deleted file also leaves the index) ...               *)
HandleGone(kind) ==
  /\ Takes(kind)
  /\ jobs' \in Aborts(pending_reindex)
  /\ Withdraw(pending_reindex)
  /\ pending_reindex' = None
  /\ arc' = None
  /\ files' = IF kind = "Deleted" THEN NoText ELSE files
  /\ live_tree' = NoText
  /\ handling' = "Close"
  /\ UNCHANGED <<clientVars, inbox, live_lines, content_hash, arcs, spawned,
                 parse_free, scanVars, request, published>>

(* ... then the lines; the editor's diagnostics are cleared.               *)
CloseClears ==
  /\ handling = "Close"
  /\ live_lines' = NoText
  /\ published' = NoDiagnostics
  /\ Done
  /\ UNCHANGED <<clientVars, live_tree, indexVars, genVars, jobVars, scanVars, request>>

----------------------------------------------------------------------------
(* Blocking work.                                                          *)

Step(j, from, to) ==
  /\ jobs[j].at = from
  /\ jobs' = [jobs EXCEPT ![j].at = to]
  /\ UNCHANGED spawned
Work(j, from, to) ==
  /\ jobs[j].work = from
  /\ jobs' = [jobs EXCEPT ![j].work = to]
  /\ UNCHANGED spawned
JobUnchanged == UNCHANGED <<clientVars, actorVars, genVars, scanVars, request>>
SemUnchanged == UNCHANGED <<parse_queue, parse_free>>

(* spawn_live_tree_update: "guard: if the file was closed or deleted".     *)
TreeChecks(j) ==
  /\ jobs[j].tree = "Check"
  /\ jobs' = [jobs EXCEPT ![j].tree = IF live_lines = NoText THEN "Done" ELSE "Store"]
  /\ UNCHANGED <<spawned, liveVars, indexVars, published>>
  /\ SemUnchanged /\ JobUnchanged
TreeStores(j) ==
  /\ jobs[j].tree = "Store"
  /\ jobs' = [jobs EXCEPT ![j].tree = "Done"]
  /\ live_tree' = jobs[j].text
  /\ UNCHANGED <<spawned, live_lines, indexVars, published>>
  /\ SemUnchanged /\ JobUnchanged

(* Only a debounce asks whether the file is still open.                    *)
WorkGuard(j) ==
  /\ Work(j, "Guard", IF live_lines = NoText THEN "Done" ELSE "Hash")
  /\ parse_free' = IF live_lines = NoText THEN parse_free + 1 ELSE parse_free
  /\ UNCHANGED <<parse_queue, liveVars, indexVars, published>>
  /\ JobUnchanged

(* index_content: nothing to do if the content hash is the same, else      *)
(* parse, then store the hash, then the file.                              *)
IsIndexed(text) == content_hash = text
WorkHash(j) ==
  /\ Work(j, "Hash", IF IsIndexed(jobs[j].text) THEN "Done" ELSE "Store")
  /\ parse_free' = IF IsIndexed(jobs[j].text) THEN parse_free + 1 ELSE parse_free
  /\ UNCHANGED <<parse_queue, liveVars, indexVars, published>>
  /\ JobUnchanged
WorkStoresHash(j) ==
  /\ Work(j, "Store", "File")
  /\ content_hash' = jobs[j].text
  /\ UNCHANGED <<files, liveVars, published>>
  /\ SemUnchanged /\ JobUnchanged
WorkStoresFile(j) ==
  /\ jobs[j].work = "File"
  /\ jobs' = [jobs EXCEPT ![j].work = "Done", ![j].parsed = TRUE]
  /\ files' = jobs[j].text
  /\ parse_free' = parse_free + 1
  /\ UNCHANGED <<spawned, content_hash, parse_queue, liveVars, published>>
  /\ JobUnchanged

----------------------------------------------------------------------------
(* Asynchronous steps of a job.                                            *)

(* Steps that take far less than the 300 ms of the debounce.               *)
Prompt == {"Read", "Publish"}
(* A debounce fires 300 ms after its edit: what was prompt then is over.   *)
DebounceFires(j) == \A i \in 1..(j - 1) : jobs[i].at \notin Prompt
Wakes(j) ==
  /\ Step(j, "Sleep", "Queued")
  /\ DebounceFires(j)
  /\ parse_queue' = Append(parse_queue, j)
  /\ UNCHANGED <<parse_free, liveVars, indexVars, published>>
  /\ JobUnchanged

DiskReads(j) ==
  /\ jobs[j].at = "Read"
  /\ jobs' = [jobs EXCEPT ![j].text = disk,
                          ![j].at = IF disk = NoText THEN "Done" ELSE "Queued"]
  /\ parse_queue' = IF disk = NoText THEN parse_queue ELSE Append(parse_queue, j)
  /\ UNCHANGED <<spawned, parse_free, liveVars, indexVars, published>>
  /\ JobUnchanged

(* Mutant: the latest one first.                                           *)
LastInLine == parse_queue[Len(parse_queue)]
(* parse_sem is fair: permits go to the jobs in the order they asked.      *)
NextInLine == Head(parse_queue)
Acquires(j) ==
  /\ parse_free > 0 /\ parse_queue # <<>>
  /\ j = NextInLine
  /\ parse_free' = parse_free - 1
  /\ Withdraw(j)
  /\ jobs' = [jobs EXCEPT ![j].at = "Indexing",
                          ![j].work = IF jobs[j].kind = "Edit" THEN "Guard" ELSE "Hash"]
  /\ UNCHANGED <<spawned, liveVars, indexVars, published>>
  /\ JobUnchanged

Superseded(j) == arcs[jobs[j].arc] # jobs[j].gen
(* Syntax errors of the parse just made, or of what the index holds.       *)
SyntaxNow(j) == IF jobs[j].parsed THEN jobs[j].text ELSE files

(* index_content has returned.                                             *)
AfterIndexing(j) ==
  CASE jobs[j].kind = "Disk" -> "Done"
    [] jobs[j].kind = "Open" -> "Promote"
    [] OTHER -> IF Superseded(j) THEN "Done" ELSE "Semantic"
Indexed(j) ==
  /\ jobs[j].work = "Done"
  /\ jobs[j].at = "Indexing"
  /\ jobs' = [jobs EXCEPT ![j].at = AfterIndexing(j), ![j].syntax = SyntaxNow(j)]
  /\ UNCHANGED <<spawned, liveVars, indexVars, published>>
  /\ SemUnchanged /\ JobUnchanged

(* promote_file_imports may wait for the sidecar; an opened document skips *)
(* the semantic part while a scan runs.                                    *)
Promotes(j) ==
  /\ jobs[j].at = "Promote"
  /\ jobs' = [jobs EXCEPT ![j].at = "Semantic", ![j].syntax = SyntaxNow(j),
                          ![j].skip = jobs[j].kind = "Open" /\ indexing]
  /\ UNCHANGED <<spawned, liveVars, indexVars, published>>
  /\ SemUnchanged /\ JobUnchanged

(* The semantic part is about the job's own text; a republish takes the    *)
(* live tree.                                                              *)
Diagnoses(j) ==
  /\ jobs[j].at = "Semantic"
  /\ jobs' = [jobs EXCEPT
       ![j].at = IF jobs[j].kind = "Edit" THEN "FinalCheck" ELSE "Publish",
       ![j].semantic = IF jobs[j].kind = "Republish" THEN live_tree
                       ELSE IF jobs[j].skip THEN NoText ELSE jobs[j].text]
  /\ UNCHANGED <<spawned, liveVars, indexVars, published>>
  /\ SemUnchanged /\ JobUnchanged

FinalCheck(j) ==
  /\ Step(j, "FinalCheck", IF Superseded(j) THEN "Done" ELSE "Publish")
  /\ UNCHANGED <<liveVars, indexVars, published>>
  /\ SemUnchanged /\ JobUnchanged

Publishes(j) ==
  /\ Step(j, "Publish", "Published")
  /\ published' = [syntax |-> jobs[j].syntax, semantic |-> jobs[j].semantic, by |-> j]
  /\ UNCHANGED <<liveVars, indexVars>>
  /\ SemUnchanged /\ JobUnchanged

Job(j) ==
  \/ TreeChecks(j)
  \/ TreeStores(j)
  \/ WorkGuard(j)
  \/ WorkHash(j)
  \/ WorkStoresHash(j)
  \/ WorkStoresFile(j)
  \/ Wakes(j)
  \/ DiskReads(j)
  \/ Acquires(j)
  \/ Indexed(j)
  \/ Promotes(j)
  \/ Diagnoses(j)
  \/ FinalCheck(j)
  \/ Publishes(j)

----------------------------------------------------------------------------
(* The workspace scan.                                                     *)

ScanStep(from, to) ==
  /\ scan = from
  /\ scan' = to
  /\ UNCHANGED <<clientVars, inbox, handling, liveVars, genVars, parse_queue,
                 parse_free, request, published>>

ScanResets ==
  /\ ScanStep("Reset", "Acquire")
  /\ files' = NoText /\ content_hash' = NoText
  /\ UNCHANGED <<scan_text, indexing, jobs, spawned>>
ScanAcquires ==
  /\ ScanStep("Acquire", "Read")
  /\ indexing' = TRUE
  /\ UNCHANGED <<scan_text, indexVars, jobs, spawned>>
ScanReads ==
  /\ ScanStep("Read", "Apply")
  /\ scan_text' = disk
  /\ UNCHANGED <<indexing, indexVars, jobs, spawned>>
(* apply_workspace_result: everything is dropped, then inserted.           *)
ScanApplies ==
  /\ ScanStep("Apply", "Insert")
  /\ files' = NoText /\ content_hash' = NoText
  /\ UNCHANGED <<scan_text, indexing, jobs, spawned>>
ScanInserts ==
  /\ ScanStep("Insert", "Release")
  /\ IF scan_text = NoText THEN UNCHANGED indexVars
     ELSE files' = scan_text /\ content_hash' = scan_text
  /\ UNCHANGED <<scan_text, indexing, jobs, spawned>>
ScanReleases ==
  /\ ScanStep("Release", "Ready")
  /\ indexing' = FALSE
  /\ UNCHANGED <<scan_text, indexVars, jobs, spawned>>
(* Mutant: the diagnostics of open files are not republished.              *)
OnBecameReadyQuietly ==
  /\ handling = "Idle"
  /\ ScanStep("Ready", "Idle")
  /\ UNCHANGED <<scan_text, indexing, indexVars, jobs, spawned>>

(* on_became_ready                                                         *)
OnBecameReady ==
  /\ handling = "Idle"
  /\ ScanStep("Ready", "Idle")
  /\ Spawn(jobs, RepublishJob)
  /\ UNCHANGED <<scan_text, indexing, indexVars>>
----------------------------------------------------------------------------

Editor ==
  \/ \E text \in Texts : DidOpen(text)
  \/ \E text \in Texts : DidChange(text)
  \/ DidSave
  \/ DidClose
  \/ \E text \in Texts : WatchedFileChanged(text)
  \/ WatchedFileDeleted
  \/ RequestBegins
  \/ JarDone
  \/ Reindex

Actor ==
  \/ HandleOpened
  \/ OpenStoresTree
  \/ HandleChanged
  \/ HandleSaved
  \/ HandleGone("Closed")
  \/ HandleGone("Deleted")
  \/ CloseClears
  \/ OnBecameReady

Scan ==
  \/ ScanResets
  \/ ScanAcquires
  \/ ScanReads
  \/ ScanApplies
  \/ ScanInserts
  \/ ScanReleases

(* Nothing is left to do.                                                  *)
Over(j) == /\ jobs[j].at \in {"None", "Done", "Published"}
           /\ jobs[j].work \in {"None", "Done"}
           /\ jobs[j].tree \in {"None", "Done"}
Quiet == /\ inbox = <<>> /\ handling = "Idle"
         /\ scan = "Idle" /\ request = NoText
         /\ \A j \in Jobs : Over(j)
Rest == Quiet /\ UNCHANGED vars

(* Only a quiet state may have no other step: TLC's deadlock check shows   *)
(* that nothing waits for something that will not come.  No behaviour goes *)
(* round in circles, so with a fair executor every one gets quiet.         *)
Next ==
  \/ Editor
  \/ Actor
  \/ Scan
  \/ RequestStores
  \/ \E j \in Jobs : Job(j)
  \/ Rest

Spec == Init /\ [][Next /\ UNCHANGED scenario]_vars

----------------------------------------------------------------------------
(* Properties.                                                             *)

(* Two parses of a file that overlap can leave the hash of one text with   *)
(* the data of the other, and a file that others write while it is open is *)
(* indexed from disk: the text settles where neither happens.              *)
Undisturbed ==
  Operations \cap {"Delete", "Scan", "WatchOpen"} = {} /\ Permits = 1

(* live_lines is written by the transport and by the actor, which lags     *)
(* behind it; the index by opens, saves and aborted debounces whose closure *)
(* still ran.  When all is handled both hold the editor's text, and no live *)
(* line is left of a closed document, whatever overlapped.                 *)
TextSettles ==
  Quiet /\ Undisturbed =>
    live_lines = client /\ (client # NoText => files = client)

(* A debounce that no later edit or close cancels has published, and about *)
(* the text the editor holds: abort, generation checks and the hash fast   *)
(* path never skip the last edit as well, and no debounce of an earlier    *)
(* edit publishes after it.                                                *)
LastEditIsDiagnosed ==
  Quiet /\ Undisturbed /\ pending_reindex # None =>
    LET edit == jobs[pending_reindex]
    IN  /\ edit.at = "Published" /\ edit.syntax = client /\ edit.semantic = client
        /\ jobs[published.by].kind = "Edit" => published.by = pending_reindex

(* The document has had no other text: a tree of one is not stored late.   *)
OneText == \A j \in Jobs : jobs[j].kind \in {"Open", "Edit"} => jobs[j].text \in {client, NoText}

(* on_became_ready "will call republish_open_file_diagnostics once the     *)
(* scan completes to fill in the diagnostics for all open files": semantic *)
(* diagnostics of an open document's text have been published, even if its *)
(* opening skipped them because of a scan.  Left out is a document that was *)
(* reopened and had other text before: what is published when the scan is  *)
(* over is about the live tree, and a closure that passed its guard before *)
(* the close may have put that of the other text back.                     *)
SemanticsFilledIn ==
  Quiet /\ client # NoText /\ (pending_reindex # None \/ OneText) =>
    \E j \in Jobs : jobs[j].at = "Published" /\ jobs[j].semantic = client

=============================================================================
