------------------------- MODULE DocumentSyncProofs -------------------------
(***************************************************************************)
(* What an editor's document settles on, whatever the interleaving of the  *)
(* transport, the actor, the tasks that index and diagnose, the closures   *)
(* that an abort does not stop, and a scan: for every set of texts, every  *)
(* number of events and every scenario.                                    *)
(*                                                                         *)
(* Of the properties none is inductive: each is about quiet states only.   *)
(* DocumentInv says what holds on the way to them.                         *)
(*                                                                         *)
(* - The last word of the channel about the text says what the editor      *)
(*   holds (InboxInv), and an edit is pending only between an opening and  *)
(*   the next close (TurnsInv).                                            *)
(* - Fits(j, ...) lists where a job can be, by kind: its place, the        *)
(*   closure it runs and what it holds (JobsInv).                          *)
(* - The pending edit is of the current generation, so that no check stops *)
(*   it, and no earlier edit publishes after it (PendingInv).              *)
(* - Who waits stands in the line once, and every permit is free or with a *)
(*   closure (LineInv, PermitInv).                                         *)
(* - While nothing disturbs the index, hash and data are of one text but   *)
(*   between their stores (HashInv), what is still to be read from disk is *)
(*   the editor's text or is followed by an edit (DiskInv), and the job of *)
(*   the last word is the anchor: it sleeps, or waits with none but its    *)
(*   own text behind it, or runs, or is done and has left its text in the  *)
(*   index (AnchorInv).                                                    *)
(* - Every tree and line is of a text the document has had (TreeInv), and  *)
(*   an opening that skipped its diagnostics is followed by the republish  *)
(*   of a scan that has not ended, or by one that runs (FillInv).          *)
(***************************************************************************)
EXTENDS DocumentSync, TLAPS, FiniteSetTheorems, SequenceTheorems

JobType == [kind : JobKinds, at : Steps, work : Works, tree : Trees,
            text : TextOrNone, arc : Nat, gen : Nat, parsed : BOOLEAN,
            syntax : TextOrNone, skip : BOOLEAN, semantic : TextOrNone]
EventType == [kind : {"Opened", "Changed", "Saved", "Closed", "Deleted"}, text : TextOrNone]

(* The types, and room for the task of every event still to be handled.    *)
OwedBy(s) == IF s = "Idle" THEN 0 ELSE 1
Typed ==
  /\ scenario \in Scenarios
  /\ client \in TextOrNone /\ disk \in TextOrNone
  /\ live_lines \in TextOrNone /\ live_tree \in TextOrNone
  /\ files \in TextOrNone /\ content_hash \in TextOrNone
  /\ scan_text \in TextOrNone /\ request \in TextOrNone
  /\ inbox \in Seq(EventType)
  /\ handling \in {"Idle", "Open", "Close"}
  /\ arcs \in Seq(Nat) /\ arc \in 0..Len(arcs)
  /\ spawned \in Nat /\ pending_reindex \in 0..spawned
  /\ jobs \in [Jobs -> JobType]
  /\ parse_queue \in Seq(1..spawned)
  /\ parse_free \in Nat
  /\ scan \in {"Idle", "Reset", "Acquire", "Read", "Apply", "Insert", "Release", "Ready"}
  /\ indexing \in BOOLEAN
  /\ published \in [syntax : TextOrNone, semantic : TextOrNone, by : 0..spawned]
  /\ events \in 0..MaxEvents
  /\ spawned + Len(inbox) + OwedBy(scan) <= events + 1

(* The events about the text are all but didSave.                          *)
SavesOnly(q) == \A n \in DOMAIN q : q[n].kind = "Saved"
IsLast(q, n) ==
  n \in DOMAIN q /\ q[n].kind # "Saved" /\ \A m \in DOMAIN q : m > n => q[m].kind = "Saved"
NoWords == SavesOnly(inbox)
Gone(e) == e.kind \in {"Closed", "Deleted"}

(* Once all events are handled the lines are those of the editor.          *)
InboxInv ==
  /\ \A n \in DOMAIN inbox :
       inbox[n].text # NoText <=> inbox[n].kind \in {"Opened", "Changed"}
  /\ \A n \in DOMAIN inbox : IsLast(inbox, n) => inbox[n].text = client
  /\ NoWords => live_lines = client
  /\ handling = "Open" =>
       /\ inbox # <<>> /\ Head(inbox).kind = "Opened"
       /\ IsLast(inbox, 1) => live_lines = client
  /\ handling = "Close" => inbox # <<>> /\ Gone(Head(inbox))

(* An edit is pending only while the document is open.                     *)
TurnsInv ==
  /\ client = NoText =>
       /\ pending_reindex # None => \E m \in DOMAIN inbox : Gone(inbox[m])
       /\ \A k \in DOMAIN inbox :
            inbox[k].kind = "Changed" => \E m \in DOMAIN inbox : k < m /\ Gone(inbox[m])
  /\ \A n \in DOMAIN inbox : inbox[n].kind = "Opened" =>
       /\ pending_reindex # None => \E m \in DOMAIN inbox : m < n /\ Gone(inbox[m])
       /\ \A k \in DOMAIN inbox : k < n /\ inbox[k].kind = "Changed" =>
            \E m \in DOMAIN inbox : k < m /\ m < n /\ Gone(inbox[m])
  /\ handling = "Close" => pending_reindex = None
  /\ pending_reindex # None => live_lines # NoText

(* Where job j, which is r, can be when there are s jobs and the edit p is *)
(* pending.                                                                *)
Fits(j, r, s, p) ==
  /\ j > s => r = NoJob
  /\ j <= s => r.at # "None"
  /\ r.work # "None" =>
       r.at \notin {"None", "Sleep", "Read", "Queued"} /\ r.kind # "Republish"
  /\ r.at = "Indexing" => r.work # "None"
  /\ r.at = "Promote" => r.kind \in {"Open", "Republish"}
  /\ r.kind = "Edit" => ~r.skip
  /\ r.kind = "Edit" /\ j # p => r.at \in {"None", "Done", "Publish", "Published"}
  /\ r.kind \in {"Open", "Edit"} /\ j <= s => r.text # NoText
  /\ r.kind = "Disk" => r.at \in {"Read", "Queued", "Indexing", "Done"}
  /\ r.at = "Read" => r.kind = "Disk"
  /\ r.kind = "Republish" => r.at \in {"Promote", "Semantic", "Publish", "Published", "Done"}
  /\ r.kind = "Open" =>
       r.at \in {"Queued", "Indexing", "Promote", "Semantic", "Publish", "Published"}
  /\ r.tree # "None" => r.kind = "Edit"
JobsInv == \A j \in Jobs : Fits(j, jobs[j], spawned, pending_reindex)

(* The edit that is pending is that of the current generation.             *)
PendingInv ==
  pending_reindex # None =>
    LET edit == jobs[pending_reindex] IN
    /\ edit.kind = "Edit" /\ edit.arc = arc /\ arc # None /\ arcs[arc] = edit.gen
    /\ edit.at \in {"Sleep", "Queued", "Indexing", "Semantic", "FinalCheck", "Publish",
                    "Published"}
    /\ NoWords => edit.text = client
    /\ edit.at \in {"FinalCheck", "Publish", "Published"} => edit.semantic = edit.text
    /\ \A j \in Jobs : j > pending_reindex /\ j <= spawned => jobs[j].kind # "Edit"
    /\ edit.at # "Sleep" =>
         \A j \in Jobs : j < pending_reindex =>
           /\ jobs[j].at # "Read"
           /\ jobs[j].at = "Publish" => jobs[j].kind # "Edit"
    /\ edit.at = "Published" =>
         /\ published.by # None
         /\ jobs[published.by].kind = "Edit" => published.by = pending_reindex

(* The line and the permits.                                               *)
IsActive(j) == jobs[j].work \in {"Guard", "Hash", "Store", "File"}
Active == {j \in Jobs : IsActive(j)}
LineInv ==
  /\ \A k \in DOMAIN parse_queue : jobs[parse_queue[k]].at = "Queued"
  /\ \A k, l \in DOMAIN parse_queue : parse_queue[k] = parse_queue[l] => k = l
PermitInv == parse_free + Cardinality(Active) = Permits
(* Nothing disturbs the index.                                             *)
CalmInv ==
  /\ scan = "Idle"
  /\ \A n \in DOMAIN inbox : inbox[n].kind # "Deleted"
  /\ events = 0 => inbox = <<>> /\ spawned = 0

(* The hash and the data are of one text, but between their two stores.    *)
HashInv ==
  /\ \A j \in Jobs : jobs[j].work = "File" => content_hash = jobs[j].text
  /\ (\A j \in Jobs : jobs[j].work # "File") => content_hash = files

(* What may still read the disk reads the text of the editor, or is        *)
(* followed by an edit.                                                    *)
SavedLast ==
  \A n \in DOMAIN inbox : (\A m \in DOMAIN inbox : m >= n => inbox[m].kind = "Saved") => disk = client
Followed == \E n \in DOMAIN inbox : IsLast(inbox, n) /\ inbox[n].kind = "Changed"
Overtaken ==
  /\ \A n \in DOMAIN inbox : inbox[n].kind # "Saved"
  /\ \A j \in Jobs : jobs[j].at = "Read" =>
       /\ pending_reindex # None /\ jobs[pending_reindex].at = "Sleep"
       /\ j < pending_reindex
       /\ \A n \in DOMAIN inbox : ~Gone(inbox[n])
DiskInv ==
  client # NoText => SavedLast /\ (disk \notin {client, NoText} => Followed \/ Overtaken)

(* Job w is that of the last word handled: its text gets into the index,   *)
(* and what is parsed after it is the text of the editor too.              *)
QueuedText(k) == jobs[parse_queue[k]].text
AllQueued == \A k \in DOMAIN parse_queue : QueuedText(k) = client
Waiting(w) ==
  \E k \in DOMAIN parse_queue :
    parse_queue[k] = w /\ \A l \in DOMAIN parse_queue : l >= k => QueuedText(l) = client
Parsed(w) ==
  /\ jobs[w].work = "Done" /\ AllQueued /\ files = client
  /\ \A j \in Jobs : IsActive(j) => jobs[j].text = client
Anchor(w) ==
  /\ w \in 1..spawned /\ jobs[w].text = client
  /\ IF pending_reindex # None THEN w = pending_reindex ELSE jobs[w].kind = "Open"
  /\ jobs[w].at = "Sleep" \/ Waiting(w) \/ (IsActive(w) /\ AllQueued) \/ Parsed(w)
AnchorInv == client # NoText /\ NoWords => \E w \in Jobs : Anchor(w)

SyntaxInv ==
  /\ client # NoText /\ NoWords /\ pending_reindex # None
  /\ jobs[pending_reindex].at \in {"Semantic", "FinalCheck", "Publish", "Published"}
  => jobs[pending_reindex].syntax = client

SettlingInv ==
  Undisturbed =>
    /\ CalmInv /\ HashInv /\ DiskInv /\ AnchorInv /\ SyntaxInv

(* Diagnostics.                                                            *)
OwnText == {NoText} \cup {jobs[j].text : j \in {i \in Jobs : jobs[i].kind \in {"Open", "Edit"}}}
                    \cup {inbox[n].text : n \in DOMAIN inbox}
TreeInv ==
  /\ live_tree \in OwnText /\ live_lines \in OwnText /\ request \in OwnText
  /\ client # NoText /\ NoWords /\ pending_reindex = None => live_tree # NoText
  /\ indexing <=> scan \in {"Read", "Apply", "Insert", "Release"}

Filling ==
  \E j \in Jobs :
    /\ jobs[j].kind = "Republish"
    /\ \/ jobs[j].at \in {"Promote", "Semantic"}
       \/ jobs[j].at \in {"Publish", "Published"} /\ jobs[j].semantic = client
Opening(w) ==
  /\ w \in 1..spawned /\ jobs[w].kind = "Open" /\ jobs[w].text = client
  /\ \/ jobs[w].at \in {"Queued", "Indexing", "Promote"}
     \/ jobs[w].at = "Semantic" /\ ~jobs[w].skip
     \/ jobs[w].at \in {"Publish", "Published"} /\ jobs[w].semantic = client
     \/ jobs[w].at \in {"Semantic", "Publish", "Published"} /\ (indexing \/ scan = "Ready" \/ Filling)
FillInv ==
  client # NoText /\ NoWords /\ pending_reindex = None /\ OneText =>
    \E w \in Jobs : Opening(w)

DocumentInv ==
  /\ Typed /\ InboxInv /\ TurnsInv /\ JobsInv /\ PendingInv /\ LineInv /\ PermitInv
  /\ SettlingInv /\ TreeInv /\ FillInv

-----------------------------------------------------------------------------
(* Events that arrive and leave, jobs that are started and ended, and the  *)
(* line of those that wait.                                                *)

(* The channel from the transport to the actor is a sequence.              *)
LEMMA Arrives ==
  ASSUME NEW q \in Seq(EventType), NEW e \in EventType, NEW r, r = Append(q, e)
  PROVE  /\ r \in Seq(EventType) /\ Len(r) = Len(q) + 1 /\ r # <<>>
         /\ DOMAIN r = DOMAIN q \cup {Len(q) + 1} /\ r[Len(q) + 1] = e
         /\ \A n \in DOMAIN q : n \in Nat /\ 1 <= n /\ n <= Len(q) /\ r[n] = q[n]
OBVIOUS

LEMMA Leaves ==
  ASSUME NEW q \in Seq(EventType), q # <<>>, NEW r, r = Tail(q)
  PROVE  /\ r \in Seq(EventType) /\ Len(q) = Len(r) + 1 /\ Head(q) = q[1] /\ 1 \in DOMAIN q
         /\ \A n \in DOMAIN r : n \in Nat /\ 1 <= n /\ n + 1 \in DOMAIN q /\ r[n] = q[n + 1]
         /\ \A n \in DOMAIN q : n # 1 => n - 1 \in DOMAIN r /\ 1 < n /\ q[n] = r[n - 1]
         /\ \A n \in DOMAIN q : n \in Nat /\ 1 <= n
OBVIOUS

(* A word that arrives is the last one; a didSave changes nothing.         *)
LEMMA ArrivesLast ==
  ASSUME NEW q \in Seq(EventType), NEW e \in EventType, NEW r, r = Append(q, e)
  PROVE  /\ e.kind # "Saved" => ~SavesOnly(r) /\ \A n : IsLast(r, n) <=> n = Len(q) + 1
         /\ e.kind = "Saved" =>
              (SavesOnly(r) <=> SavesOnly(q)) /\ \A n : IsLast(r, n) <=> IsLast(q, n)
<1>1. /\ r \in Seq(EventType) /\ DOMAIN r = DOMAIN q \cup {Len(q) + 1} /\ r[Len(q) + 1] = e
      /\ \A n \in DOMAIN q : n \in Nat /\ 1 <= n /\ n <= Len(q) /\ r[n] = q[n]
      /\ Len(q) \in Nat
  BY Arrives
<1>2. QED
  BY <1>1 DEF SavesOnly, IsLast

(* A word that leaves was the last one if none is left behind it.          *)
LEMMA LeavesLast ==
  ASSUME NEW q \in Seq(EventType), q # <<>>, NEW r, r = Tail(q)
  PROVE  /\ SavesOnly(r) <=> SavesOnly(q) \/ IsLast(q, 1)
         /\ \A n \in DOMAIN r : IsLast(r, n) <=> IsLast(q, n + 1)
         /\ q[1].kind = "Saved" => (SavesOnly(r) <=> SavesOnly(q))
<1>1. /\ r \in Seq(EventType) /\ 1 \in DOMAIN q
      /\ \A n \in DOMAIN r : n \in Nat /\ 1 <= n /\ n + 1 \in DOMAIN q /\ r[n] = q[n + 1]
      /\ \A n \in DOMAIN q : n # 1 => n - 1 \in DOMAIN r /\ 1 < n /\ q[n] = r[n - 1]
      /\ \A n \in DOMAIN q : n \in Nat /\ 1 <= n
  BY Leaves
<1>2. SavesOnly(r) <=> \A m \in DOMAIN q : m > 1 => q[m].kind = "Saved"
  BY <1>1 DEF SavesOnly
<1>3. SavesOnly(r) <=> SavesOnly(q) \/ IsLast(q, 1)
  BY <1>1, <1>2 DEF SavesOnly, IsLast
<1>4. ASSUME NEW n \in DOMAIN r
      PROVE  IsLast(r, n) <=> IsLast(q, n + 1)
  <2>1. \A m \in DOMAIN r : m > n => m + 1 \in DOMAIN q /\ m + 1 > n + 1 /\ r[m] = q[m + 1]
    BY <1>1, <1>4
  <2>2. \A m \in DOMAIN q : m > n + 1 => m - 1 \in DOMAIN r /\ m - 1 > n /\ q[m] = r[m - 1]
    BY <1>1, <1>4
  <2>3. n + 1 \in DOMAIN q /\ r[n] = q[n + 1]
    BY <1>1, <1>4
  <2>4. QED
    BY <1>4, <2>1, <2>2, <2>3 DEF IsLast
<1>5. QED
  BY <1>3, <1>4 DEF IsLast

(* A scenario bounds the events, and with them the jobs.                   *)
LEMMA Bounds ==
  ASSUME scenario \in Scenarios
  PROVE  MaxEvents \in Nat /\ Permits \in Nat \ {0} /\ Jobs \subseteq Nat \ {0}
BY DocumentAssumption DEF MaxEvents, Permits, Jobs

(* Nothing changes the scenario.                                           *)
LEMMA SettingStands ==
  ASSUME UNCHANGED scenario
  PROVE  /\ Jobs' = Jobs /\ Permits' = Permits /\ MaxEvents' = MaxEvents
         /\ Operations' = Operations /\ Undisturbed' = Undisturbed
BY DEF Jobs, Permits, MaxEvents, Operations, Undisturbed

(* The jobs that are started are jobs.                                     *)
LEMMA NoJobTyped == NoJob \in JobType
BY DEF NoJob, JobType, JobKinds, Steps, Works, Trees, TextOrNone, None

LEMMA NewJobTyped ==
  ASSUME NEW k \in JobKinds, NEW s \in Steps, NEW t \in TextOrNone
  PROVE  /\ [NoJob EXCEPT !.kind = k, !.at = s] \in JobType
         /\ [NoJob EXCEPT !.kind = k, !.at = s, !.text = t] \in JobType
         /\ \A a, g \in Nat :
              [NoJob EXCEPT !.at = "Sleep", !.tree = "Check", !.text = t, !.arc = a, !.gen = g]
                \in JobType
BY DEF NoJob, JobType, JobKinds, Steps, Works, Trees, TextOrNone, None

(* A job that is started gets the next number; the others stay.            *)
LEMMA SpawnDoes ==
  ASSUME Typed, spawned + 1 \in Jobs, NEW b \in [Jobs -> JobType], NEW job \in JobType,
         Spawn(b, job)
  PROVE  /\ jobs' \in [Jobs -> JobType] /\ spawned' = spawned + 1
         /\ jobs'[spawned + 1] = job
         /\ \A i \in Jobs : i # spawned + 1 => jobs'[i] = b[i]
BY DEF Typed, Spawn

(* Aborting the debounce touches no other job and nothing but its place.   *)
LEMMA AbortDoes ==
  ASSUME Typed, NEW x \in Aborts(pending_reindex)
  PROVE  /\ x \in [Jobs -> JobType]
         /\ \A i \in Jobs : i # pending_reindex => x[i] = jobs[i]
         /\ \A i \in Jobs : \/ x[i] = jobs[i]
                            \/ x[i] = [jobs[i] EXCEPT !.at = "Done"]
         /\ pending_reindex # None /\ pending_reindex \in Jobs =>
              x[pending_reindex].at \in {"Done", "Publish"}
<1>1. CASE pending_reindex = None
  BY <1>1 DEF Typed, Aborts
<1>2. CASE pending_reindex # None
  <2>1. x = Ended(pending_reindex) \/ (x = jobs /\ jobs[pending_reindex].at = "Publish")
    BY <1>2 DEF Aborts
  <2>2. ASSUME x = Ended(pending_reindex), NEW i \in Jobs
        PROVE  /\ x[i] = IF i = pending_reindex THEN [jobs[i] EXCEPT !.at = "Done"] ELSE jobs[i]
               /\ x[i] \in JobType
               /\ i = pending_reindex => x[i].at = "Done"
    BY <2>2 DEF Ended, Typed, JobType, Steps
  <2>3. CASE x = Ended(pending_reindex)
    <3>1. x = [i \in Jobs |-> x[i]]
      BY <2>3 DEF Ended, Typed
    <3>2. QED
      BY <2>2, <2>3, <3>1
  <2>4. QED
    BY <2>1, <2>3 DEF Typed
<1>3. QED
  BY <1>1, <1>2

(* Whoever leaves the line, the others keep their order.                   *)
Taken(k) == [i \in 1..(Len(parse_queue) - 1) |-> parse_queue[IF i < k THEN i ELSE i + 1]]

LEMMA WithdrawDoes ==
  ASSUME Typed, NEW j, Withdraw(j)
  PROVE  /\ parse_queue' \in Seq(1..spawned)
         /\ \/ parse_queue' = parse_queue /\ \A k \in DOMAIN parse_queue : parse_queue[k] # j
            \/ \E k \in DOMAIN parse_queue : parse_queue[k] = j /\ parse_queue' = Taken(k)
<1>1. CASE Places(j) = {} /\ parse_queue' = parse_queue
  BY <1>1 DEF Places, Typed
<1>2. ASSUME NEW k \in Places(j), parse_queue' = Taken(k)
      PROVE  parse_queue' \in Seq(1..spawned)
  <2>1. k \in 1..Len(parse_queue) /\ Len(parse_queue) \in Nat /\ Len(parse_queue) - 1 \in Nat
    BY <1>2 DEF Places, Typed
  <2>2. \A i \in 1..(Len(parse_queue) - 1) :
          (IF i < k THEN i ELSE i + 1) \in 1..Len(parse_queue)
    BY <2>1
  <2>3. \A i \in 1..Len(parse_queue) : parse_queue[i] \in 1..spawned
    BY DEF Typed
  <2>4. Taken(k) \in [1..(Len(parse_queue) - 1) -> 1..spawned]
    BY <2>2, <2>3 DEF Taken
  <2>5. \A S : \A n \in Nat : [1..n -> S] \subseteq Seq(S)
    BY SeqDef
  <2>6. QED
    BY <1>2, <2>1, <2>4, <2>5
<1>3. QED
  BY <1>1, <1>2 DEF Withdraw, Places, Taken

(* Who stood where before.                                                 *)
LEMMA TakenFrom ==
  ASSUME Typed, NEW k \in DOMAIN parse_queue, NEW r, r = Taken(k)
  PROVE  /\ DOMAIN r = 1..(Len(parse_queue) - 1)
         /\ \A i \in DOMAIN r : \/ i < k /\ i \in DOMAIN parse_queue /\ r[i] = parse_queue[i]
                                \/ i >= k /\ i + 1 \in DOMAIN parse_queue /\ r[i] = parse_queue[i + 1]
         /\ \A i \in DOMAIN parse_queue : /\ i < k => i \in DOMAIN r
                                          /\ i > k => i - 1 \in DOMAIN r
<1>1. parse_queue \in Seq(1..spawned) /\ k \in 1..Len(parse_queue) /\ Len(parse_queue) \in Nat
  BY DEF Typed
<1>2. r = [i \in 1..(Len(parse_queue) - 1) |-> parse_queue[IF i < k THEN i ELSE i + 1]]
  BY DEF Taken
<1>3. DOMAIN r = 1..(Len(parse_queue) - 1) /\ DOMAIN parse_queue = 1..Len(parse_queue)
  BY <1>1, <1>2
<1>4. \A i \in DOMAIN r : r[i] = parse_queue[IF i < k THEN i ELSE i + 1]
  BY <1>2, <1>3
<1>5. \A i \in DOMAIN r : IF i < k THEN r[i] = parse_queue[i] ELSE r[i] = parse_queue[i + 1]
  BY <1>4
<1>6. QED
  BY <1>1, <1>3, <1>5

(* What a step of a job leaves alone.                                      *)
JobFrame(j) ==
  /\ UNCHANGED <<scenario, client, disk, events, inbox, handling, arcs, arc, pending_reindex, scan,
                 scan_text, indexing, request, spawned, live_lines>>
  /\ jobs' \in [Jobs -> JobType]
  /\ \A i \in Jobs : i # j => jobs'[i] = jobs[i]
  /\ jobs'[j].kind = jobs[j].kind /\ jobs'[j].arc = jobs[j].arc /\ jobs'[j].gen = jobs[j].gen
  /\ jobs[j].at # "Read" => jobs'[j].text = jobs[j].text
  /\ jobs'[j].tree # jobs[j].tree => jobs[j].tree # "None"
  /\ \/ live_tree' = live_tree
     \/ live_tree' = jobs[j].text /\ jobs[j].tree = "Store"

(* Every step of a job is within its frame.                                *)
LEMMA JobDoes ==
  ASSUME Typed, NEW j \in Jobs, Job(j), UNCHANGED scenario
  PROVE  JobFrame(j)
<1>1. /\ jobs \in [Jobs -> JobType] /\ jobs[j] \in JobType
      /\ disk \in TextOrNone /\ files \in TextOrNone /\ live_tree \in TextOrNone
      /\ indexing \in BOOLEAN
  BY DEF Typed
<1> USE DEF JobUnchanged, SemUnchanged, clientVars, actorVars, genVars, scanVars, liveVars,
            indexVars, JobFrame
<1>2. CASE TreeChecks(j)
  BY <1>1, <1>2 DEF TreeChecks, JobType, Steps, Works, Trees
<1>3. CASE TreeStores(j)
  BY <1>1, <1>3 DEF TreeStores, JobType, Steps, Works, Trees
<1>4. CASE WorkGuard(j)
  BY <1>1, <1>4 DEF WorkGuard, Work, JobType, Steps, Works, Trees
<1>5. CASE WorkHash(j)
  BY <1>1, <1>5 DEF WorkHash, Work, JobType, Steps, Works, Trees
<1>6. CASE WorkStoresHash(j)
  BY <1>1, <1>6 DEF WorkStoresHash, Work, JobType, Steps, Works, Trees
<1>7. CASE WorkStoresFile(j)
  BY <1>1, <1>7 DEF WorkStoresFile, JobType, Steps, Works, Trees
<1>8. CASE Wakes(j)
  BY <1>1, <1>8 DEF Wakes, Step, JobType, Steps, Works, Trees
<1>9. CASE DiskReads(j)
  BY <1>1, <1>9 DEF DiskReads, JobType, Steps, Works, Trees
<1>10. CASE Acquires(j)
  BY <1>1, <1>10 DEF Acquires, JobType, Steps, Works, Trees
<1>11. CASE Indexed(j)
  BY <1>1, <1>11 DEF Indexed, AfterIndexing, SyntaxNow, JobType, Steps, Works, Trees
<1>12. CASE Promotes(j)
  <2>1. (jobs[j].kind = "Open" /\ indexing) \in BOOLEAN
    OBVIOUS
  <2>2. QED
    BY <1>1, <1>12, <2>1 DEF Promotes, SyntaxNow, JobType, Steps, Works, Trees
<1>13. CASE Diagnoses(j)
  <2>1. PICK s \in Steps, v \in TextOrNone :
          jobs' = [jobs EXCEPT ![j].at = s, ![j].semantic = v]
    BY <1>1, <1>13 DEF Diagnoses, JobType, Steps, TextOrNone
  <2>2. /\ jobs' \in [Jobs -> JobType]
        /\ \A i \in Jobs : i # j => jobs'[i] = jobs[i]
        /\ jobs'[j] = [jobs[j] EXCEPT !.at = s, !.semantic = v]
    BY <1>1, <2>1 DEF JobType
  <2>3. /\ UNCHANGED <<spawned, liveVars, indexVars, published>>
        /\ SemUnchanged /\ JobUnchanged
    BY <1>13 DEF Diagnoses
  <2>4. QED
    BY <1>1, <2>2, <2>3 DEF JobType
<1>14. CASE FinalCheck(j)
  BY <1>1, <1>14 DEF FinalCheck, Step, JobType, Steps, Works, Trees
<1>15. CASE Publishes(j)
  BY <1>1, <1>15 DEF Publishes, Step, JobType, Steps, Works, Trees
<1>16. QED
  BY <1>2, <1>3, <1>4, <1>5, <1>6, <1>7, <1>8, <1>9, <1>10, <1>11, <1>12, <1>13, <1>14, <1>15 DEF Job

-----------------------------------------------------------------------------
(* The types are kept.                                                     *)

(* The line of those started so far is one of those started later.         *)
LEMMA LineGrows ==
  ASSUME Typed, NEW n \in Nat, n >= spawned, NEW j \in 1..n
  PROVE  parse_queue \in Seq(1..n) /\ Append(parse_queue, j) \in Seq(1..n)
<1>1. 1..spawned \subseteq 1..n
  BY DEF Typed
<1>2. parse_queue \in Seq(1..spawned)
  BY DEF Typed
<1>3. parse_queue \in Seq(1..n)
  BY <1>1, <1>2, SeqMonotonic
<1>4. QED
  BY <1>3

(* What the types are about besides the jobs, the line and the counts.     *)
WorldTyped ==
  /\ scenario \in Scenarios
  /\ client \in TextOrNone /\ disk \in TextOrNone
  /\ live_lines \in TextOrNone /\ live_tree \in TextOrNone
  /\ files \in TextOrNone /\ content_hash \in TextOrNone
  /\ scan_text \in TextOrNone /\ request \in TextOrNone
  /\ handling \in {"Idle", "Open", "Close"}
  /\ scan \in {"Idle", "Reset", "Acquire", "Read", "Apply", "Insert", "Release", "Ready"}
  /\ indexing \in BOOLEAN
  /\ parse_free \in Nat
TasksTyped ==
  /\ arcs \in Seq(Nat) /\ arc \in 0..Len(arcs)
  /\ spawned \in Nat /\ pending_reindex \in 0..spawned
  /\ jobs \in [Jobs -> JobType]
  /\ parse_queue \in Seq(1..spawned)
  /\ published \in [syntax : TextOrNone, semantic : TextOrNone, by : 0..spawned]
EventsTyped ==
  /\ inbox \in Seq(EventType)
  /\ events \in 0..MaxEvents
  /\ spawned + Len(inbox) + OwedBy(scan) <= events + 1

(* Each part is kept on its own.                                           *)
LEMMA TypedIs == Typed <=> WorldTyped /\ TasksTyped /\ EventsTyped
BY DEF Typed, WorldTyped, TasksTyped, EventsTyped

(* A task that is started while room is owed for it.                       *)
LEMMA SpawnTyped ==
  ASSUME Typed, UNCHANGED <<scenario, arcs, arc>>, spawned <= MaxEvents,
         NEW b \in [Jobs -> JobType], NEW job \in JobType, Spawn(b, job),
         pending_reindex' \in {pending_reindex, spawned'},
         parse_queue' = parse_queue \/ parse_queue' = Append(parse_queue, spawned'),
         published' = published
  PROVE  TasksTyped'
<1>1. Jobs' = Jobs /\ MaxEvents \in Nat
  BY SettingStands, Bounds DEF Typed
<1>2. spawned + 1 \in Jobs
  BY <1>1 DEF Typed, Jobs
<1>3. jobs' \in [Jobs -> JobType] /\ spawned' = spawned + 1
  BY <1>2, SpawnDoes
<1>4. spawned \in Nat /\ spawned' \in Nat /\ spawned' >= spawned /\ spawned' \in 1..spawned'
  BY <1>3 DEF Typed
<1>5. parse_queue' \in Seq(1..spawned')
  BY <1>4, LineGrows
<1>6. published' \in [syntax : TextOrNone, semantic : TextOrNone, by : 0..spawned']
  <2>1. 0..spawned \subseteq 0..spawned'
    BY <1>4
  <2>2. QED
    BY <2>1 DEF Typed
<1>7. QED
  BY <1>1, <1>3, <1>4, <1>5, <1>6 DEF TasksTyped, Typed

(* A step of a job keeps the types.                                        *)
LEMMA JobTypedKept ==
  ASSUME Typed, JobsInv, NEW j \in Jobs, Job(j), UNCHANGED scenario
  PROVE  Typed'
<1>1. JobFrame(j) /\ Jobs' = Jobs /\ MaxEvents' = MaxEvents
  BY JobDoes, SettingStands
<1>2. WorldTyped /\ TasksTyped /\ EventsTyped /\ jobs[j] \in JobType
  BY TypedIs DEF Typed
<1>3. j \in Nat /\ (jobs[j].at # "None" => j \in 1..spawned)
  BY <1>2, Bounds DEF JobsInv, Fits, NoJob, TasksTyped, WorldTyped
<1>4. WorldTyped' /\ published' \in [syntax : TextOrNone, semantic : TextOrNone, by : 0..spawned]
                  /\ parse_queue' \in Seq(1..spawned)
  <2> USE DEF JobUnchanged, SemUnchanged, liveVars, indexVars, WorldTyped, TasksTyped, JobFrame
  <2>1. CASE TreeChecks(j) \/ TreeStores(j) \/ Indexed(j) \/ Promotes(j) \/ Diagnoses(j)
             \/ FinalCheck(j)
    BY <1>1, <1>2, <2>1 DEF TreeChecks, TreeStores, Indexed, Promotes, Diagnoses, FinalCheck,
                            JobType
  <2>2. CASE WorkGuard(j) \/ WorkHash(j) \/ WorkStoresHash(j) \/ WorkStoresFile(j)
    BY <1>1, <1>2, <2>2 DEF WorkGuard, WorkHash, WorkStoresHash, WorkStoresFile, JobType
  <2>3. CASE Wakes(j) \/ DiskReads(j)
    <3>1. jobs[j].at # "None" /\ j \in 1..spawned
      BY <1>3, <2>3 DEF Wakes, DiskReads, Step
    <3>2. parse_queue' = parse_queue \/ parse_queue' = Append(parse_queue, j)
      BY <2>3 DEF Wakes, DiskReads
    <3>3. parse_queue' \in Seq(1..spawned)
      <4>1. spawned \in Nat /\ spawned >= spawned
        BY <1>2
      <4>2. Append(parse_queue, j) \in Seq(1..spawned) /\ parse_queue \in Seq(1..spawned)
        BY <3>1, <4>1, LineGrows
      <4>3. QED
        BY <3>2, <4>2
    <3>4. QED
      BY <1>1, <1>2, <2>3, <3>3 DEF Wakes, DiskReads
  <2>4. CASE Acquires(j)
    <3>1. parse_queue' \in Seq(1..spawned) /\ parse_free' \in Nat
      BY <1>2, <2>4, WithdrawDoes DEF Acquires
    <3>2. QED
      BY <1>1, <1>2, <2>4, <3>1 DEF Acquires
  <2>5. CASE Publishes(j)
    <3>1. j \in 0..spawned
      BY <1>3, <2>5 DEF Publishes, Step
    <3>2. QED
      BY <1>1, <1>2, <2>5, <3>1 DEF Publishes, JobType
  <2>6. QED
    BY <2>1, <2>2, <2>3, <2>4, <2>5 DEF Job
<1>5. TasksTyped' /\ EventsTyped'
  BY <1>1, <1>2, <1>4 DEF TasksTyped, EventsTyped, JobFrame
<1>6. QED
  BY <1>4, <1>5, TypedIs DEF Typed, WorldTyped, TasksTyped, EventsTyped

(* An event needs room for its task: MaxEvents counts it.                  *)
LEMMA EditorTypedKept ==
  ASSUME Typed, Editor, UNCHANGED scenario
  PROVE  Typed'
<1>1. Jobs' = Jobs /\ MaxEvents' = MaxEvents /\ MaxEvents \in Nat
  BY SettingStands, Bounds DEF Typed
<1>2. WorldTyped /\ TasksTyped /\ EventsTyped
  BY TypedIs
<1>3. Len(inbox) \in Nat /\ OwedBy(scan) \in {0, 1} /\ jobs \in [Jobs -> JobType]
      /\ spawned \in Nat /\ events \in Nat
  BY <1>2 DEF EventsTyped, TasksTyped, OwedBy
<1>4. ASSUME NEW k \in {"Opened", "Changed", "Saved", "Closed", "Deleted"}, NEW t \in TextOrNone,
             Outside, Send(k, t), UNCHANGED <<spawned, scan>>
      PROVE  EventsTyped'
  <2>1. [kind |-> k, text |-> t] \in EventType
    BY DEF EventType
  <2>2. inbox' \in Seq(EventType) /\ Len(inbox') = Len(inbox) + 1
    BY <1>2, <1>4, <2>1, Arrives DEF EventsTyped, Send
  <2>3. events' = events + 1 /\ events' \in 0..MaxEvents
    BY <1>1, <1>3, <1>4 DEF Outside
  <2>4. QED
    BY <1>1, <1>2, <1>3, <1>4, <2>2, <2>3 DEF EventsTyped, OwedBy
<1>5. NoText \in TextOrNone /\ Texts \subseteq TextOrNone
  BY DEF TextOrNone
<1>6. SUFFICES EventsTyped' /\ TasksTyped' /\ WorldTyped'
  BY DEF Typed, WorldTyped, TasksTyped, EventsTyped
<1>7. CASE \E text \in Texts : DidOpen(text) \/ DidChange(text)
  <2>1. PICK text \in Texts : DidOpen(text) \/ DidChange(text)
    BY <1>7
  <2>2. EventsTyped'
    BY <1>4, <1>5, <2>1 DEF DidOpen, DidChange, jobVars, scanVars
  <2>3. WorldTyped'
    BY <1>2, <1>5, <2>1 DEF DidOpen, DidChange, jobVars, scanVars, liveVars, indexVars, WorldTyped
  <2>4. TasksTyped'
    BY <1>1, <1>2, <2>1 DEF DidOpen, DidChange, jobVars, genVars, TasksTyped
  <2>5. QED
    BY <2>2, <2>3, <2>4
<1>8. CASE DidSave \/ DidClose \/ WatchedFileDeleted
  <2>2. EventsTyped'
    BY <1>4, <1>5, <1>8 DEF DidSave, DidClose, WatchedFileDeleted, jobVars, scanVars
  <2>3. WorldTyped'
    BY <1>2, <1>5, <1>8 DEF DidSave, DidClose, WatchedFileDeleted, jobVars, scanVars, liveVars,
                            indexVars, WorldTyped
  <2>4. TasksTyped'
    BY <1>1, <1>2, <1>8 DEF DidSave, DidClose, WatchedFileDeleted, jobVars, genVars, TasksTyped
  <2>5. QED
    BY <2>2, <2>3, <2>4
<1>9. CASE (\E text \in Texts : WatchedFileChanged(text)) \/ JarDone
  <2>1. PICK job \in JobType : Spawn(jobs, job)
    <3>1. RepublishJob \in JobType
      BY <1>5, NewJobTyped DEF RepublishJob, JobKinds, Steps
    <3>2. [NoJob EXCEPT !.kind = "Disk", !.at = "Read"] \in JobType
      BY <1>5, NewJobTyped DEF JobKinds, Steps
    <3>3. QED
      BY <1>9, <3>1, <3>2 DEF WatchedFileChanged, JarDone
  <2>2. /\ UNCHANGED <<inbox, handling, arcs, arc, pending_reindex, parse_queue, parse_free, published,
                       scan, scan_text, indexing, request, live_lines, live_tree, files,
                       content_hash, client>>
        /\ disk' \in TextOrNone /\ events < MaxEvents /\ events' = events + 1
    BY <1>2, <1>5, <1>9 DEF WatchedFileChanged, JarDone, Outside, actorVars, liveVars, indexVars,
                            genVars, scanVars, WorldTyped
  <2>3. spawned <= MaxEvents
    BY <1>1, <1>2, <1>3, <2>2 DEF EventsTyped
  <2>4. TasksTyped'
    BY <1>2, <2>1, <2>2, <2>3, SpawnTyped DEF TasksTyped
  <2>5. EventsTyped'
    BY <1>1, <1>2, <1>3, <2>1, <2>2 DEF EventsTyped, OwedBy, Spawn
  <2>6. WorldTyped'
    BY <1>2, <2>2 DEF WorldTyped
  <2>7. QED
    BY <2>4, <2>5, <2>6
<1>10. CASE RequestBegins \/ Reindex
  <2>1. TasksTyped'
    BY <1>1, <1>2, <1>10 DEF RequestBegins, Reindex, TasksTyped, jobVars, genVars
  <2>2. WorldTyped'
    BY <1>2, <1>10 DEF RequestBegins, Reindex, WorldTyped, scanVars, liveVars, indexVars,
                      actorVars, jobVars
  <2>3. EventsTyped'
    BY <1>1, <1>2, <1>3, <1>10 DEF RequestBegins, Reindex, EventsTyped, Outside, scanVars, actorVars,
                                  OwedBy, jobVars
  <2>4. QED
    BY <2>1, <2>2, <2>3
<1>11. QED
  BY <1>7, <1>8, <1>9, <1>10 DEF Editor

(* An event that the actor is done with.                                   *)
LEMMA DoneTyped ==
  ASSUME Typed, inbox # <<>>, Done, UNCHANGED <<scenario, scan, events>>,
         spawned' \in {spawned, spawned + 1}
  PROVE  EventsTyped' /\ spawned <= MaxEvents
<1>1. MaxEvents' = MaxEvents /\ MaxEvents \in Nat
  BY SettingStands, Bounds DEF Typed
<1>2. inbox' \in Seq(EventType) /\ Len(inbox) = Len(inbox') + 1 /\ Len(inbox') \in Nat
  BY Leaves DEF Done, Typed
<1>3. OwedBy(scan) \in Nat
  BY DEF OwedBy
<1>4. QED
  BY <1>1, <1>2, <1>3 DEF EventsTyped, Typed, OwedBy

LEMMA HeadTyped ==
  ASSUME Typed, inbox # <<>>
  PROVE  Head(inbox) \in EventType /\ Head(inbox).text \in TextOrNone
<1>1. inbox \in Seq(EventType)
  BY DEF Typed
<1>2. Head(inbox) \in EventType
  BY <1>1
<1>3. QED
  BY <1>2 DEF EventType

(* The generation counters are never taken away, and arc is one of them.   *)
LEMMA BumpTyped ==
  ASSUME Typed
  PROVE  /\ BumpedArcs \in Seq(Nat) /\ CurrentArc \in 1..Len(BumpedArcs)
         /\ BumpedArcs[CurrentArc] \in Nat /\ CurrentArc \in Nat
<1>1. arcs \in Seq(Nat) /\ arc \in 0..Len(arcs) /\ Len(arcs) \in Nat
  BY DEF Typed
<1>2. CASE arc = None
  BY <1>1, <1>2 DEF BumpedArcs, CurrentArc
<1>3. CASE arc # None
  <2>1. arc \in 1..Len(arcs) /\ arcs[arc] + 1 \in Nat
    BY <1>1, <1>3 DEF None
  <2>2. BumpedArcs \in Seq(Nat) /\ Len(BumpedArcs) = Len(arcs)
    BY <1>1, <1>3, <2>1, ExceptSeq DEF BumpedArcs
  <2>3. BumpedArcs[arc] = arcs[arc] + 1
    BY <1>1, <1>3, <2>1 DEF BumpedArcs
  <2>4. QED
    BY <1>3, <2>1, <2>2, <2>3 DEF CurrentArc
<1>4. QED
  BY <1>2, <1>3

(* A handler gives the room of its event to the task it starts.            *)
LEMMA ActorTypedKept ==
  ASSUME Typed, Actor, UNCHANGED scenario, handling # "Idle" => inbox # <<>>
  PROVE  Typed'
<1>1. SUFFICES EventsTyped' /\ TasksTyped' /\ WorldTyped'
  BY DEF Typed, WorldTyped, TasksTyped, EventsTyped
<1>2. Jobs' = Jobs /\ MaxEvents' = MaxEvents /\ MaxEvents \in Nat /\ Permits' = Permits
  BY SettingStands, Bounds DEF Typed
<1>3. WorldTyped /\ TasksTyped /\ EventsTyped
  BY TypedIs
<1>4. spawned \in Nat /\ jobs \in [Jobs -> JobType]
  BY <1>3 DEF TasksTyped
<1>5. NoText \in TextOrNone /\ Texts \subseteq TextOrNone
  BY DEF TextOrNone
<1>6. CASE HandleOpened
  <2>1. live_lines' \in TextOrNone
    BY <1>6, HeadTyped DEF HandleOpened, Takes
  <2>2. WorldTyped'
    BY <1>3, <1>6, <2>1 DEF HandleOpened, WorldTyped, clientVars, scanVars, indexVars, jobVars
  <2>3. TasksTyped' /\ EventsTyped'
    BY <1>2, <1>3, <1>6 DEF HandleOpened, TasksTyped, EventsTyped, jobVars, genVars, scanVars,
                            clientVars, OwedBy
  <2>4. QED
    BY <2>2, <2>3
<1>7. CASE OpenStoresTree \/ HandleSaved
  <2>1. inbox # <<>> /\ Head(inbox).text \in TextOrNone
    BY <1>7, HeadTyped DEF OpenStoresTree, HandleSaved, Takes
  <2>2. PICK job \in JobType : Spawn(jobs, job)
    <3>1. /\ [NoJob EXCEPT !.kind = "Open", !.at = "Queued", !.text = Head(inbox).text] \in JobType
          /\ [NoJob EXCEPT !.kind = "Disk", !.at = "Read"] \in JobType
      BY <1>5, <2>1, NewJobTyped DEF JobKinds, Steps
    <3>2. QED
      BY <1>7, <3>1 DEF OpenStoresTree, HandleSaved
  <2>3. /\ Done /\ UNCHANGED <<client, disk, events, live_lines, files, content_hash, arcs, arc,
                               pending_reindex, parse_free, scan, scan_text, indexing, request,
                               published>>
        /\ parse_queue' = parse_queue \/ parse_queue' = Append(parse_queue, spawned')
        /\ live_tree' \in TextOrNone
    BY <1>3, <1>7, <2>1 DEF OpenStoresTree, HandleSaved, clientVars, liveVars, indexVars, genVars,
                            scanVars, WorldTyped
  <2>4. spawned' = spawned + 1
    BY <2>2 DEF Spawn
  <2>5. EventsTyped' /\ spawned <= MaxEvents
    BY <2>1, <2>3, <2>4, DoneTyped
  <2>6. TasksTyped'
    BY <2>2, <2>3, <2>5, <1>4, SpawnTyped
  <2>7. WorldTyped'
    BY <1>3, <2>3 DEF WorldTyped, Done
  <2>8. QED
    BY <2>5, <2>6, <2>7
<1>8. CASE HandleChanged
  <2>1. inbox # <<>> /\ Head(inbox).text \in TextOrNone
    BY <1>8, HeadTyped DEF HandleChanged, Takes
  <2>2. PICK x \in Aborts(pending_reindex), job \in JobType : Spawn(x, job)
    <3>1. CurrentArc \in Nat /\ CapturedGeneration \in Nat
      BY BumpTyped DEF CapturedGeneration
    <3>2. [NoJob EXCEPT !.at = "Sleep", !.tree = "Check", !.text = Head(inbox).text,
                        !.arc = CurrentArc, !.gen = CapturedGeneration] \in JobType
      BY <2>1, <3>1, NewJobTyped DEF JobKinds, Steps
    <3>3. QED
      BY <1>8, <3>2 DEF HandleChanged
  <2>3. spawned' = spawned + 1
    BY <2>2 DEF Spawn
  <2>4. EventsTyped' /\ spawned <= MaxEvents
    BY <1>8, <2>1, <2>3, DoneTyped DEF HandleChanged, scanVars, clientVars
  <2>5. spawned + 1 \in Jobs
    BY <1>2, <1>4, <2>4 DEF Jobs
  <2>6. jobs' \in [Jobs -> JobType]
    BY <2>2, <2>5, AbortDoes, SpawnDoes
  <2>7. parse_queue' \in Seq(1..spawned)
    BY <1>8, WithdrawDoes DEF HandleChanged
  <2>8. parse_queue' \in Seq(1..spawned')
    <3>1. 1..spawned \subseteq 1..spawned'
      BY <1>4, <2>3
    <3>2. QED
      BY <2>7, <3>1, SeqMonotonic
  <2>9. /\ arcs' \in Seq(Nat) /\ arc' \in 0..Len(arcs')
    <3>1. arcs' = BumpedArcs /\ arc' = CurrentArc
      BY <1>8 DEF HandleChanged
    <3>2. QED
      BY <3>1, BumpTyped
  <2>10. /\ pending_reindex' \in 0..spawned' /\ spawned' \in Nat
         /\ published' \in [syntax : TextOrNone, semantic : TextOrNone, by : 0..spawned']
    <3>1. 0..spawned \subseteq 0..spawned'
      BY <1>4, <2>3
    <3>2. published' = published /\ pending_reindex' = spawned'
      BY <1>8 DEF HandleChanged
    <3>3. QED
      BY <1>3, <1>4, <2>3, <3>1, <3>2 DEF TasksTyped
  <2>11. TasksTyped'
    BY <1>2, <2>6, <2>8, <2>9, <2>10 DEF TasksTyped
  <2>12. WorldTyped'
    BY <1>3, <1>8, <2>1 DEF HandleChanged, WorldTyped, clientVars, indexVars, scanVars, Done,
                            LinesAfterChange
  <2>13. QED
    BY <2>4, <2>11, <2>12
<1>9. CASE HandleGone("Closed") \/ HandleGone("Deleted")
  <2>1. /\ jobs' \in Aborts(pending_reindex) /\ Withdraw(pending_reindex)
        /\ pending_reindex' = None /\ arc' = None /\ live_tree' = NoText /\ handling' = "Close"
        /\ files' \in {NoText, files}
        /\ UNCHANGED <<client, disk, events, inbox, live_lines, content_hash, arcs, spawned,
                       parse_free, scan, scan_text, indexing, request, published>>
    BY <1>9 DEF HandleGone, clientVars, scanVars
  <2>2. jobs' \in [Jobs -> JobType] /\ parse_queue' \in Seq(1..spawned)
    BY <2>1, AbortDoes, WithdrawDoes
  <2>3. TasksTyped'
    BY <1>2, <1>3, <2>1, <2>2 DEF TasksTyped, None
  <2>4. WorldTyped' /\ EventsTyped'
    BY <1>2, <1>3, <1>5, <2>1 DEF WorldTyped, EventsTyped, OwedBy
  <2>5. QED
    BY <2>3, <2>4
<1>10. CASE CloseClears
  <2>1. inbox # <<>>
    BY <1>10 DEF CloseClears
  <2>2. EventsTyped'
    BY <1>10, <2>1, DoneTyped DEF CloseClears, clientVars, scanVars, jobVars
  <2>3. TasksTyped'
    BY <1>2, <1>3, <1>5, <1>10 DEF CloseClears, TasksTyped, jobVars, genVars, NoDiagnostics, None
  <2>4. WorldTyped'
    BY <1>3, <1>5, <1>10 DEF CloseClears, WorldTyped, clientVars, indexVars, scanVars, Done, jobVars
  <2>5. QED
    BY <2>2, <2>3, <2>4
<1>11. CASE OnBecameReady
  <2>1. RepublishJob \in JobType
    BY <1>5, NewJobTyped DEF RepublishJob, JobKinds, Steps
  <2>2. /\ scan = "Ready" /\ scan' = "Idle" /\ Spawn(jobs, RepublishJob)
        /\ UNCHANGED <<client, disk, events, inbox, handling, live_lines, live_tree, arcs, arc,
                       pending_reindex, parse_queue, parse_free, request, published, scan_text,
                       indexing, files, content_hash>>
    BY <1>11 DEF OnBecameReady, ScanStep, clientVars, liveVars, genVars, indexVars
  <2>3. spawned' = spawned + 1 /\ OwedBy(scan) = 1 /\ OwedBy(scan') = 0
    BY <2>2 DEF Spawn, OwedBy
  <2>4. Len(inbox) \in Nat /\ events \in 0..MaxEvents /\ events \in Nat
    BY <1>2, <1>3 DEF EventsTyped
  <2>5. EventsTyped'
    BY <1>2, <1>3, <1>4, <2>2, <2>3, <2>4 DEF EventsTyped, OwedBy
  <2>6. spawned <= MaxEvents
    BY <1>2, <1>3, <1>4, <2>2, <2>3, <2>4 DEF EventsTyped
  <2>7. TasksTyped'
    BY <1>4, <2>1, <2>2, <2>6, SpawnTyped
  <2>8. WorldTyped'
    BY <1>3, <2>2 DEF WorldTyped
  <2>9. QED
    BY <2>5, <2>7, <2>8
<1>12. QED
  BY <1>6, <1>7, <1>8, <1>9, <1>10, <1>11 DEF Actor

(* A scan owes one republish from its start to on_became_ready.            *)
LEMMA OtherTypedKept ==
  ASSUME Typed, Scan \/ RequestStores \/ UNCHANGED vars, UNCHANGED scenario
  PROVE  Typed'
<1>1. Jobs' = Jobs /\ MaxEvents' = MaxEvents
  BY SettingStands
<1>2. WorldTyped /\ TasksTyped /\ EventsTyped
  BY TypedIs
<1>3. /\ UNCHANGED <<inbox, events, arcs, arc, spawned, pending_reindex, jobs, parse_queue, published>>
      /\ WorldTyped' /\ OwedBy(scan') = OwedBy(scan)
  <2> USE <1>2 DEF WorldTyped, clientVars, liveVars, genVars, indexVars, scanVars, jobVars, actorVars
  <2>1. NoText \in TextOrNone
    BY DEF TextOrNone
  <2>2. CASE Scan
    BY <2>1, <2>2 DEF Scan, ScanStep, ScanResets, ScanAcquires, ScanReads, ScanApplies, ScanInserts,
                      ScanReleases, OwedBy
  <2>3. CASE RequestStores
    BY <2>1, <2>3 DEF RequestStores
  <2>4. CASE UNCHANGED vars
    BY <2>4 DEF vars
  <2>5. QED
    BY <2>2, <2>3, <2>4
<1>4. TasksTyped' /\ EventsTyped'
  BY <1>1, <1>2, <1>3 DEF TasksTyped, EventsTyped, OwedBy
<1>5. QED
  BY <1>3, <1>4 DEF Typed, WorldTyped, TasksTyped, EventsTyped

-----------------------------------------------------------------------------
(* What the editor and the actor know of each other.                       *)

OffInbox == UNCHANGED <<client, inbox, handling, live_lines, pending_reindex>>

(* What neither sends nor handles an event.                                *)
LEMMA OffInboxKeeps ==
  ASSUME InboxInv, TurnsInv, OffInbox
  PROVE  InboxInv' /\ TurnsInv'
BY DEF InboxInv, TurnsInv, OffInbox, NoWords, SavesOnly, IsLast, Gone

(* The editor sends a word: client is then what it says.                   *)
Says(k, t) ==
  /\ Send(k, t) /\ client' = t /\ k # "Saved" /\ (t # NoText <=> k \in {"Opened", "Changed"})
  /\ [kind |-> k, text |-> t] \in EventType
  /\ UNCHANGED <<handling, pending_reindex>>
  /\ live_lines' = live_lines \/ (live_lines' = t /\ t # NoText)
  /\ k = "Opened" => client = NoText
  /\ k = "Changed" => client # NoText

(* What the editor sends last is its text.                                 *)
LEMMA SaysKeepsInbox ==
  ASSUME Typed, InboxInv, NEW k, NEW t, Says(k, t)
  PROVE  InboxInv'
<1> DEFINE e == [kind |-> k, text |-> t]
<1>1. /\ inbox \in Seq(EventType) /\ e \in EventType /\ inbox' = Append(inbox, e)
      /\ e.kind = k /\ e.text = t
  BY DEF Typed, Says, Send
<1> HIDE DEF e
<1>2. /\ inbox' # <<>> /\ DOMAIN inbox' = DOMAIN inbox \cup {Len(inbox) + 1}
      /\ inbox'[Len(inbox) + 1] = e /\ Len(inbox) \in Nat
      /\ \A n \in DOMAIN inbox : n \in Nat /\ 1 <= n /\ n <= Len(inbox) /\ inbox'[n] = inbox[n]
  BY <1>1, Arrives
<1>3. ~SavesOnly(inbox') /\ \A n : IsLast(inbox', n) <=> n = Len(inbox) + 1
  BY <1>1, ArrivesLast DEF Says
<1>4. inbox # <<>> => Head(inbox') = Head(inbox) /\ ~IsLast(inbox', 1)
  BY <1>1, <1>3
<1>5. \A n \in DOMAIN inbox' :
        inbox'[n].text # NoText <=> inbox'[n].kind \in {"Opened", "Changed"}
  BY <1>1, <1>2 DEF InboxInv, Says
<1>6. /\ \A n \in DOMAIN inbox' : IsLast(inbox', n) => inbox'[n].text = client'
      /\ ~NoWords'
  BY <1>1, <1>2, <1>3 DEF Says, NoWords, SavesOnly
<1>7. /\ handling' = "Open" =>
         inbox' # <<>> /\ Head(inbox').kind = "Opened" /\ (IsLast(inbox', 1) => live_lines' = client')
      /\ handling' = "Close" => inbox' # <<>> /\ Gone(Head(inbox'))
  BY <1>2, <1>4 DEF InboxInv, Says
<1>8. QED
  BY <1>5, <1>6, <1>7 DEF InboxInv, IsLast, Gone

(* It edits only what is open, and opens only what is closed.              *)
LEMMA SaysKeepsTurns ==
  ASSUME Typed, InboxInv, TurnsInv, NEW k, NEW t, Says(k, t)
  PROVE  TurnsInv'
<1> DEFINE e == [kind |-> k, text |-> t]
<1>1. /\ inbox \in Seq(EventType) /\ e \in EventType /\ inbox' = Append(inbox, e)
      /\ e.kind = k /\ e.text = t
  BY DEF Typed, Says, Send
<1> HIDE DEF e
<1>2. /\ DOMAIN inbox' = DOMAIN inbox \cup {Len(inbox) + 1}
      /\ inbox'[Len(inbox) + 1] = e /\ Len(inbox) \in Nat
      /\ \A n \in DOMAIN inbox : n \in Nat /\ 1 <= n /\ n <= Len(inbox) /\ inbox'[n] = inbox[n]
  BY <1>1, Arrives
<1>3. k \in {"Closed", "Deleted"} <=> client' = NoText
  BY <1>1 DEF Says, EventType
<1>4. CASE k \in {"Closed", "Deleted"}
  <2>1. Gone(inbox'[Len(inbox) + 1])
    BY <1>1, <1>2, <1>4 DEF Gone
  <2>2. \A m \in DOMAIN inbox : Gone(inbox[m]) => Gone(inbox'[m])
    BY <1>2
  <2>3. client' = NoText =>
          /\ pending_reindex' # None => \E m \in DOMAIN inbox' : Gone(inbox'[m])
          /\ \A i \in DOMAIN inbox' :
               inbox'[i].kind = "Changed" => \E m \in DOMAIN inbox' : i < m /\ Gone(inbox'[m])
    BY <1>1, <1>2, <1>4, <2>1
  <2>4. \A n \in DOMAIN inbox' : inbox'[n].kind = "Opened" =>
          /\ n \in DOMAIN inbox
          /\ pending_reindex # None => \E m \in DOMAIN inbox : m < n /\ Gone(inbox[m])
          /\ \A i \in DOMAIN inbox : i < n /\ inbox[i].kind = "Changed" =>
               \E m \in DOMAIN inbox : i < m /\ m < n /\ Gone(inbox[m])
    BY <1>1, <1>2, <1>4 DEF TurnsInv
  <2>5. \A n \in DOMAIN inbox' : inbox'[n].kind = "Opened" =>
          /\ pending_reindex' # None => \E m \in DOMAIN inbox' : m < n /\ Gone(inbox'[m])
          /\ \A i \in DOMAIN inbox' : i < n /\ inbox'[i].kind = "Changed" =>
               \E m \in DOMAIN inbox' : i < m /\ m < n /\ Gone(inbox'[m])
    <3> SUFFICES ASSUME NEW n \in DOMAIN inbox', inbox'[n].kind = "Opened"
                 PROVE  /\ pending_reindex' # None =>
                             \E m \in DOMAIN inbox' : m < n /\ Gone(inbox'[m])
                        /\ \A i \in DOMAIN inbox' : i < n /\ inbox'[i].kind = "Changed" =>
                             \E m \in DOMAIN inbox' : i < m /\ m < n /\ Gone(inbox'[m])
      OBVIOUS
    <3>1. \A i \in DOMAIN inbox' : inbox'[i].kind = "Changed" =>
            i \in DOMAIN inbox /\ inbox[i].kind = "Changed"
      BY <1>1, <1>2, <1>4
    <3>2. QED
      BY <1>2, <2>2, <2>4, <3>1 DEF Says
  <2>6. QED
    BY <2>3, <2>5 DEF TurnsInv, Says, Gone
<1>5. CASE k = "Opened"
  <2>1. client = NoText /\ client' # NoText
    BY <1>3, <1>5 DEF Says
  <2>2. \A n \in DOMAIN inbox' : inbox'[n].kind = "Opened" =>
          /\ pending_reindex # None => \E m \in DOMAIN inbox : m < n /\ Gone(inbox[m])
          /\ \A i \in DOMAIN inbox : i < n /\ inbox[i].kind = "Changed" =>
               \E m \in DOMAIN inbox : i < m /\ m < n /\ Gone(inbox[m])
    <3>1. ASSUME NEW n \in DOMAIN inbox
          PROVE  inbox'[n].kind = "Opened" =>
                   /\ pending_reindex # None => \E m \in DOMAIN inbox : m < n /\ Gone(inbox[m])
                   /\ \A i \in DOMAIN inbox : i < n /\ inbox[i].kind = "Changed" =>
                        \E m \in DOMAIN inbox : i < m /\ m < n /\ Gone(inbox[m])
      BY <1>2 DEF TurnsInv
    <3>2. /\ pending_reindex # None =>
               \E m \in DOMAIN inbox : m < Len(inbox) + 1 /\ Gone(inbox[m])
          /\ \A i \in DOMAIN inbox : inbox[i].kind = "Changed" =>
               \E m \in DOMAIN inbox : i < m /\ m < Len(inbox) + 1 /\ Gone(inbox[m])
      BY <1>2, <2>1 DEF TurnsInv
    <3>3. QED
      BY <1>2, <3>1, <3>2
  <2>3. ASSUME NEW n \in DOMAIN inbox', inbox'[n].kind = "Opened"
        PROVE  /\ pending_reindex' # None =>
                    \E m \in DOMAIN inbox' : m < n /\ Gone(inbox'[m])
               /\ \A i \in DOMAIN inbox' : i < n /\ inbox'[i].kind = "Changed" =>
                    \E m \in DOMAIN inbox' : i < m /\ m < n /\ Gone(inbox'[m])
    <3>1. \A i \in DOMAIN inbox' : inbox'[i].kind = "Changed" =>
            i \in DOMAIN inbox /\ inbox[i].kind = "Changed"
      BY <1>1, <1>2, <1>5
    <3>2. \A m \in DOMAIN inbox : m \in DOMAIN inbox' /\ (Gone(inbox[m]) => Gone(inbox'[m]))
      BY <1>2
    <3>3. QED
      BY <2>2, <2>3, <3>1, <3>2 DEF Says
  <2>4. QED
    BY <2>1, <2>3 DEF TurnsInv, Says, Gone
<1>6. CASE k = "Changed"
  <2>1. client # NoText /\ client' # NoText
    BY <1>3, <1>6 DEF Says
  <2>2. ASSUME NEW n \in DOMAIN inbox', inbox'[n].kind = "Opened"
        PROVE  /\ pending_reindex' # None =>
                    \E m \in DOMAIN inbox' : m < n /\ Gone(inbox'[m])
               /\ \A i \in DOMAIN inbox' : i < n /\ inbox'[i].kind = "Changed" =>
                    \E m \in DOMAIN inbox' : i < m /\ m < n /\ Gone(inbox'[m])
    <3>1. n \in DOMAIN inbox /\ inbox[n].kind = "Opened" /\ n <= Len(inbox)
      BY <1>1, <1>2, <1>6, <2>2
    <3>2. /\ pending_reindex # None => \E m \in DOMAIN inbox : m < n /\ Gone(inbox[m])
          /\ \A i \in DOMAIN inbox : i < n /\ inbox[i].kind = "Changed" =>
               \E m \in DOMAIN inbox : i < m /\ m < n /\ Gone(inbox[m])
      BY <3>1 DEF TurnsInv
    <3>3. \A i \in DOMAIN inbox' : i < n => i \in DOMAIN inbox /\ inbox'[i] = inbox[i]
      BY <1>2, <3>1
    <3>4. \A m \in DOMAIN inbox : m \in DOMAIN inbox' /\ (Gone(inbox[m]) => Gone(inbox'[m]))
      BY <1>2
    <3>5. QED
      BY <3>2, <3>3, <3>4 DEF Says
  <2>3. QED
    BY <2>1, <2>2 DEF TurnsInv, Says, Gone
<1>7. QED
  BY <1>4, <1>5, <1>6 DEF Says, EventType

(* A didSave says nothing about the text.                                  *)
LEMMA SavedKeeps ==
  ASSUME Typed, InboxInv, TurnsInv, Send("Saved", NoText),
         UNCHANGED <<client, handling, live_lines, pending_reindex>>
  PROVE  InboxInv' /\ TurnsInv'
<1> DEFINE e == [kind |-> "Saved", text |-> NoText]
<1>1. /\ inbox \in Seq(EventType) /\ e \in EventType /\ inbox' = Append(inbox, e)
      /\ e.kind = "Saved" /\ e.text = NoText
  BY DEF Typed, Send, EventType, TextOrNone
<1> HIDE DEF e
<1>2. /\ inbox' # <<>> /\ DOMAIN inbox' = DOMAIN inbox \cup {Len(inbox) + 1}
      /\ inbox'[Len(inbox) + 1] = e /\ Len(inbox) \in Nat
      /\ \A n \in DOMAIN inbox : n \in Nat /\ 1 <= n /\ n <= Len(inbox) /\ inbox'[n] = inbox[n]
  BY <1>1, Arrives
<1>3. (SavesOnly(inbox') <=> SavesOnly(inbox)) /\ \A n : IsLast(inbox', n) <=> IsLast(inbox, n)
  BY <1>1, ArrivesLast
<1>4. inbox # <<>> => Head(inbox') = Head(inbox)
  BY <1>1
<1>5. \A n \in DOMAIN inbox' : IsLast(inbox', n) => n \in DOMAIN inbox
  BY <1>3 DEF IsLast
<1>6. InboxInv'
  <2>1. /\ \A n \in DOMAIN inbox' :
             inbox'[n].text # NoText <=> inbox'[n].kind \in {"Opened", "Changed"}
        /\ \A n \in DOMAIN inbox' : IsLast(inbox', n) => inbox'[n].text = client
    BY <1>1, <1>2, <1>3, <1>5 DEF InboxInv
  <2>2. /\ SavesOnly(inbox') => live_lines = client
        /\ handling = "Open" =>
             inbox' # <<>> /\ Head(inbox').kind = "Opened" /\ (IsLast(inbox', 1) => live_lines = client)
        /\ handling = "Close" => inbox' # <<>> /\ Gone(Head(inbox'))
    BY <1>2, <1>3, <1>4 DEF InboxInv, NoWords
  <2>3. QED
    BY <2>1, <2>2 DEF InboxInv, NoWords, Gone
<1>7. \A n \in DOMAIN inbox' : inbox'[n].kind # "Saved" => n \in DOMAIN inbox
  BY <1>1, <1>2
<1>8. \A m \in DOMAIN inbox : m \in DOMAIN inbox' /\ (Gone(inbox[m]) => Gone(inbox'[m]))
  BY <1>2
<1>9. TurnsInv'
  <2>1. client' = NoText =>
          /\ pending_reindex' # None => \E m \in DOMAIN inbox' : Gone(inbox'[m])
          /\ \A k \in DOMAIN inbox' :
               inbox'[k].kind = "Changed" => \E m \in DOMAIN inbox' : k < m /\ Gone(inbox'[m])
    <3>1. ASSUME client = NoText, NEW k \in DOMAIN inbox', inbox'[k].kind = "Changed"
          PROVE  \E m \in DOMAIN inbox' : k < m /\ Gone(inbox'[m])
      <4>1. k \in DOMAIN inbox /\ inbox[k].kind = "Changed"
        BY <1>2, <1>7, <3>1
      <4>2. QED
        BY <1>8, <3>1, <4>1 DEF TurnsInv
    <3>2. QED
      BY <1>8, <3>1 DEF TurnsInv
  <2>2. ASSUME NEW n \in DOMAIN inbox', inbox'[n].kind = "Opened"
        PROVE  /\ pending_reindex' # None => \E m \in DOMAIN inbox' : m < n /\ Gone(inbox'[m])
               /\ \A k \in DOMAIN inbox' : k < n /\ inbox'[k].kind = "Changed" =>
                    \E m \in DOMAIN inbox' : k < m /\ m < n /\ Gone(inbox'[m])
    <3>1. n \in DOMAIN inbox /\ inbox[n].kind = "Opened"
      BY <1>2, <1>7, <2>2
    <3>2. \A k \in DOMAIN inbox' : inbox'[k].kind = "Changed" =>
            k \in DOMAIN inbox /\ inbox[k].kind = "Changed"
      BY <1>2, <1>7
    <3>3. QED
      BY <1>8, <3>1, <3>2 DEF TurnsInv
  <2>3. QED
    BY <2>1, <2>2 DEF TurnsInv, Gone
<1>10. QED
  BY <1>6, <1>9

(* The actor is done with an event: it leaves the channel.                 *)
Consumed == inbox # <<>> /\ Done /\ UNCHANGED client

LEMMA ConsumedFacts ==
  ASSUME Typed, Consumed
  PROVE  /\ inbox' \in Seq(EventType) /\ inbox' = Tail(inbox) /\ Head(inbox) = inbox[1]
         /\ 1 \in DOMAIN inbox /\ handling' = "Idle"
         /\ \A n \in DOMAIN inbox' : n \in Nat /\ 1 <= n /\ n + 1 \in DOMAIN inbox
                                     /\ inbox'[n] = inbox[n + 1]
         /\ \A n \in DOMAIN inbox : n # 1 => n - 1 \in DOMAIN inbox' /\ 1 < n /\ inbox[n] = inbox'[n - 1]
         /\ \A n \in DOMAIN inbox : n \in Nat /\ 1 <= n
         /\ SavesOnly(inbox') <=> SavesOnly(inbox) \/ IsLast(inbox, 1)
         /\ \A n \in DOMAIN inbox' : IsLast(inbox', n) <=> IsLast(inbox, n + 1)
         /\ inbox[1].kind = "Saved" => (SavesOnly(inbox') <=> SavesOnly(inbox))
<1>1. inbox \in Seq(EventType) /\ inbox # <<>> /\ inbox' = Tail(inbox) /\ handling' = "Idle"
  BY DEF Typed, Consumed, Done
<1>2. /\ inbox' \in Seq(EventType) /\ Head(inbox) = inbox[1] /\ 1 \in DOMAIN inbox
      /\ \A n \in DOMAIN inbox' : n \in Nat /\ 1 <= n /\ n + 1 \in DOMAIN inbox
                                  /\ inbox'[n] = inbox[n + 1]
      /\ \A n \in DOMAIN inbox : n # 1 => n - 1 \in DOMAIN inbox' /\ 1 < n /\ inbox[n] = inbox'[n - 1]
      /\ \A n \in DOMAIN inbox : n \in Nat /\ 1 <= n
  BY <1>1, Leaves
<1>3. /\ SavesOnly(inbox') <=> SavesOnly(inbox) \/ IsLast(inbox, 1)
      /\ \A n \in DOMAIN inbox' : IsLast(inbox', n) <=> IsLast(inbox, n + 1)
      /\ inbox[1].kind = "Saved" => (SavesOnly(inbox') <=> SavesOnly(inbox))
  BY <1>1, LeavesLast
<1>4. QED
  BY <1>1, <1>2, <1>3

(* The lines follow when the last word leaves.                             *)
LEMMA ConsumedKeepsInbox ==
  ASSUME Typed, InboxInv, Consumed,
         NoWords \/ IsLast(inbox, 1) => live_lines' = client
  PROVE  InboxInv'
<1>1. /\ \A n \in DOMAIN inbox' :
           inbox'[n].text # NoText <=> inbox'[n].kind \in {"Opened", "Changed"}
      /\ \A n \in DOMAIN inbox' : IsLast(inbox', n) => inbox'[n].text = client
  BY ConsumedFacts DEF InboxInv
<1>2. SavesOnly(inbox') => live_lines' = client
  BY ConsumedFacts DEF NoWords
<1>3. handling' = "Idle" /\ client' = client
  BY DEF Consumed, Done
<1>4. QED
  BY <1>1, <1>2, <1>3 DEF InboxInv, NoWords

(* No opening is handled while an edit is pending.                         *)
LEMMA ConsumedKeepsTurns ==
  ASSUME Typed, TurnsInv, Consumed,
         pending_reindex' # None => live_lines' # NoText,
         \/ pending_reindex' = None
         \/ pending_reindex' = pending_reindex /\ Head(inbox).kind = "Saved"
         \/ Head(inbox).kind = "Changed"
  PROVE  TurnsInv'
<1>1. Head(inbox) = inbox[1] /\ 1 \in DOMAIN inbox
  BY ConsumedFacts
<1>2. \A m \in DOMAIN inbox : m # 1 /\ Gone(inbox[m]) => m - 1 \in DOMAIN inbox' /\ Gone(inbox'[m - 1])
  BY ConsumedFacts
<1>3. client' = NoText =>
        /\ pending_reindex' # None => \E m \in DOMAIN inbox' : Gone(inbox'[m])
        /\ \A k \in DOMAIN inbox' :
             inbox'[k].kind = "Changed" => \E m \in DOMAIN inbox' : k < m /\ Gone(inbox'[m])
  <2>1. ASSUME client' = NoText, pending_reindex' # None
        PROVE  \E m \in DOMAIN inbox' : Gone(inbox'[m])
    <3>1. client = NoText
      BY <2>1 DEF Consumed
    <3>2. PICK m \in DOMAIN inbox : m # 1 /\ Gone(inbox[m])
      <4>1. CASE pending_reindex' = pending_reindex /\ Head(inbox).kind = "Saved"
        BY <1>1, <2>1, <3>1, <4>1 DEF TurnsInv, Gone
      <4>2. CASE Head(inbox).kind = "Changed"
        BY <1>1, <3>1, <4>2 DEF TurnsInv
      <4>3. QED
        BY <2>1, <4>1, <4>2
    <3>3. QED
      BY <1>2, <3>2
  <2>2. ASSUME client' = NoText, NEW k \in DOMAIN inbox', inbox'[k].kind = "Changed"
        PROVE  \E m \in DOMAIN inbox' : k < m /\ Gone(inbox'[m])
    <3>1. client = NoText /\ k \in Nat /\ 1 <= k
      BY <2>2, ConsumedFacts DEF Consumed
    <3>2. k + 1 \in DOMAIN inbox /\ inbox[k + 1].kind = "Changed"
      BY <2>2, ConsumedFacts
    <3>3. PICK m \in DOMAIN inbox : k + 1 < m /\ Gone(inbox[m])
      BY <3>1, <3>2 DEF TurnsInv
    <3>4. m \in Nat /\ m # 1 /\ k < m - 1
      BY <3>1, <3>3, ConsumedFacts
    <3>5. QED
      BY <1>2, <3>3, <3>4
  <2>3. QED
    BY <2>1, <2>2
<1>4. ASSUME NEW n \in DOMAIN inbox', inbox'[n].kind = "Opened"
      PROVE  /\ pending_reindex' # None => \E m \in DOMAIN inbox' : m < n /\ Gone(inbox'[m])
             /\ \A k \in DOMAIN inbox' : k < n /\ inbox'[k].kind = "Changed" =>
                  \E m \in DOMAIN inbox' : k < m /\ m < n /\ Gone(inbox'[m])
  <2>1. n \in Nat /\ 1 <= n /\ n + 1 \in DOMAIN inbox /\ inbox[n + 1].kind = "Opened"
    BY <1>4, ConsumedFacts
  <2>2. ASSUME pending_reindex' # None
        PROVE  \E m \in DOMAIN inbox' : m < n /\ Gone(inbox'[m])
    <3>1. PICK m \in DOMAIN inbox : m # 1 /\ m < n + 1 /\ Gone(inbox[m])
      <4>1. CASE pending_reindex' = pending_reindex /\ Head(inbox).kind = "Saved"
        BY <1>1, <2>1, <2>2, <4>1 DEF TurnsInv, Gone
      <4>2. CASE Head(inbox).kind = "Changed"
        <5>1. 1 < n + 1
          BY <2>1
        <5>2. QED
          BY <1>1, <2>1, <4>2, <5>1 DEF TurnsInv
      <4>3. QED
        BY <2>2, <4>1, <4>2
    <3>2. m \in Nat /\ m - 1 < n
      BY <2>1, <3>1, ConsumedFacts
    <3>3. QED
      BY <1>2, <3>1, <3>2
  <2>3. ASSUME NEW k \in DOMAIN inbox', k < n, inbox'[k].kind = "Changed"
        PROVE  \E m \in DOMAIN inbox' : k < m /\ m < n /\ Gone(inbox'[m])
    <3>1. k \in Nat /\ 1 <= k /\ k + 1 \in DOMAIN inbox /\ inbox[k + 1].kind = "Changed"
      BY <2>3, ConsumedFacts
    <3>2. k + 1 < n + 1
      BY <2>1, <2>3, <3>1
    <3>3. PICK m \in DOMAIN inbox : k + 1 < m /\ m < n + 1 /\ Gone(inbox[m])
      BY <2>1, <3>1, <3>2 DEF TurnsInv
    <3>4. m \in Nat /\ m # 1 /\ k < m - 1 /\ m - 1 < n
      BY <2>1, <3>1, <3>3, ConsumedFacts
    <3>5. QED
      BY <1>2, <3>3, <3>4
  <2>4. QED
    BY <2>2, <2>3
<1>5. handling' = "Idle"
  BY DEF Consumed, Done
<1>6. QED
  BY <1>3, <1>4, <1>5 DEF TurnsInv, Gone

(* Every step keeps what the editor and the actor know of each other.      *)
LEMMA InboxKept ==
  ASSUME Typed, InboxInv, TurnsInv, [Next /\ UNCHANGED scenario]_vars
  PROVE  InboxInv' /\ TurnsInv'
<1>1. NoText \notin Texts /\ Texts \subseteq TextOrNone /\ NoText \in TextOrNone
  BY DocumentAssumption DEF TextOrNone
<1>2. ASSUME NEW n \in DOMAIN inbox
      PROVE  inbox[n].text # NoText <=> inbox[n].kind \in {"Opened", "Changed"}
  BY <1>2 DEF InboxInv
<1>3. inbox # <<>> => 1 \in DOMAIN inbox /\ Head(inbox) = inbox[1]
  BY Leaves DEF Typed
<1>4. CASE \E text \in Texts : DidOpen(text) \/ DidChange(text)
  <2>1. PICK text \in Texts : DidOpen(text) \/ DidChange(text)
    BY <1>4
  <2>2. Says("Opened", text) \/ Says("Changed", text)
    BY <1>1, <2>1 DEF DidOpen, DidChange, Says, EventType, genVars, liveVars
  <2>3. QED
    BY <2>2, SaysKeepsInbox, SaysKeepsTurns
<1>5. CASE DidClose \/ WatchedFileDeleted
  <2>1. Says("Closed", NoText) \/ Says("Deleted", NoText)
    BY <1>1, <1>5 DEF DidClose, WatchedFileDeleted, Says, EventType, genVars, liveVars
  <2>2. QED
    BY <2>1, SaysKeepsInbox, SaysKeepsTurns
<1>6. CASE DidSave
  BY <1>6, SavedKeeps DEF DidSave, genVars, liveVars
<1>7. CASE HandleOpened
  <2>1. /\ inbox # <<>> /\ Head(inbox).kind = "Opened" /\ live_lines' = Head(inbox).text
        /\ handling' = "Open" /\ UNCHANGED <<client, inbox, pending_reindex>>
    BY <1>7 DEF HandleOpened, Takes, clientVars, genVars
  <2>2. 1 \in DOMAIN inbox /\ Head(inbox) = inbox[1] /\ live_lines' # NoText
    BY <1>2, <1>3, <2>1
  <2>3. ~SavesOnly(inbox) /\ (IsLast(inbox, 1) => live_lines' = client)
    BY <2>1, <2>2 DEF SavesOnly, InboxInv
  <2>4. InboxInv'
    BY <2>1, <2>3 DEF InboxInv, NoWords, SavesOnly, IsLast
  <2>5. QED
    BY <2>1, <2>2, <2>4 DEF TurnsInv, Gone
<1>8. CASE OpenStoresTree
  <2>1. /\ handling = "Open" /\ Done /\ UNCHANGED <<client, live_lines, pending_reindex>>
    BY <1>8 DEF OpenStoresTree, clientVars, genVars
  <2>2. /\ inbox # <<>> /\ Head(inbox).kind = "Opened"
        /\ IsLast(inbox, 1) => live_lines = client
    BY <2>1 DEF InboxInv
  <2>3. ~NoWords /\ pending_reindex = None
    <3>1. 1 \in DOMAIN inbox /\ inbox[1].kind = "Opened"
      BY <1>3, <2>2
    <3>2. \A m \in DOMAIN inbox : ~(m < 1)
      BY DEF Typed
    <3>3. QED
      BY <3>1, <3>2 DEF TurnsInv, NoWords, SavesOnly
  <2>4. Consumed
    BY <2>1, <2>2 DEF Consumed
  <2>5. InboxInv'
    BY <2>1, <2>2, <2>3, <2>4, ConsumedKeepsInbox
  <2>6. QED
    BY <2>1, <2>3, <2>4, <2>5, ConsumedKeepsTurns
<1>9. CASE HandleChanged
  <2>1. /\ inbox # <<>> /\ Head(inbox).kind = "Changed" /\ live_lines' = Head(inbox).text
        /\ Done /\ UNCHANGED client
    BY <1>9 DEF HandleChanged, Takes, clientVars, LinesAfterChange
  <2>2. /\ live_lines' # NoText /\ ~NoWords
        /\ IsLast(inbox, 1) => live_lines' = client
    BY <1>2, <1>3, <2>1 DEF InboxInv, NoWords, SavesOnly
  <2>3. Consumed
    BY <2>1 DEF Consumed
  <2>4. InboxInv'
    BY <2>2, <2>3, ConsumedKeepsInbox
  <2>5. QED
    BY <2>1, <2>2, <2>3, <2>4, ConsumedKeepsTurns
<1>10. CASE HandleSaved
  <2>1. /\ inbox # <<>> /\ Head(inbox).kind = "Saved"
        /\ Done /\ UNCHANGED <<client, live_lines, pending_reindex>>
    BY <1>10 DEF HandleSaved, Takes, clientVars, liveVars, genVars
  <2>2. ~IsLast(inbox, 1) /\ (NoWords => live_lines' = client)
    BY <1>3, <2>1 DEF InboxInv, IsLast
  <2>3. Consumed
    BY <2>1 DEF Consumed
  <2>4. InboxInv'
    BY <2>2, <2>3, ConsumedKeepsInbox
  <2>5. pending_reindex' # None => live_lines' # NoText
    BY <2>1 DEF TurnsInv
  <2>6. QED
    BY <2>1, <2>3, <2>4, <2>5, ConsumedKeepsTurns
<1>11. CASE HandleGone("Closed") \/ HandleGone("Deleted")
  <2>1. /\ inbox # <<>> /\ Gone(Head(inbox)) /\ pending_reindex' = None /\ handling' = "Close"
        /\ UNCHANGED <<client, inbox, live_lines>>
    BY <1>11 DEF HandleGone, Takes, Gone, clientVars
  <2>2. InboxInv'
    BY <2>1 DEF InboxInv, NoWords, SavesOnly, IsLast, Gone
  <2>3. QED
    BY <2>1, <2>2 DEF TurnsInv, Gone
<1>12. CASE CloseClears
  <2>1. /\ handling = "Close" /\ live_lines' = NoText /\ Done
        /\ UNCHANGED <<client, pending_reindex>>
    BY <1>12 DEF CloseClears, clientVars, genVars
  <2>2. inbox # <<>> /\ Gone(Head(inbox)) /\ pending_reindex = None
    BY <2>1 DEF InboxInv, TurnsInv
  <2>3. /\ inbox[1].text = NoText /\ ~NoWords
        /\ IsLast(inbox, 1) => client = NoText
    BY <1>2, <1>3, <2>2 DEF InboxInv, NoWords, SavesOnly, Gone
  <2>4. Consumed
    BY <2>1, <2>2 DEF Consumed
  <2>5. InboxInv'
    BY <2>1, <2>3, <2>4, ConsumedKeepsInbox
  <2>6. QED
    BY <2>1, <2>2, <2>4, <2>5, ConsumedKeepsTurns
<1>13. ASSUME \/ \E text \in Texts : WatchedFileChanged(text)
              \/ RequestBegins \/ RequestStores \/ JarDone \/ Reindex
              \/ OnBecameReady \/ Scan \/ Rest \/ UNCHANGED vars
       PROVE  OffInbox
  BY <1>13 DEF WatchedFileChanged, RequestBegins, RequestStores, JarDone, Reindex, OnBecameReady,
       Scan, ScanStep, ScanResets, ScanAcquires, ScanReads, ScanApplies, ScanInserts, ScanReleases,
       Rest, vars, OffInbox, clientVars, actorVars, genVars, liveVars
<1>14. ASSUME NEW j \in Jobs, Job(j), UNCHANGED scenario
       PROVE  OffInbox
  BY <1>14, JobDoes DEF JobFrame, OffInbox
<1>15. CASE OffInbox
  BY <1>15, OffInboxKeeps
<1>16. QED
  BY <1>4, <1>5, <1>6, <1>7, <1>8, <1>9, <1>10, <1>11, <1>12, <1>13, <1>14, <1>15
     DEF Next, Editor, Actor

(* Every step keeps the types.                                             *)
LEMMA TypedKept ==
  ASSUME Typed, InboxInv, JobsInv, [Next /\ UNCHANGED scenario]_vars
  PROVE  Typed'
<1>1. UNCHANGED scenario
  BY DEF vars
<1>2. handling # "Idle" => inbox # <<>>
  BY DEF Typed, InboxInv
<1>3. QED
  BY <1>1, <1>2, EditorTypedKept, ActorTypedKept, JobTypedKept, OtherTypedKept DEF Next, Rest

-----------------------------------------------------------------------------
(* Where the jobs can be.                                                  *)

(* A step that starts no task and ends none.                               *)
OffJobs == UNCHANGED <<jobs, spawned, pending_reindex, parse_queue, parse_free>>

(* What each step does to the jobs.                                        *)
LEMMA OtherSteps ==
  ASSUME [Next /\ UNCHANGED scenario]_vars
  PROVE  \/ OffJobs
         \/ \E job \in {RepublishJob, [NoJob EXCEPT !.kind = "Disk", !.at = "Read"],
                        [NoJob EXCEPT !.kind = "Open", !.at = "Queued", !.text = Head(inbox).text]} :
              /\ Spawn(jobs, job) /\ UNCHANGED <<scenario, pending_reindex, parse_free>>
              /\ job.kind = "Open" => OpenStoresTree
              /\ job.kind # "Open" => parse_queue' = parse_queue
         \/ HandleChanged
         \/ HandleGone("Closed") \/ HandleGone("Deleted")
         \/ \E j \in Jobs : Job(j) /\ UNCHANGED scenario
<1> USE DEF OffJobs, jobVars, genVars
<1>1. CASE Editor /\ UNCHANGED scenario
  BY <1>1 DEF Editor, DidOpen, DidChange, DidSave, DidClose, WatchedFileChanged, WatchedFileDeleted,
              RequestBegins, JarDone, Reindex, RepublishJob, NoJob
<1>2. CASE Actor /\ UNCHANGED scenario
  BY <1>2 DEF Actor, HandleOpened, OpenStoresTree, HandleSaved, CloseClears, OnBecameReady, ScanStep,
              RepublishJob, NoJob
<1>3. CASE Scan \/ RequestStores \/ Rest \/ UNCHANGED vars
  BY <1>3 DEF Scan, ScanStep, ScanResets, ScanAcquires, ScanReads, ScanApplies, ScanInserts,
              ScanReleases, RequestStores, Rest, vars
<1>4. QED
  BY <1>1, <1>2, <1>3 DEF Next

(* There is a number for the job that is started.                          *)
LEMMA RoomForOne ==
  ASSUME Typed, Typed', UNCHANGED scenario, spawned' = spawned + 1
  PROVE  spawned + 1 \in Jobs /\ spawned \in Nat
<1>1. MaxEvents' = MaxEvents /\ MaxEvents \in Nat
  BY Bounds, SettingStands DEF Typed
<1>2. /\ spawned' + Len(inbox') + OwedBy(scan') <= events' + 1
      /\ Len(inbox') \in Nat /\ events' \in 0..MaxEvents' /\ spawned \in Nat
  BY DEF Typed
<1>3. OwedBy(scan') \in Nat
  BY DEF OwedBy
<1>4. QED
  BY <1>1, <1>2, <1>3 DEF Jobs

(* A job that fits does so with one more job behind it.                    *)
LEMMA FitsWithMore ==
  ASSUME NEW j \in Nat, NEW s \in Nat, NEW r, NEW p, Fits(j, r, s, p), j # s + 1
  PROVE  Fits(j, r, s + 1, p)
BY DEF Fits

(* A job that is started fits.                                             *)
LEMMA NewFits ==
  ASSUME Typed, NEW s \in Nat \ {0}, NEW p
  PROVE  /\ Fits(s, RepublishJob, s, p)
         /\ Fits(s, [NoJob EXCEPT !.kind = "Disk", !.at = "Read"], s, p)
         /\ \A t : t # NoText => Fits(s, [NoJob EXCEPT !.kind = "Open", !.at = "Queued", !.text = t], s, p)
         /\ \A t, a, g : t # NoText =>
              Fits(s, [NoJob EXCEPT !.at = "Sleep", !.tree = "Check", !.text = t, !.arc = a,
                                    !.gen = g], s, s)
<1>1. /\ RepublishJob.kind = "Republish" /\ RepublishJob.at \in {"Done", "Promote"}
      /\ RepublishJob.work = "None" /\ RepublishJob.tree = "None"
  BY DEF RepublishJob, NoJob
<1>2. Fits(s, RepublishJob, s, p)
  BY <1>1 DEF Fits
<1>3. Fits(s, [NoJob EXCEPT !.kind = "Disk", !.at = "Read"], s, p)
  BY DEF Fits, NoJob
<1>4. \A t : t # NoText => Fits(s, [NoJob EXCEPT !.kind = "Open", !.at = "Queued", !.text = t], s, p)
  BY DEF Fits, NoJob
<1>5. ASSUME NEW t, NEW a, NEW g, t # NoText
      PROVE  Fits(s, [NoJob EXCEPT !.at = "Sleep", !.tree = "Check", !.text = t, !.arc = a,
                                   !.gen = g], s, s)
  BY <1>5 DEF Fits, NoJob
<1>6. QED
  BY <1>2, <1>3, <1>4, <1>5

(* A job that makes a step fits at its next place.                         *)
LEMMA JobFits ==
  ASSUME Typed, JobsInv, LineInv, NEW j \in Jobs, Job(j), UNCHANGED scenario
  PROVE  Fits(j, jobs'[j], spawned, pending_reindex)
<1>1. jobs[j] \in JobType /\ jobs \in [Jobs -> JobType] /\ j \in Nat /\ spawned \in Nat
      /\ disk \in TextOrNone
  BY Bounds DEF Typed
<1>2. Fits(j, jobs[j], spawned, pending_reindex)
  BY DEF JobsInv
<1>3. j <= spawned
  <2>1. CASE Acquires(j)
    <3>1. parse_queue \in Seq(1..spawned) /\ parse_queue # <<>> /\ j = Head(parse_queue)
      BY <2>1 DEF Acquires, NextInLine, Typed
    <3>2. 1 \in DOMAIN parse_queue /\ j = parse_queue[1]
      BY <3>1
    <3>3. QED
      BY <1>1, <3>1, <3>2
  <2>2. CASE ~Acquires(j)
    <3>1. jobs[j] # NoJob
      BY <2>2 DEF Job, TreeChecks, TreeStores, WorkGuard, WorkHash, WorkStoresHash, WorkStoresFile, Work,
         Wakes, DiskReads, Indexed, Promotes, Diagnoses, FinalCheck, Publishes, Step, NoJob
    <3>2. QED
      BY <1>1, <1>2, <3>1 DEF Fits
  <2>3. QED
    BY <2>1, <2>2
<1> USE DEF JobType
<1>4. CASE TreeChecks(j) \/ TreeStores(j)
  BY <1>1, <1>2, <1>3, <1>4 DEF TreeChecks, TreeStores, Fits
<1>5. CASE WorkGuard(j) \/ WorkHash(j) \/ WorkStoresHash(j) \/ WorkStoresFile(j)
  BY <1>1, <1>2, <1>3, <1>5 DEF WorkGuard, WorkHash, WorkStoresHash, WorkStoresFile, Work, Fits
<1>6. CASE Wakes(j)
  BY <1>1, <1>2, <1>3, <1>6 DEF Wakes, Step, Fits
<1>7. CASE DiskReads(j)
  BY <1>1, <1>2, <1>3, <1>7 DEF DiskReads, Fits
<1>8. CASE Acquires(j)
  <2>1. jobs[j].at = "Queued"
    <3>1. parse_queue \in Seq(1..spawned) /\ parse_queue # <<>> /\ j = Head(parse_queue)
      BY <1>8 DEF Acquires, NextInLine, Typed
    <3>2. 1 \in DOMAIN parse_queue /\ j = parse_queue[1]
      BY <3>1
    <3>3. QED
      BY <3>2 DEF LineInv
  <2>2. jobs[j].kind # "Republish"
    BY <1>2, <2>1 DEF Fits
  <2>3. QED
    BY <1>1, <1>2, <1>3, <1>8, <2>1, <2>2 DEF Acquires, Fits
<1>9. CASE Indexed(j)
  BY <1>1, <1>2, <1>3, <1>9 DEF Indexed, AfterIndexing, JobKinds, Fits
<1>10. CASE Promotes(j)
  BY <1>1, <1>2, <1>3, <1>10 DEF Promotes, Fits
<1>11. CASE Diagnoses(j)
  BY <1>1, <1>2, <1>3, <1>11 DEF Diagnoses, Fits
<1>12. CASE FinalCheck(j) \/ Publishes(j)
  BY <1>1, <1>2, <1>3, <1>12 DEF FinalCheck, Publishes, Step, Fits
<1>13. QED
  BY <1>4, <1>5, <1>6, <1>7, <1>8, <1>9, <1>10, <1>11, <1>12 DEF Job

(* The pending debounce is ended, whatever comes instead of it.            *)
LEMMA AbortedFits ==
  ASSUME Typed, JobsInv, PendingInv, NEW x \in Aborts(pending_reindex), NEW i \in Jobs, NEW p,
         NEW s \in {spawned, spawned + 1}, i # spawned + 1
  PROVE  Fits(i, x[i], s, p)
<1>1. /\ x \in [Jobs -> JobType] /\ (i # pending_reindex => x[i] = jobs[i])
      /\ x[i] = jobs[i] \/ x[i] = [jobs[i] EXCEPT !.at = "Done"]
      /\ i = pending_reindex => x[i].at \in {"Done", "Publish"}
  BY AbortDoes, Bounds DEF None, Typed
<1>2. Fits(i, jobs[i], spawned, pending_reindex) /\ i \in Nat \ {0} /\ spawned \in Nat
      /\ jobs[i] \in JobType
  BY Bounds DEF JobsInv, Typed
<1>3. i = pending_reindex => jobs[i].kind = "Edit" /\ i <= spawned
  BY <1>2 DEF PendingInv, None, Typed
<1>4. CASE i # pending_reindex
  BY <1>1, <1>2, <1>4 DEF Fits
<1>5. CASE i = pending_reindex
  BY <1>1, <1>2, <1>3, <1>5 DEF Fits, JobType
<1>6. QED
  BY <1>4, <1>5

(* Every step keeps the jobs where they can be.                            *)
LEMMA JobsKept ==
  ASSUME Typed, Typed', InboxInv, JobsInv, PendingInv, LineInv, [Next /\ UNCHANGED scenario]_vars
  PROVE  JobsInv'
<1>1. UNCHANGED scenario /\ Jobs' = Jobs
  BY SettingStands DEF vars
<1>2. jobs \in [Jobs -> JobType] /\ spawned \in Nat /\ Jobs \subseteq Nat
  BY Bounds DEF Typed
<1>3. CASE OffJobs
  BY <1>1, <1>3 DEF OffJobs, JobsInv
<1>4. ASSUME NEW b \in [Jobs -> JobType], NEW job \in JobType, Spawn(b, job),
             Fits(spawned + 1, job, spawned + 1, pending_reindex'),
             \A i \in Jobs : i # spawned + 1 => Fits(i, b[i], spawned + 1, pending_reindex')
      PROVE  JobsInv'
  <2>1. spawned' = spawned + 1
    BY <1>4 DEF Spawn
  <2>2. spawned + 1 \in Jobs
    BY <1>1, <2>1, RoomForOne
  <2>3. jobs'[spawned + 1] = job /\ \A i \in Jobs : i # spawned + 1 => jobs'[i] = b[i]
    BY <1>4, <2>2, SpawnDoes
  <2>4. QED
    BY <1>1, <1>4, <2>1, <2>3 DEF JobsInv
<1>5. ASSUME NEW job \in {RepublishJob, [NoJob EXCEPT !.kind = "Disk", !.at = "Read"],
                          [NoJob EXCEPT !.kind = "Open", !.at = "Queued", !.text = Head(inbox).text]},
             Spawn(jobs, job), UNCHANGED pending_reindex, job.kind = "Open" => OpenStoresTree
      PROVE  JobsInv'
  <2>1. \A i \in Jobs : i # spawned + 1 => Fits(i, jobs[i], spawned + 1, pending_reindex')
    BY <1>2, <1>5, FitsWithMore DEF JobsInv
  <2>2. spawned + 1 \in Nat \ {0}
    BY <1>2
  <2>3. job \in JobType /\ Fits(spawned + 1, job, spawned + 1, pending_reindex')
    <3>1. CASE job = RepublishJob
      <4>1. RepublishJob \in JobType
        <5>1. NoText \in TextOrNone
          BY DEF TextOrNone
        <5>2. QED
          BY <5>1, NewJobTyped DEF RepublishJob, JobKinds, Steps
      <4>2. QED
        BY <2>2, <3>1, <4>1, NewFits
    <3>2. CASE job = [NoJob EXCEPT !.kind = "Disk", !.at = "Read"]
      <4>1. job \in JobType
        BY <3>2, NewJobTyped DEF JobKinds, Steps, TextOrNone
      <4>2. QED
        BY <2>2, <3>2, <4>1, NewFits
    <3>3. CASE job = [NoJob EXCEPT !.kind = "Open", !.at = "Queued", !.text = Head(inbox).text]
      <4>1. OpenStoresTree
        BY <1>5, <3>3 DEF NoJob
      <4>2. inbox # <<>> /\ Head(inbox).kind = "Opened"
        BY <4>1 DEF OpenStoresTree, InboxInv
      <4>3. Head(inbox).text \in TextOrNone
        BY <4>2, HeadTyped
      <4>4. Head(inbox).text # NoText
        <5>1. 1 \in DOMAIN inbox /\ Head(inbox) = inbox[1]
          BY <4>2, Leaves DEF Typed
        <5>2. QED
          BY <4>2, <5>1 DEF InboxInv
      <4>5. job \in JobType
        BY <3>3, <4>3, NewJobTyped DEF JobKinds, Steps
      <4>6. QED
        BY <2>2, <3>3, <4>4, <4>5, NewFits
    <3>4. QED
      BY <1>5, <3>1, <3>2, <3>3
  <2>4. QED
    BY <1>2, <1>4, <1>5, <2>1, <2>3
<1>6. CASE HandleChanged
  <2>1. PICK x \in Aborts(pending_reindex) :
          Spawn(x, [NoJob EXCEPT !.at = "Sleep", !.tree = "Check", !.text = Head(inbox).text,
                                 !.arc = CurrentArc, !.gen = CapturedGeneration])
    BY <1>6 DEF HandleChanged
  <2>2. inbox # <<>> /\ Head(inbox).kind = "Changed" /\ pending_reindex' = spawned'
        /\ arcs' = BumpedArcs /\ arc' = CurrentArc
    BY <1>6 DEF HandleChanged, Takes
  <2>3. Head(inbox).text # NoText
    <3>1. 1 \in DOMAIN inbox /\ Head(inbox) = inbox[1]
      BY <2>2, Leaves DEF Typed
    <3>2. QED
      BY <2>2, <3>1 DEF InboxInv
  <2>4. x \in [Jobs -> JobType]
    BY AbortDoes
  <2>5. CurrentArc \in Nat /\ CapturedGeneration \in Nat /\ Head(inbox).text \in TextOrNone
    BY <2>2, HeadTyped, BumpTyped DEF CapturedGeneration
  <2>6. [NoJob EXCEPT !.at = "Sleep", !.tree = "Check", !.text = Head(inbox).text,
                      !.arc = CurrentArc, !.gen = CapturedGeneration] \in JobType
    BY <2>5, NewJobTyped DEF JobKinds, Steps
  <2>7. \A i \in Jobs : i # spawned + 1 => Fits(i, x[i], spawned + 1, pending_reindex')
    BY AbortedFits
  <2>8. spawned + 1 \in Nat \ {0} /\ pending_reindex' = spawned + 1
    BY <1>2, <2>1, <2>2 DEF Spawn
  <2>9. Fits(spawned + 1, [NoJob EXCEPT !.at = "Sleep", !.tree = "Check", !.text = Head(inbox).text,
                                        !.arc = CurrentArc, !.gen = CapturedGeneration],
             spawned + 1, pending_reindex')
    BY <2>3, <2>8, NewFits
  <2>10. QED
    BY <1>4, <2>1, <2>4, <2>6, <2>7, <2>9
<1>7. CASE HandleGone("Closed") \/ HandleGone("Deleted")
  <2>1. jobs' \in Aborts(pending_reindex) /\ spawned' = spawned
    BY <1>7 DEF HandleGone
  <2>2. ASSUME NEW i \in Jobs PROVE Fits(i, jobs'[i], spawned', pending_reindex')
    <3>1. CASE i # spawned + 1
      BY <2>1, <3>1, AbortedFits
    <3>2. CASE i = spawned + 1
      <4>1. i # pending_reindex
        BY <3>2 DEF Typed
      <4>2. jobs'[i] = jobs[i] /\ jobs[i] = NoJob
        BY <1>2, <2>1, <3>2, <4>1, AbortDoes DEF JobsInv, Fits
      <4>3. QED
        BY <1>2, <2>1, <3>2, <4>2 DEF Fits, NoJob
    <3>3. QED
      BY <3>1, <3>2
  <2>3. QED
    BY <1>1, <2>2 DEF JobsInv
<1>8. ASSUME NEW j \in Jobs, Job(j)
      PROVE  JobsInv'
  <2>1. JobFrame(j)
    BY <1>1, <1>8, JobDoes
  <2>2. Fits(j, jobs'[j], spawned, pending_reindex)
    BY <1>1, <1>8, JobFits
  <2>3. QED
    BY <1>1, <2>1, <2>2 DEF JobFrame, JobsInv
<1>9. QED
  BY <1>3, <1>5, <1>6, <1>7, <1>8, OtherSteps

-----------------------------------------------------------------------------
(* The line and the permits.                                               *)

(* The line is a sequence of jobs that were started.                       *)
LEMMA InLine ==
  ASSUME Typed
  PROVE  /\ parse_queue \in Seq(1..spawned) /\ DOMAIN parse_queue = 1..Len(parse_queue)
         /\ Len(parse_queue) \in Nat /\ spawned \in Nat
         /\ \A k \in DOMAIN parse_queue : k \in Nat /\ parse_queue[k] \in 1..spawned
         /\ parse_queue # <<>> => 1 \in DOMAIN parse_queue /\ Head(parse_queue) = parse_queue[1]
<1>1. parse_queue \in Seq(1..spawned) /\ spawned \in Nat
  BY DEF Typed
<1>2. QED
  BY <1>1

(* An aborted job keeps everything but its place.                          *)
LEMMA AbortKeeps ==
  ASSUME Typed, NEW x \in Aborts(pending_reindex), NEW i \in Jobs
  PROVE  /\ x[i].kind = jobs[i].kind /\ x[i].work = jobs[i].work /\ x[i].tree = jobs[i].tree
         /\ x[i].text = jobs[i].text /\ x[i].arc = jobs[i].arc /\ x[i].gen = jobs[i].gen
         /\ x[i].syntax = jobs[i].syntax /\ x[i].semantic = jobs[i].semantic
         /\ x[i].skip = jobs[i].skip
         /\ x[i].at = jobs[i].at \/ x[i].at = "Done"
<1>1. jobs[i] \in JobType
  BY DEF Typed
<1>2. x[i] = jobs[i] \/ x[i] = [jobs[i] EXCEPT !.at = "Done"]
  BY AbortDoes
<1>3. QED
  BY <1>1, <1>2 DEF JobType

(* Every job that was started is one.                                      *)
LEMMA AllInJobs ==
  ASSUME Typed
  PROVE  \A i \in 1..spawned : i \in Jobs /\ i \in Nat
<1>1. /\ spawned + Len(inbox) + OwedBy(scan) <= events + 1
      /\ Len(inbox) \in Nat /\ events \in 0..MaxEvents /\ spawned \in Nat /\ MaxEvents \in Nat
  BY Bounds DEF Typed
<1>2. OwedBy(scan) \in Nat
  BY DEF OwedBy
<1>3. spawned <= MaxEvents + 1
  BY <1>1, <1>2
<1>4. QED
  BY <1>1, <1>3 DEF Jobs

(* The line stays, is left, or is joined at its end.                       *)
LEMMA LineStays ==
  ASSUME Typed, LineInv, UNCHANGED parse_queue,
         \A i \in 1..spawned : jobs[i].at = "Queued" => jobs'[i].at = "Queued"
  PROVE  LineInv'
BY InLine DEF LineInv

LEMMA LineLoses ==
  ASSUME Typed, LineInv, NEW j, Withdraw(j),
         \A i \in 1..spawned : i # j /\ jobs[i].at = "Queued" => jobs'[i].at = "Queued"
  PROVE  LineInv'
<1>1. CASE parse_queue' = parse_queue /\ \A k \in DOMAIN parse_queue : parse_queue[k] # j
  BY <1>1, InLine DEF LineInv
<1>2. ASSUME NEW k \in DOMAIN parse_queue, parse_queue[k] = j, parse_queue' = Taken(k)
      PROVE  LineInv'
  <2>1. \A i \in DOMAIN parse_queue' :
          \E l \in DOMAIN parse_queue : l # k /\ parse_queue'[i] = parse_queue[l]
                                        /\ l = IF i < k THEN i ELSE i + 1
    BY <1>2, TakenFrom, InLine
  <2>2. \A i \in DOMAIN parse_queue' : jobs'[parse_queue'[i]].at = "Queued"
    BY <1>2, <2>1, InLine DEF LineInv
  <2>3. ASSUME NEW i \in DOMAIN parse_queue', NEW m \in DOMAIN parse_queue',
               parse_queue'[i] = parse_queue'[m]
        PROVE  i = m
    <3>1. i \in Nat /\ m \in Nat /\ k \in Nat
      BY <1>2, TakenFrom, InLine
    <3>2. (IF i < k THEN i ELSE i + 1) = (IF m < k THEN m ELSE m + 1)
      BY <2>1, <2>3 DEF LineInv
    <3>3. QED
      BY <3>1, <3>2
  <2>4. QED
    BY <2>2, <2>3 DEF LineInv
<1>3. QED
  BY <1>1, <1>2, WithdrawDoes

LEMMA LineGains ==
  ASSUME Typed, LineInv, NEW j, parse_queue' = Append(parse_queue, j),
         jobs'[j].at = "Queued", \A k \in DOMAIN parse_queue : parse_queue[k] # j,
         \A i \in 1..spawned : i # j /\ jobs[i].at = "Queued" => jobs'[i].at = "Queued"
  PROVE  LineInv'
<1>1. /\ DOMAIN parse_queue' = DOMAIN parse_queue \cup {Len(parse_queue) + 1}
      /\ parse_queue'[Len(parse_queue) + 1] = j
      /\ \A k \in DOMAIN parse_queue : parse_queue'[k] = parse_queue[k]
  BY InLine
<1>2. QED
  BY <1>1, InLine DEF LineInv

(* The permits follow the closures that run.                               *)
LEMMA ActiveStays ==
  ASSUME Typed, PermitInv, UNCHANGED <<scenario, parse_free>>,
         \A i \in Jobs : jobs'[i].work = jobs[i].work
  PROVE  PermitInv' /\ Active' = Active
<1>1. Jobs' = Jobs /\ Permits' = Permits
  BY SettingStands
<1>2. Active' = Active
  BY <1>1 DEF Active, IsActive
<1>3. QED
  BY <1>1, <1>2 DEF PermitInv

LEMMA ActiveFinite ==
  ASSUME Typed
  PROVE  IsFiniteSet(Active) /\ Cardinality(Active) \in Nat /\ IsFiniteSet(Jobs)
<1>1. MaxEvents + 1 \in Nat
  BY Bounds DEF Typed
<1>2. IsFiniteSet(Jobs)
  BY <1>1, FS_Interval DEF Jobs
<1>3. Active \subseteq Jobs
  BY DEF Active
<1>4. QED
  BY <1>2, <1>3, FS_Subset, FS_CardinalityType

(* A job of the line is in no closure yet.                                 *)
LEMMA HeadWaits ==
  ASSUME Typed, LineInv, JobsInv, NEW j \in Jobs, Acquires(j)
  PROVE  /\ jobs[j].at = "Queued" /\ jobs[j].work = "None" /\ jobs[j].kind # "Republish"
         /\ j \in 1..spawned /\ 1 \in DOMAIN parse_queue /\ parse_queue[1] = j
<1>1. 1 \in DOMAIN parse_queue /\ parse_queue[1] = j /\ j \in 1..spawned
  BY InLine DEF Acquires, NextInLine
<1>2. jobs[j].at = "Queued"
  BY <1>1 DEF LineInv
<1>3. Fits(j, jobs[j], spawned, pending_reindex)
  BY DEF JobsInv
<1>4. QED
  BY <1>1, <1>2, <1>3 DEF Fits

(* What a step of a job does to the line and the permits.                  *)
LEMMA JobLineKept ==
  ASSUME Typed, JobsInv, LineInv, PermitInv, NEW j \in Jobs, Job(j), UNCHANGED scenario
  PROVE  LineInv' /\ PermitInv'
<1>1. JobFrame(j) /\ Jobs' = Jobs /\ Permits' = Permits
  BY JobDoes, SettingStands
<1>2. /\ \A i \in Jobs : i # j => jobs'[i] = jobs[i]
      /\ jobs \in [Jobs -> JobType] /\ jobs[j] \in JobType
      /\ \A i \in 1..spawned : i \in Jobs /\ i \in Nat
  BY <1>1, AllInJobs DEF JobFrame, Typed
<1>3. Fits(j, jobs[j], spawned, pending_reindex)
  BY DEF JobsInv
<1>4. /\ parse_free \in Nat /\ IsFiniteSet(Active) /\ Cardinality(Active) \in Nat
      /\ parse_free + Cardinality(Active) = Permits
  BY ActiveFinite DEF Typed, PermitInv
<1> USE DEF SemUnchanged, JobType
<1>5. ASSUME jobs'[j].work = jobs[j].work, UNCHANGED parse_free
      PROVE  PermitInv'
  BY <1>2, <1>5, ActiveStays
<1>6. ASSUME jobs[j].at # "Queued" \/ jobs'[j].at = "Queued", UNCHANGED parse_queue
      PROVE  LineInv'
  BY <1>2, <1>6, LineStays
<1>7. ASSUME ~IsActive(j), IsActive(j)', parse_free' = parse_free - 1
      PROVE  PermitInv'
  <2>1. Active' = Active \cup {j} /\ j \notin Active
    BY <1>1, <1>2, <1>7 DEF Active, IsActive
  <2>2. Cardinality(Active') = Cardinality(Active) + 1
    BY <1>4, <2>1, FS_AddElement
  <2>3. QED
    BY <1>1, <1>4, <1>7, <2>2 DEF PermitInv
<1>8. ASSUME IsActive(j), ~IsActive(j)', parse_free' = parse_free + 1
      PROVE  PermitInv'
  <2>1. Active' = Active \ {j} /\ j \in Active
    BY <1>1, <1>2, <1>8 DEF Active, IsActive
  <2>2. Cardinality(Active') = Cardinality(Active) - 1
    BY <1>4, <2>1, FS_RemoveElement
  <2>3. QED
    BY <1>1, <1>4, <1>8, <2>2 DEF PermitInv
<1>9. ASSUME IsActive(j), IsActive(j)', parse_free' = parse_free
      PROVE  PermitInv'
  <2>1. Active' = Active
    BY <1>1, <1>2, <1>9 DEF Active, IsActive
  <2>3. QED
    BY <1>1, <1>4, <1>9, <2>1 DEF PermitInv
<1>10. CASE TreeChecks(j) \/ TreeStores(j)
  BY <1>2, <1>5, <1>6, <1>10 DEF TreeChecks, TreeStores
<1>11. CASE Indexed(j) \/ Promotes(j) \/ Diagnoses(j)
  BY <1>2, <1>5, <1>6, <1>11 DEF Indexed, Promotes, Diagnoses
<1>12. CASE FinalCheck(j) \/ Publishes(j)
  BY <1>2, <1>5, <1>6, <1>12 DEF FinalCheck, Publishes, Step
<1>13. CASE WorkGuard(j)
  <2>1. /\ jobs'[j].at = jobs[j].at /\ UNCHANGED parse_queue /\ IsActive(j)
        /\ IF live_lines = NoText THEN ~IsActive(j)' /\ parse_free' = parse_free + 1
                                  ELSE IsActive(j)' /\ parse_free' = parse_free
    BY <1>2, <1>13 DEF WorkGuard, Work, IsActive
  <2>2. QED
    BY <1>6, <1>8, <1>9, <2>1
<1>14. CASE WorkHash(j)
  <2>1. /\ jobs'[j].at = jobs[j].at /\ UNCHANGED parse_queue /\ IsActive(j)
        /\ IF IsIndexed(jobs[j].text) THEN ~IsActive(j)' /\ parse_free' = parse_free + 1
                                      ELSE IsActive(j)' /\ parse_free' = parse_free
    BY <1>2, <1>14 DEF WorkHash, Work, IsActive
  <2>2. QED
    BY <1>6, <1>8, <1>9, <2>1
<1>15. CASE WorkStoresHash(j)
  <2>1. /\ jobs'[j].at = jobs[j].at /\ UNCHANGED <<parse_queue, parse_free>> /\ IsActive(j)
        /\ IsActive(j)'
    BY <1>2, <1>15 DEF WorkStoresHash, Work, IsActive
  <2>2. QED
    BY <1>6, <1>9, <2>1
<1>16. CASE WorkStoresFile(j)
  <2>1. /\ jobs'[j].at = jobs[j].at /\ UNCHANGED parse_queue /\ IsActive(j)
        /\ ~IsActive(j)' /\ parse_free' = parse_free + 1
    BY <1>2, <1>16 DEF WorkStoresFile, IsActive
  <2>2. QED
    BY <1>6, <1>8, <2>1
<1>17. ASSUME jobs[j].at # "Queued"
       PROVE  \A k \in DOMAIN parse_queue : parse_queue[k] # j
  BY <1>17 DEF LineInv
<1>18. CASE Wakes(j)
  <2>1. /\ jobs[j].at = "Sleep" /\ jobs'[j].at = "Queued" /\ jobs'[j].work = jobs[j].work
        /\ parse_queue' = Append(parse_queue, j) /\ UNCHANGED parse_free
    BY <1>2, <1>18 DEF Wakes, Step
  <2>2. LineInv'
    BY <1>2, <1>17, <2>1, LineGains
  <2>3. QED
    BY <1>5, <2>1, <2>2
<1>19. CASE DiskReads(j)
  <2>1. /\ jobs[j].at = "Read" /\ jobs'[j].work = jobs[j].work /\ UNCHANGED parse_free
        /\ \/ UNCHANGED parse_queue
           \/ jobs'[j].at = "Queued" /\ parse_queue' = Append(parse_queue, j)
    BY <1>2, <1>19 DEF DiskReads
  <2>2. LineInv'
    BY <1>2, <1>6, <1>17, <2>1, LineGains
  <2>3. QED
    BY <1>5, <2>1, <2>2
<1>20. CASE Acquires(j)
  <2>1. jobs[j].work = "None" /\ jobs'[j].work \in {"Guard", "Hash"} /\ parse_free' = parse_free - 1
        /\ Withdraw(j)
    BY <1>2, <1>20, HeadWaits DEF Acquires
  <2>2. LineInv'
    BY <1>2, <2>1, LineLoses
  <2>3. QED
    BY <1>7, <2>1, <2>2 DEF IsActive
<1>21. QED
  BY <1>10, <1>11, <1>12, <1>13, <1>14, <1>15, <1>16, <1>18, <1>19, <1>20 DEF Job

(* Every step keeps the line and the permits.                              *)
LEMMA LineKept ==
  ASSUME Typed, Typed', JobsInv, JobsInv', PendingInv, LineInv, PermitInv,
         [Next /\ UNCHANGED scenario]_vars
  PROVE  LineInv' /\ PermitInv'
<1>1. UNCHANGED scenario /\ Jobs' = Jobs
  BY SettingStands DEF vars
<1>2. jobs \in [Jobs -> JobType] /\ spawned \in Nat /\ Jobs \subseteq Nat
  BY Bounds DEF Typed
<1>3. \A i \in 1..spawned : i \in Jobs /\ i \in Nat
  BY AllInJobs
<1>4. CASE OffJobs
  BY <1>1, <1>4, LineStays, ActiveStays DEF OffJobs
<1>5. ASSUME NEW b \in [Jobs -> JobType], NEW job, Spawn(b, job), job \in JobType, job.work = "None",
             \A i \in Jobs : b[i].work = jobs[i].work
      PROVE  /\ \A i \in Jobs : jobs'[i].work = jobs[i].work
             /\ \A i \in 1..spawned : jobs'[i] = b[i]
             /\ jobs'[spawned + 1] = job /\ spawned' = spawned + 1 /\ spawned + 1 \in Jobs
  <2>1. spawned' = spawned + 1
    BY <1>5 DEF Spawn
  <2>2. spawned + 1 \in Jobs
    BY <1>1, <2>1, RoomForOne
  <2>3. jobs'[spawned + 1] = job /\ \A i \in Jobs : i # spawned + 1 => jobs'[i] = b[i]
    BY <1>5, <2>2, SpawnDoes
  <2>4. jobs[spawned + 1].work = "None"
    BY <1>2, <2>2 DEF JobsInv, Fits, NoJob
  <2>5. QED
    BY <1>2, <1>3, <1>5, <2>1, <2>2, <2>3, <2>4
<1>6. ASSUME NEW job \in {RepublishJob, [NoJob EXCEPT !.kind = "Disk", !.at = "Read"],
                          [NoJob EXCEPT !.kind = "Open", !.at = "Queued", !.text = Head(inbox).text]},
             Spawn(jobs, job), UNCHANGED parse_free, job.kind = "Open" => OpenStoresTree,
             job.kind # "Open" => parse_queue' = parse_queue
      PROVE  LineInv' /\ PermitInv'
  <2>1. job.work = "None" /\ (job.kind = "Open" => job.at = "Queued")
    BY DEF RepublishJob, NoJob
  <2>2. job \in JobType
    <3>1. spawned + 1 \in Jobs
      BY <1>1, <1>6, RoomForOne DEF Spawn
    <3>2. jobs'[spawned + 1] = job
      BY <1>2, <1>6, <3>1 DEF Spawn
    <3>3. jobs'[spawned + 1] \in JobType
      BY <1>1, <3>1 DEF Typed
    <3>4. QED
      BY <3>2, <3>3
  <2>3. /\ \A i \in Jobs : jobs'[i].work = jobs[i].work
        /\ \A i \in 1..spawned : jobs'[i] = jobs[i]
        /\ jobs'[spawned + 1] = job /\ spawned' = spawned + 1
    BY <1>2, <1>5, <1>6, <2>1, <2>2
  <2>4. PermitInv'
    BY <1>1, <1>6, <2>3, ActiveStays
  <2>5. CASE job.kind # "Open"
    BY <1>6, <2>3, <2>4, <2>5, LineStays
  <2>6. CASE job.kind = "Open"
    <3>1. parse_queue' = Append(parse_queue, spawned + 1)
      BY <1>6, <2>3, <2>6 DEF OpenStoresTree
    <3>2. \A k \in DOMAIN parse_queue : parse_queue[k] # spawned + 1
      BY <1>2, InLine
    <3>3. QED
      BY <2>1, <2>3, <2>4, <2>6, <3>1, <3>2, LineGains
  <2>7. QED
    BY <2>5, <2>6
<1>7. CASE HandleChanged
  <2>1. PICK x \in Aborts(pending_reindex) :
          Spawn(x, [NoJob EXCEPT !.at = "Sleep", !.tree = "Check", !.text = Head(inbox).text,
                                 !.arc = CurrentArc, !.gen = CapturedGeneration])
    BY <1>7 DEF HandleChanged
  <2>2. inbox # <<>> /\ Withdraw(pending_reindex) /\ UNCHANGED parse_free
    BY <1>7 DEF HandleChanged, Takes
  <2>3. /\ x \in [Jobs -> JobType] /\ \A i \in Jobs : x[i].work = jobs[i].work
        /\ \A i \in Jobs : i # pending_reindex => x[i] = jobs[i]
    BY AbortDoes, AbortKeeps
  <2>4. CurrentArc \in Nat /\ CapturedGeneration \in Nat /\ Head(inbox).text \in TextOrNone
    BY <2>2, HeadTyped, BumpTyped DEF CapturedGeneration
  <2>5. [NoJob EXCEPT !.at = "Sleep", !.tree = "Check", !.text = Head(inbox).text,
                      !.arc = CurrentArc, !.gen = CapturedGeneration] \in JobType
    BY <2>4, NewJobTyped DEF JobKinds, Steps
  <2>6. /\ \A i \in Jobs : jobs'[i].work = jobs[i].work
        /\ \A i \in 1..spawned : jobs'[i] = x[i]
    BY <1>5, <2>1, <2>3, <2>5 DEF NoJob
  <2>7. PermitInv'
    BY <1>1, <2>2, <2>6, ActiveStays
  <2>8. QED
    BY <1>3, <2>2, <2>3, <2>6, <2>7, LineLoses
<1>8. CASE HandleGone("Closed") \/ HandleGone("Deleted")
  <2>1. jobs' \in Aborts(pending_reindex) /\ Withdraw(pending_reindex) /\ UNCHANGED parse_free
    BY <1>8 DEF HandleGone
  <2>2. /\ \A i \in Jobs : jobs'[i].work = jobs[i].work
        /\ \A i \in Jobs : i # pending_reindex => jobs'[i] = jobs[i]
    BY <2>1, AbortDoes, AbortKeeps
  <2>3. PermitInv'
    BY <1>1, <2>1, <2>2, ActiveStays
  <2>4. QED
    BY <1>3, <2>1, <2>2, <2>3, LineLoses
<1>9. ASSUME NEW j \in Jobs, Job(j)
      PROVE  LineInv' /\ PermitInv'
  BY <1>1, <1>9, JobLineKept
<1>10. QED
  BY <1>4, <1>6, <1>7, <1>8, <1>9, OtherSteps

-----------------------------------------------------------------------------
(* The pending edit.                                                       *)

(* Handling all there is settles what the editor's text is.                *)
LEMMA WordsStand ==
  ASSUME Typed, InboxInv, TurnsInv, [Next /\ UNCHANGED scenario]_vars, ~HandleChanged,
         pending_reindex' # None
  PROVE  /\ NoWords' => NoWords /\ client' = client
         /\ UNCHANGED <<arcs, arc, pending_reindex>>
         /\ (\E j \in Jobs : Job(j)) \/ UNCHANGED published
<1>1. NoText \notin Texts /\ Texts \subseteq TextOrNone /\ NoText \in TextOrNone
  BY DocumentAssumption DEF TextOrNone
<1>2. inbox # <<>> => 1 \in DOMAIN inbox /\ Head(inbox) = inbox[1]
  BY Leaves DEF Typed
<1> USE DEF genVars, clientVars, actorVars
<1>3. ASSUME NEW e \in EventType, inbox' = Append(inbox, e)
      PROVE  /\ e.kind # "Saved" => ~NoWords'
             /\ e.kind = "Saved" => (NoWords' => NoWords)
  <2>1. inbox \in Seq(EventType)
    BY DEF Typed
  <2>2. /\ e.kind # "Saved" => ~SavesOnly(inbox')
        /\ e.kind = "Saved" => (SavesOnly(inbox') <=> SavesOnly(inbox))
    BY <1>3, <2>1, ArrivesLast
  <2>3. QED
    BY <2>2 DEF NoWords
<1>4. ASSUME NEW k \in {"Opened", "Changed", "Saved", "Closed", "Deleted"}, NEW t \in TextOrNone,
             Send(k, t)
      PROVE  /\ k # "Saved" => ~NoWords'
             /\ k = "Saved" => (NoWords' => NoWords)
  <2>1. PICK e \in EventType : e = [kind |-> k, text |-> t]
    BY <1>4 DEF EventType
  <2>2. inbox' = Append(inbox, e) /\ e.kind = k
    BY <1>4, <2>1 DEF Send
  <2>3. QED
    BY <1>3, <2>2
<1>5. CASE DidSave
  BY <1>1, <1>4, <1>5 DEF DidSave
<1>6. CASE (\E text \in Texts : DidOpen(text) \/ DidChange(text)) \/ DidClose \/ WatchedFileDeleted
  BY <1>1, <1>4, <1>6 DEF DidOpen, DidChange, DidClose, WatchedFileDeleted
<1>7. CASE \/ \E text \in Texts : WatchedFileChanged(text)
           \/ RequestBegins \/ RequestStores \/ JarDone \/ Reindex
           \/ OnBecameReady \/ Scan \/ Rest \/ UNCHANGED vars \/ HandleOpened
  BY <1>7 DEF WatchedFileChanged, RequestBegins, RequestStores, JarDone, Reindex, OnBecameReady,
       Scan, ScanStep, ScanResets, ScanAcquires, ScanReads, ScanApplies, ScanInserts, ScanReleases,
       Rest, vars, HandleOpened, NoWords
<1>8. CASE HandleSaved
  <2>1. inbox # <<>> /\ Head(inbox).kind = "Saved" /\ inbox' = Tail(inbox)
        /\ UNCHANGED <<client, arcs, arc, pending_reindex, published>>
    BY <1>8 DEF HandleSaved, Takes, Done
  <2>2. SavesOnly(inbox') <=> SavesOnly(inbox)
    BY <1>2, <2>1, LeavesLast DEF Typed
  <2>3. QED
    BY <2>1, <2>2 DEF NoWords
<1>9. CASE HandleGone("Closed") \/ HandleGone("Deleted")
  BY <1>9 DEF HandleGone
<1>10. CASE OpenStoresTree
  <2>1. inbox # <<>> /\ Head(inbox).kind = "Opened" /\ UNCHANGED pending_reindex
    BY <1>10 DEF OpenStoresTree, InboxInv
  <2>2. \A m \in DOMAIN inbox : ~(m < 1)
    BY DEF Typed
  <2>3. QED
    BY <1>2, <2>1, <2>2 DEF TurnsInv
<1>11. CASE CloseClears
  BY <1>11 DEF CloseClears, TurnsInv
<1>12. ASSUME NEW j \in Jobs, Job(j), UNCHANGED scenario
       PROVE  UNCHANGED <<client, inbox, arcs, arc, pending_reindex>>
  BY <1>12, JobDoes DEF JobFrame
<1>13. QED
  BY <1>6, <1>7, <1>8, <1>9, <1>10, <1>11, <1>12, <1>5 DEF Next, Editor, Actor, NoWords

(* A step of no edit and no publish leaves the pending edit alone.         *)
LEMMA PendingStands ==
  ASSUME Typed, Typed', PendingInv,
         UNCHANGED <<scenario, arcs, arc, pending_reindex, published>>,
         NoWords' => NoWords /\ client' = client,
         \A i \in 1..spawned : jobs'[i] = jobs[i],
         spawned' = spawned \/ (spawned' = spawned + 1 /\ jobs'[spawned'].kind # "Edit")
  PROVE  PendingInv'
<1>1. Jobs' = Jobs /\ Jobs \subseteq Nat /\ spawned \in Nat /\ published.by \in 0..spawned
      /\ pending_reindex \in 0..spawned
  BY SettingStands, Bounds DEF Typed
<1>2. SUFFICES ASSUME pending_reindex # None PROVE PendingInv'
  BY DEF PendingInv
<1>3. pending_reindex \in 1..spawned /\ jobs'[pending_reindex] = jobs[pending_reindex]
      /\ (published.by # None => jobs'[published.by] = jobs[published.by])
  BY <1>1, <1>2 DEF None
<1>4. \A j \in Jobs : j > pending_reindex /\ j <= spawned' => jobs'[j].kind # "Edit"
  <2>1. ASSUME NEW j \in Jobs, j > pending_reindex, j <= spawned'
        PROVE  jobs'[j].kind # "Edit"
    <3>1. CASE j <= spawned
      <4>1. j \in 1..spawned
        BY <1>1, <2>1, <3>1
      <4>2. QED
        BY <1>2, <2>1, <3>1, <4>1 DEF PendingInv
    <3>2. CASE j > spawned
      BY <1>1, <2>1, <3>2
    <3>3. QED
      BY <1>1, <3>1, <3>2
  <2>2. QED
    BY <2>1
<1>5. \A j \in Jobs : j < pending_reindex => jobs'[j] = jobs[j]
  <2>1. \A j \in Jobs : j < pending_reindex => j \in 1..spawned
    BY <1>1, <1>3 DEF Jobs
  <2>2. QED
    BY <2>1
<1>6. QED
  BY <1>1, <1>2, <1>3, <1>4, <1>5 DEF PendingInv

(* The generation checks let the pending edit pass and stop every other:   *)
(* its number is the latest of its Arc, or its Arc is not the current one. *)
LEMMA PendingJobKept ==
  ASSUME Typed, Typed', JobsInv, LineInv, PendingInv, NEW j \in Jobs, Job(j), UNCHANGED scenario
  PROVE  PendingInv'
<1>1. JobFrame(j) /\ Jobs' = Jobs /\ Jobs \subseteq Nat \ {0} /\ spawned \in Nat
  BY JobDoes, SettingStands, Bounds DEF Typed
<1>2. SUFFICES ASSUME pending_reindex # None PROVE PendingInv'
  BY <1>1 DEF PendingInv, JobFrame
<1> DEFINE p == pending_reindex
           edit == jobs[p]
<1>3. /\ p \in Jobs /\ p \in Nat /\ edit.kind = "Edit" /\ edit.arc = arc /\ arc # None
      /\ arcs[arc] = edit.gen
      /\ edit.at \in {"Sleep", "Queued", "Indexing", "Semantic", "FinalCheck", "Publish", "Published"}
      /\ NoWords => edit.text = client
      /\ edit.at \in {"FinalCheck", "Publish", "Published"} => edit.semantic = edit.text
      /\ \A i \in Jobs : i > p /\ i <= spawned => jobs[i].kind # "Edit"
      /\ edit.at # "Sleep" =>
           \A i \in Jobs : i < p => jobs[i].at # "Read" /\ (jobs[i].at = "Publish" => jobs[i].kind # "Edit")
      /\ edit.at = "Published" =>
           published.by # None /\ (jobs[published.by].kind = "Edit" => published.by = p)
  <2>1. p \in 1..spawned
    BY <1>2 DEF Typed, None
  <2>2. p \in Jobs /\ p \in Nat
    BY <2>1, AllInJobs
  <2>3. QED
    BY <1>2, <2>2 DEF PendingInv
<1>4. /\ jobs[j] \in JobType /\ jobs'[j] \in JobType
      /\ Fits(j, jobs[j], spawned, p) /\ Fits(p, edit, spawned, p)
      /\ jobs \in [Jobs -> JobType]
  BY <1>1, <1>3 DEF Typed, JobsInv
<1>5. UNCHANGED <<arcs, arc, pending_reindex, client, inbox, spawned>>
  BY <1>1 DEF JobFrame
<1>6. /\ jobs'[p].kind = "Edit" /\ jobs'[p].arc = arc /\ arcs[arc] = jobs'[p].gen
      /\ jobs'[p].text = edit.text
      /\ \A i \in Jobs : jobs'[i].kind = jobs[i].kind
  BY <1>1, <1>3 DEF JobFrame
<1>7. ASSUME j = p
      PROVE  \/ jobs'[p].at = edit.at /\ edit.semantic = jobs'[p].semantic
             \/ edit.at = "Sleep" /\ jobs'[p].at = "Queued" /\ DebounceFires(p)
             \/ edit.at \in {"Queued", "Indexing"} /\ jobs'[p].at \in {"Indexing", "Semantic"}
             \/ edit.at = "Semantic" /\ jobs'[p].at = "FinalCheck" /\ jobs'[p].semantic = edit.text
             \/ edit.at = "FinalCheck" /\ jobs'[p].at = "Publish" /\ edit.semantic = jobs'[p].semantic
             \/ /\ edit.at = "Publish" /\ jobs'[p].at = "Published"
                /\ edit.semantic = jobs'[p].semantic /\ published'.by = p
  <2> USE <1>3, <1>4, <1>7 DEF JobType
  <2>1. ~Superseded(p)
    BY DEF Superseded
  <2>2. edit.at # "Promote"
    OBVIOUS
  <2>3. ~edit.skip
    BY DEF Fits
  <2>4. CASE TreeChecks(j) \/ TreeStores(j)
    BY <2>4 DEF TreeChecks, TreeStores
  <2>5. CASE WorkGuard(j) \/ WorkHash(j) \/ WorkStoresHash(j) \/ WorkStoresFile(j)
    BY <2>5 DEF WorkGuard, WorkHash, WorkStoresHash, WorkStoresFile, Work
  <2>6. CASE Wakes(j)
    BY <2>6 DEF Wakes, Step
  <2>7. CASE DiskReads(j) \/ Promotes(j)
    BY <2>2, <2>7 DEF DiskReads, Promotes
  <2>8. CASE Acquires(j)
    BY <2>8, HeadWaits DEF Acquires
  <2>9. CASE Indexed(j)
    BY <2>1, <2>9 DEF Indexed, AfterIndexing
  <2>10. CASE Diagnoses(j)
    BY <2>3, <2>10 DEF Diagnoses
  <2>11. CASE FinalCheck(j)
    BY <2>1, <2>11 DEF FinalCheck, Step
  <2>12. CASE Publishes(j)
    BY <2>12 DEF Publishes, Step
  <2>13. QED
    BY <2>4, <2>5, <2>6, <2>7, <2>8, <2>9, <2>10, <2>11, <2>12 DEF Job
<1>8. ASSUME j # p
      PROVE  /\ jobs'[j].at # "Read" \/ jobs[j].at = "Read"
             /\ jobs'[j].at = "Publish" /\ jobs[j].kind = "Edit" => jobs[j].at = "Publish"
  <2> USE <1>4, <1>8 DEF JobType
  <2>1. jobs[j].kind = "Edit" => jobs[j].at \in {"None", "Done", "Publish", "Published"}
    BY DEF Fits
  <2>4. CASE TreeChecks(j) \/ TreeStores(j)
    BY <2>4 DEF TreeChecks, TreeStores
  <2>5. CASE WorkGuard(j) \/ WorkHash(j) \/ WorkStoresHash(j) \/ WorkStoresFile(j)
    BY <2>5 DEF WorkGuard, WorkHash, WorkStoresHash, WorkStoresFile, Work
  <2>6. CASE Wakes(j) \/ DiskReads(j) \/ Acquires(j) \/ Promotes(j)
    BY <2>6 DEF Wakes, Step, DiskReads, Acquires, Promotes
  <2>9. CASE Indexed(j)
    BY <2>9 DEF Indexed, AfterIndexing
  <2>10. CASE Diagnoses(j) \/ FinalCheck(j) \/ Publishes(j)
    BY <2>1, <2>10 DEF Diagnoses, FinalCheck, Publishes, Step
  <2>13. QED
    BY <2>4, <2>5, <2>6, <2>9, <2>10 DEF Job
<1>9. \/ UNCHANGED published
      \/ published'.by = j /\ jobs[j].at = "Publish" /\ jobs'[j].at = "Published"
  BY <1>4 DEF Job, TreeChecks, TreeStores, WorkGuard, WorkHash, WorkStoresHash, WorkStoresFile, Wakes,
     DiskReads, Acquires, Indexed, Promotes, Diagnoses, FinalCheck, Publishes, Step, JobType
<1>10. /\ jobs'[p].at \in {"Sleep", "Queued", "Indexing", "Semantic", "FinalCheck", "Publish",
                           "Published"}
       /\ jobs'[p].at \in {"FinalCheck", "Publish", "Published"} => jobs'[p].semantic = jobs'[p].text
  <2>1. CASE j = p
    BY <1>3, <1>6, <1>7, <2>1
  <2>2. CASE j # p
    BY <1>1, <1>3, <2>2 DEF JobFrame
  <2>3. QED
    BY <2>1, <2>2
<1>11. ASSUME jobs'[p].at # "Sleep", NEW i \in Jobs, i < p
       PROVE  jobs'[i].at # "Read" /\ (jobs'[i].at = "Publish" => jobs'[i].kind # "Edit")
  <2>1. CASE j = p
    <3>1. jobs'[i] = jobs[i] /\ i \in 1..(p - 1)
      BY <1>1, <1>3, <1>11, <2>1 DEF JobFrame
    <3>2. edit.at = "Sleep" => DebounceFires(p)
      BY <1>7, <1>11, <2>1
    <3>3. QED
      BY <1>3, <1>11, <3>1, <3>2 DEF DebounceFires, Prompt
  <2>2. CASE j # p
    <3>1. edit.at # "Sleep"
      BY <1>1, <1>3, <1>11, <2>2 DEF JobFrame
    <3>2. jobs[i].at # "Read" /\ (jobs[i].at = "Publish" => jobs[i].kind # "Edit")
      BY <1>3, <1>11, <3>1
    <3>3. QED
      BY <1>1, <1>6, <1>8, <2>2, <3>2 DEF JobFrame
  <2>3. QED
    BY <2>1, <2>2
<1>12. ASSUME jobs'[p].at = "Published"
       PROVE  /\ published'.by # None
              /\ jobs'[published'.by].kind = "Edit" => published'.by = p
  <2>1. CASE j = p /\ edit.at # "Published"
    BY <1>1, <1>3, <1>7, <1>12, <2>1 DEF None
  <2>2. CASE edit.at = "Published"
    <3>1. CASE UNCHANGED published
      <4>1. published.by \in Jobs
        <5>1. published.by \in 0..spawned /\ published.by # None
          BY <1>3, <2>2 DEF Typed
        <5>2. published.by \in 1..spawned
          BY <1>1, <5>1 DEF None
        <5>3. QED
          BY <5>2, AllInJobs
      <4>2. QED
        BY <1>3, <1>6, <2>2, <3>1, <4>1
    <3>2. CASE published'.by = j /\ jobs[j].at = "Publish"
      <4>1. j # p /\ j \in Nat \ {0}
        BY <1>1, <2>2, <3>2
      <4>2. j <= spawned
        BY <1>1, <1>4, <3>2, <4>1 DEF Fits, NoJob
      <4>3. jobs[j].kind # "Edit"
        BY <1>3, <2>2, <3>2, <4>1, <4>2
      <4>4. QED
        BY <1>1, <1>6, <3>2, <4>1, <4>3 DEF None
    <3>3. QED
      BY <1>9, <3>1, <3>2
  <2>3. QED
    BY <1>1, <1>3, <1>12, <2>1, <2>2 DEF JobFrame
<1>13. QED
  BY <1>1, <1>3, <1>5, <1>6, <1>10, <1>11, <1>12 DEF PendingInv, NoWords

(* Every step keeps the pending edit current: an edit aborts the one       *)
(* before it, and a close ends it.                                         *)
LEMMA PendingKept ==
  ASSUME Typed, Typed', InboxInv, TurnsInv, JobsInv, LineInv, PendingInv,
         [Next /\ UNCHANGED scenario]_vars
  PROVE  PendingInv'
<1>1. UNCHANGED scenario /\ Jobs' = Jobs /\ Jobs \subseteq Nat \ {0} /\ spawned \in Nat
      /\ jobs \in [Jobs -> JobType]
  BY SettingStands, Bounds DEF vars, Typed
<1>2. CASE \E j \in Jobs : Job(j)
  BY <1>1, <1>2, PendingJobKept
<1>3. CASE pending_reindex' = None
  BY <1>3 DEF PendingInv
<1>4. CASE HandleChanged
  <2>1. PICK x \in Aborts(pending_reindex) :
          Spawn(x, [NoJob EXCEPT !.at = "Sleep", !.tree = "Check", !.text = Head(inbox).text,
                                 !.arc = CurrentArc, !.gen = CapturedGeneration])
    BY <1>4 DEF HandleChanged
  <2>2. /\ inbox # <<>> /\ Head(inbox).kind = "Changed" /\ pending_reindex' = spawned'
        /\ arcs' = BumpedArcs /\ arc' = CurrentArc /\ inbox' = Tail(inbox) /\ client' = client
    BY <1>4 DEF HandleChanged, Takes, Done, clientVars
  <2>3. spawned' = spawned + 1 /\ spawned + 1 \in Jobs /\ pending_reindex' # None
    BY <1>1, <2>1, <2>2, RoomForOne DEF Spawn, None
  <2>4. jobs'[spawned'] = [NoJob EXCEPT !.at = "Sleep", !.tree = "Check", !.text = Head(inbox).text,
                                        !.arc = CurrentArc, !.gen = CapturedGeneration]
    BY <2>1, <2>3, AbortDoes DEF Spawn
  <2>5. CurrentArc # None /\ arcs'[arc'] = CapturedGeneration
    BY <2>2, BumpTyped DEF CapturedGeneration, None
  <2>6. NoWords' => Head(inbox).text = client'
    <3>1. 1 \in DOMAIN inbox /\ Head(inbox) = inbox[1]
      BY <2>2, Leaves DEF Typed
    <3>2. SavesOnly(inbox') => IsLast(inbox, 1)
      BY <2>2, <3>1, LeavesLast DEF Typed, SavesOnly
    <3>3. QED
      BY <2>2, <3>1, <3>2 DEF InboxInv, NoWords
  <2>7. \A i \in Jobs' : ~(i > pending_reindex' /\ i <= spawned')
    BY <1>1, <2>2, <2>3
  <2>8. /\ jobs'[pending_reindex'].kind = "Edit" /\ jobs'[pending_reindex'].arc = CurrentArc
        /\ jobs'[pending_reindex'].gen = CapturedGeneration
        /\ jobs'[pending_reindex'].at = "Sleep"
        /\ jobs'[pending_reindex'].text = Head(inbox).text
    BY <2>2, <2>4 DEF NoJob
  <2>9. QED
    BY <2>2, <2>5, <2>6, <2>7, <2>8 DEF PendingInv
<1>5. CASE pending_reindex' # None /\ ~HandleChanged /\ ~(\E j \in Jobs : Job(j))
  <2>1. /\ NoWords' => NoWords /\ client' = client
        /\ UNCHANGED <<arcs, arc, pending_reindex, published>>
    BY <1>5, WordsStand
  <2>2. ~HandleGone("Closed") /\ ~HandleGone("Deleted")
    BY <1>5 DEF HandleGone
  <2>3. CASE OffJobs
    BY <1>1, <2>1, <2>3, PendingStands DEF OffJobs
  <2>4. ASSUME NEW job \in {RepublishJob, [NoJob EXCEPT !.kind = "Disk", !.at = "Read"],
                        [NoJob EXCEPT !.kind = "Open", !.at = "Queued", !.text = Head(inbox).text]},
               Spawn(jobs, job)
        PROVE  PendingInv'
    <3>1. spawned' = spawned + 1 /\ spawned + 1 \in Jobs
      BY <1>1, <2>4, RoomForOne DEF Spawn
    <3>2. jobs'[spawned'] = job /\ \A i \in Jobs : i # spawned + 1 => jobs'[i] = jobs[i]
      BY <1>1, <2>4, <3>1 DEF Spawn
    <3>3. job.kind # "Edit"
      BY DEF RepublishJob, NoJob
    <3>4. \A i \in 1..spawned : jobs'[i] = jobs[i]
      BY <1>1, <3>2, AllInJobs
    <3>5. QED
      BY <1>1, <2>1, <3>1, <3>2, <3>3, <3>4, PendingStands
  <2>5. QED
    BY <1>5, <2>2, <2>3, <2>4, OtherSteps
<1>6. QED
  BY <1>2, <1>3, <1>4, <1>5

-----------------------------------------------------------------------------
(* The index while nothing disturbs it.                                    *)

(* No step of an undisturbed scenario starts a scan or deletes the file,   *)
(* and only a job writes to the index.                                     *)
LEMMA CalmKept ==
  ASSUME Typed, InboxInv, Undisturbed, CalmInv, [Next /\ UNCHANGED scenario]_vars
  PROVE  /\ CalmInv'
         /\ ~HandleGone("Deleted")
         /\ (\E j \in Jobs : Job(j)) \/ UNCHANGED <<files, content_hash>>
<1>1. UNCHANGED scenario /\ inbox \in Seq(EventType) /\ events \in Nat
      /\ NoText \in TextOrNone /\ Texts \subseteq TextOrNone
  BY DEF vars, Typed, TextOrNone
<1>2. \A o \in {"Delete", "Scan", "WatchOpen"} : o \notin Operations
  BY DEF Undisturbed
<1>3. inbox # <<>> => 1 \in DOMAIN inbox /\ Head(inbox) = inbox[1]
  BY <1>1, Leaves
<1>4. ~HandleGone("Deleted")
  BY <1>3 DEF HandleGone, Takes, CalmInv
<1>5. ASSUME NEW k \in {"Opened", "Changed", "Saved", "Closed"}, NEW t \in TextOrNone, Send(k, t),
             Outside, scan' = scan
      PROVE  CalmInv'
  <2>1. PICK e \in EventType : e = [kind |-> k, text |-> t]
    BY <1>5 DEF EventType
  <2>2. inbox' = Append(inbox, e) /\ e.kind = k /\ k # "Deleted"
    BY <1>5, <2>1 DEF Send
  <2>3. \A n \in DOMAIN inbox' : inbox'[n].kind # "Deleted"
    BY <1>1, <2>2, Arrives DEF CalmInv
  <2>4. events' # 0
    BY <1>1, <1>5 DEF Outside
  <2>5. QED
    BY <1>5, <2>3, <2>4 DEF CalmInv
<1>6. ASSUME inbox # <<>>, inbox' = Tail(inbox), UNCHANGED <<scan, events>>
      PROVE  CalmInv'
  <2>1. \A n \in DOMAIN inbox' : inbox'[n].kind # "Deleted"
    BY <1>1, <1>6, Leaves DEF CalmInv
  <2>2. QED
    BY <1>6, <2>1 DEF CalmInv
<1> USE DEF scanVars, jobVars, indexVars, actorVars, clientVars
<1>7. CASE Editor
  <2>1. UNCHANGED <<files, content_hash>>
    BY <1>7 DEF Editor, DidOpen, DidChange, DidSave, DidClose, WatchedFileChanged, WatchedFileDeleted,
                RequestBegins, JarDone, Reindex
  <2>2. CASE (\E text \in Texts : DidOpen(text) \/ DidChange(text)) \/ DidSave \/ DidClose
    BY <1>1, <1>4, <1>5, <2>1, <2>2 DEF DidOpen, DidChange, DidSave, DidClose
  <2>3. CASE (\E text \in Texts : WatchedFileChanged(text)) \/ JarDone \/ RequestBegins
    <3>1. UNCHANGED <<scan, inbox>> /\ events' # 0
      BY <1>1, <2>3 DEF WatchedFileChanged, JarDone, RequestBegins, Outside
    <3>2. QED
      BY <1>4, <2>1, <3>1 DEF CalmInv
  <2>4. ~WatchedFileDeleted /\ ~Reindex
    BY <1>2 DEF WatchedFileDeleted, Reindex
  <2>5. QED
    BY <1>4, <1>7, <2>1, <2>2, <2>3, <2>4 DEF Editor
<1>8. CASE Actor
  <2>1. UNCHANGED <<files, content_hash>>
    BY <1>4, <1>8 DEF Actor, HandleOpened, OpenStoresTree, HandleChanged, HandleSaved, HandleGone,
                      CloseClears, OnBecameReady
  <2>2. inbox # <<>> /\ UNCHANGED <<scan, events>> /\ (inbox' = inbox \/ inbox' = Tail(inbox))
    BY <1>8 DEF Actor, HandleOpened, OpenStoresTree, HandleChanged, HandleSaved, HandleGone,
                CloseClears, OnBecameReady, ScanStep, Takes, Done, InboxInv, CalmInv
  <2>3. inbox' = inbox => CalmInv'
    BY <2>2 DEF CalmInv
  <2>4. QED
    BY <1>4, <1>6, <2>1, <2>2, <2>3
<1>9. CASE Scan \/ RequestStores \/ Rest \/ UNCHANGED vars
  <2>1. ~Scan
    BY DEF Scan, ScanStep, ScanResets, ScanAcquires, ScanReads, ScanApplies, ScanInserts,
           ScanReleases, CalmInv
  <2>2. UNCHANGED <<scan, inbox, events, spawned, files, content_hash>>
    BY <1>9, <2>1 DEF RequestStores, Rest, vars
  <2>3. QED
    BY <1>4, <2>2 DEF CalmInv
<1>10. ASSUME NEW j \in Jobs, Job(j)
      PROVE  CalmInv'
  <2>1. UNCHANGED <<scan, inbox, events, spawned>>
    BY <1>1, <1>10, JobDoes DEF JobFrame
  <2>2. QED
    BY <2>1 DEF CalmInv
<1>11. QED
  BY <1>4, <1>7, <1>8, <1>9, <1>10 DEF Next

(* With one permit no two parses overlap.                                  *)
LEMMA OneActive ==
  ASSUME Typed, PermitInv, Undisturbed
  PROVE  /\ \A i, j \in Jobs : IsActive(i) /\ IsActive(j) => i = j
         /\ parse_free > 0 => \A i \in Jobs : ~IsActive(i)
<1>1. /\ IsFiniteSet(Active) /\ Cardinality(Active) \in Nat /\ parse_free \in Nat
      /\ parse_free + Cardinality(Active) = 1
  BY ActiveFinite DEF Typed, PermitInv, Undisturbed
<1>2. ASSUME NEW i \in Active
      PROVE  parse_free = 0 /\ \A j \in Active : j = i
  <2>1. Cardinality(Active) = 1
    <3>1. Cardinality(Active) # 0
      BY <1>1, <1>2, FS_EmptySet
    <3>2. QED
      BY <1>1, <3>1
  <2>2. Cardinality(Active \ {i}) = 0 /\ IsFiniteSet(Active \ {i})
    <3>1. Cardinality(Active \ {i}) = Cardinality(Active) - 1
      BY <1>1, <1>2, FS_RemoveElement
    <3>2. QED
      BY <1>1, <2>1, <3>1, FS_RemoveElement
  <2>3. Active \ {i} = {}
    BY <2>2, FS_EmptySet
  <2>4. QED
    BY <1>1, <2>1, <2>3
<1>3. QED
  BY <1>1, <1>2 DEF Active

(* What a step does to the closures.                                       *)
LEMMA WorksStand ==
  ASSUME Typed, Typed', JobsInv, JobsInv', [Next /\ UNCHANGED scenario]_vars,
         ~(\E j \in Jobs : Job(j))
  PROVE  \A i \in Jobs : /\ jobs'[i].work = jobs[i].work
                         /\ jobs[i].work # "None" => jobs'[i].text = jobs[i].text
                         /\ i <= spawned => /\ jobs'[i].text = jobs[i].text
                                            /\ jobs'[i].kind = jobs[i].kind
                                            /\ i # pending_reindex => jobs'[i] = jobs[i]
                         /\ i > spawned => jobs'[i].work = "None"
                         /\ jobs'[i].syntax = jobs[i].syntax \/ i > spawned
<1>1. UNCHANGED scenario /\ Jobs' = Jobs /\ Jobs \subseteq Nat \ {0} /\ spawned \in Nat
      /\ jobs \in [Jobs -> JobType]
  BY SettingStands, Bounds DEF vars, Typed
<1>2. \A i \in Jobs : i > spawned => jobs[i] = NoJob
  BY <1>1 DEF JobsInv, Fits
<1>3. NoJob.work = "None"
  BY DEF NoJob
<1>4. CASE OffJobs
  BY <1>1, <1>2, <1>3, <1>4 DEF OffJobs
<1>5. ASSUME NEW b \in [Jobs -> JobType], NEW job, Spawn(b, job), job.work = "None",
             \A i \in Jobs : /\ i # pending_reindex => b[i] = jobs[i]
                             /\ b[i].work = jobs[i].work /\ b[i].text = jobs[i].text
                             /\ b[i].kind = jobs[i].kind /\ b[i].syntax = jobs[i].syntax
      PROVE  \A i \in Jobs : /\ jobs'[i].work = jobs[i].work
                             /\ jobs[i].work # "None" => jobs'[i].text = jobs[i].text
                             /\ i <= spawned => /\ jobs'[i].text = jobs[i].text
                                                /\ jobs'[i].kind = jobs[i].kind
                                                /\ i # pending_reindex => jobs'[i] = jobs[i]
                             /\ i > spawned => jobs'[i].work = "None"
                             /\ jobs'[i].syntax = jobs[i].syntax \/ i > spawned
  <2>1. spawned' = spawned + 1
    BY <1>5 DEF Spawn
  <2>2. spawned + 1 \in Jobs
    BY <1>1, <2>1, RoomForOne
  <2>3. jobs'[spawned + 1] = job /\ \A i \in Jobs : i # spawned + 1 => jobs'[i] = b[i]
    BY <1>1, <1>5, <2>2 DEF Spawn
  <2>4. QED
    BY <1>1, <1>2, <1>3, <1>5, <2>1, <2>2, <2>3
<1>6. \A x \in Aborts(pending_reindex) :
        /\ x \in [Jobs -> JobType]
        /\ \A i \in Jobs : /\ i # pending_reindex => x[i] = jobs[i]
                           /\ x[i].work = jobs[i].work /\ x[i].text = jobs[i].text
                           /\ x[i].kind = jobs[i].kind /\ x[i].syntax = jobs[i].syntax
  BY AbortDoes, AbortKeeps
<1>7. CASE HandleChanged
  <2>1. PICK x \in Aborts(pending_reindex) :
          Spawn(x, [NoJob EXCEPT !.at = "Sleep", !.tree = "Check", !.text = Head(inbox).text,
                                 !.arc = CurrentArc, !.gen = CapturedGeneration])
    BY <1>7 DEF HandleChanged
  <2>2. [NoJob EXCEPT !.at = "Sleep", !.tree = "Check", !.text = Head(inbox).text,
                      !.arc = CurrentArc, !.gen = CapturedGeneration].work = "None"
    BY DEF NoJob
  <2>3. QED
    BY <1>5, <1>6, <2>1, <2>2
<1>8. CASE HandleGone("Closed") \/ HandleGone("Deleted")
  <2>1. jobs' \in Aborts(pending_reindex)
    BY <1>8 DEF HandleGone
  <2>2. QED
    BY <1>1, <1>2, <1>3, <1>6, <2>1
<1>9. ASSUME NEW job \in {RepublishJob, [NoJob EXCEPT !.kind = "Disk", !.at = "Read"],
                          [NoJob EXCEPT !.kind = "Open", !.at = "Queued", !.text = Head(inbox).text]}
      PROVE  job.work = "None"
  BY DEF RepublishJob, NoJob
<1>10. QED
  BY <1>1, <1>4, <1>5, <1>7, <1>8, <1>9, OtherSteps

(* A closure writes the hash and then the data of its text.                *)
LEMMA HashKept ==
  ASSUME Typed, Typed', InboxInv, JobsInv, JobsInv', LineInv, PermitInv, Undisturbed, CalmInv,
         HashInv, [Next /\ UNCHANGED scenario]_vars
  PROVE  HashInv'
<1>1. UNCHANGED scenario /\ Jobs' = Jobs /\ jobs \in [Jobs -> JobType]
  BY SettingStands DEF vars, Typed
<1>2. CASE ~(\E j \in Jobs : Job(j))
  <2>1. UNCHANGED <<files, content_hash>>
    BY <1>2, CalmKept
  <2>2. \A i \in Jobs : jobs'[i].work = jobs[i].work
                        /\ (jobs[i].work # "None" => jobs'[i].text = jobs[i].text)
    BY <1>2, WorksStand
  <2>3. QED
    BY <1>1, <2>1, <2>2 DEF HashInv
<1>3. ASSUME NEW j \in Jobs, Job(j)
      PROVE  HashInv'
  <2>1. JobFrame(j) /\ jobs[j] \in JobType /\ Fits(j, jobs[j], spawned, pending_reindex)
    BY <1>1, <1>3, JobDoes DEF JobsInv
  <2>2. /\ \A i \in Jobs : i # j => jobs'[i] = jobs[i]
        /\ jobs[j].work # "None" => jobs'[j].text = jobs[j].text
    BY <2>1 DEF JobFrame, Fits
  <2>3. \A i \in Jobs : i # j /\ IsActive(j) => jobs[i].work # "File"
    BY OneActive DEF IsActive
  <2>4. ASSUME UNCHANGED <<files, content_hash>>, jobs[j].work # "File", jobs'[j].work # "File"
        PROVE  HashInv'
    BY <1>1, <2>2, <2>4 DEF HashInv
  <2> USE <2>1 DEF JobType, indexVars
  <2>5. CASE TreeChecks(j) \/ TreeStores(j) \/ Indexed(j) \/ Promotes(j) \/ Diagnoses(j)
             \/ FinalCheck(j) \/ Publishes(j) \/ Wakes(j) \/ DiskReads(j)
    <3>1. UNCHANGED <<files, content_hash>> /\ jobs'[j].work = jobs[j].work
      BY <1>1, <2>5 DEF TreeChecks, TreeStores, Indexed, Promotes, Diagnoses, FinalCheck, Publishes,
         Wakes, DiskReads, Step
    <3>2. QED
      BY <1>1, <2>2, <3>1 DEF HashInv
  <2>6. CASE WorkGuard(j) \/ WorkHash(j)
    BY <1>1, <2>4, <2>6 DEF WorkGuard, WorkHash, Work
  <2>7. CASE Acquires(j)
    <3>1. jobs[j].work = "None"
      BY <2>7, HeadWaits
    <3>2. QED
      BY <1>1, <2>4, <2>7, <3>1 DEF Acquires
  <2>8. CASE WorkStoresHash(j)
    <3>1. jobs'[j].work = "File" /\ content_hash' = jobs'[j].text /\ IsActive(j)
      BY <1>1, <2>2, <2>8 DEF WorkStoresHash, Work, IsActive
    <3>2. QED
      BY <1>1, <2>2, <2>3, <3>1 DEF HashInv
  <2>9. CASE WorkStoresFile(j)
    <3>1. /\ jobs[j].work = "File" /\ jobs'[j].work # "File" /\ files' = jobs[j].text
          /\ content_hash' = content_hash /\ IsActive(j)
      BY <1>1, <2>9 DEF WorkStoresFile, IsActive
    <3>2. QED
      BY <1>1, <2>2, <2>3, <3>1 DEF HashInv
  <2>10. QED
    BY <1>3, <2>5, <2>6, <2>7, <2>8, <2>9 DEF Job
<1>4. QED
  BY <1>2, <1>3

(* Reading jobs and the pending edit stay what they are.                   *)
LEMMA DiskStands ==
  ASSUME Typed, DiskInv, UNCHANGED <<scenario, client, disk, pending_reindex, inbox>>,
         \A i \in Jobs : jobs'[i].at = "Read" => jobs[i].at = "Read",
         \A i \in Jobs : i < pending_reindex /\ jobs[i].at = "Read"
                         /\ jobs[pending_reindex].at = "Sleep" => jobs'[pending_reindex].at = "Sleep"
  PROVE  DiskInv'
<1>1. Jobs' = Jobs
  BY SettingStands
<1>2. client # NoText => SavedLast'
  BY DEF DiskInv, SavedLast
<1>3. Followed => Followed'
  BY DEF Followed, IsLast
<1>4. Overtaken => Overtaken'
  BY <1>1 DEF Overtaken, Gone
<1>5. QED
  BY <1>2, <1>3, <1>4 DEF DiskInv

(* An event that is not the last edit leaves.                              *)
LEMMA DiskConsumed ==
  ASSUME Typed, DiskInv, Consumed, UNCHANGED <<scenario, disk>>, Head(inbox).kind # "Changed",
         Head(inbox).kind # "Saved" /\ Overtaken => Overtaken'
  PROVE  DiskInv'
<1>1. 1 \in DOMAIN inbox /\ Head(inbox) = inbox[1] /\ client' = client
  BY ConsumedFacts DEF Consumed
<1>2. client # NoText => SavedLast'
  <2>1. SUFFICES ASSUME client # NoText, NEW n \in DOMAIN inbox',
                        \A m \in DOMAIN inbox' : m >= n => inbox'[m].kind = "Saved"
                 PROVE  disk' = client'
    BY DEF SavedLast
  <2>2. n \in Nat /\ n + 1 \in DOMAIN inbox
    BY ConsumedFacts
  <2>3. \A m \in DOMAIN inbox : m >= n + 1 =>
          m - 1 \in DOMAIN inbox' /\ m - 1 >= n /\ inbox[m] = inbox'[m - 1]
    <3>1. \A m \in DOMAIN inbox : m \in Nat /\ (m >= n + 1 => m # 1)
      BY <2>2, ConsumedFacts
    <3>2. QED
      BY <2>2, <3>1, ConsumedFacts
  <2>4. \A m \in DOMAIN inbox : m >= n + 1 => inbox[m].kind = "Saved"
    BY <2>1, <2>3
  <2>5. QED
    BY <1>1, <2>1, <2>2, <2>4 DEF DiskInv, SavedLast
<1>3. Followed => Followed'
  <2>1. SUFFICES ASSUME NEW n \in DOMAIN inbox, IsLast(inbox, n), inbox[n].kind = "Changed"
                 PROVE  Followed'
    BY DEF Followed
  <2>2. n # 1
    BY <1>1, <2>1
  <2>3. n - 1 \in DOMAIN inbox' /\ inbox[n] = inbox'[n - 1] /\ n \in Nat /\ n - 1 + 1 = n
    BY <2>2, ConsumedFacts
  <2>4. IsLast(inbox', n - 1)
    BY <2>1, <2>3, ConsumedFacts
  <2>5. QED
    BY <2>1, <2>3, <2>4 DEF Followed
<1>4. Overtaken => Head(inbox).kind # "Saved"
  BY <1>1 DEF Overtaken
<1>5. QED
  BY <1>1, <1>2, <1>3, <1>4 DEF DiskInv

(* No step but a save or a write beside the editor starts to read.         *)
LEMMA ReadsStand ==
  ASSUME Typed, Typed', JobsInv', [Next /\ UNCHANGED scenario]_vars,
         ~HandleSaved, \A text \in Texts : ~WatchedFileChanged(text)
  PROVE  \A i \in Jobs : jobs'[i].at = "Read" => jobs[i].at = "Read"
<1>1. UNCHANGED scenario /\ Jobs' = Jobs /\ Jobs \subseteq Nat \ {0} /\ spawned \in Nat
      /\ jobs \in [Jobs -> JobType] /\ jobs' \in [Jobs -> JobType]
  BY SettingStands, Bounds DEF vars, Typed
<1>2. CASE OffJobs
  BY <1>2 DEF OffJobs
<1>3. ASSUME NEW b \in [Jobs -> JobType], NEW job, Spawn(b, job), job.at # "Read",
             \A i \in Jobs : b[i].at = "Read" => jobs[i].at = "Read"
      PROVE  \A i \in Jobs : jobs'[i].at = "Read" => jobs[i].at = "Read"
  <2>1. spawned + 1 \in Jobs
    BY <1>1, <1>3, RoomForOne DEF Spawn
  <2>3. jobs'[spawned + 1] = job /\ \A i \in Jobs : i # spawned + 1 => jobs'[i] = b[i]
    BY <1>1, <1>3, <2>1 DEF Spawn
  <2>4. QED
    BY <1>3, <2>3
<1>4. \A x \in Aborts(pending_reindex) :
        x \in [Jobs -> JobType] /\ \A i \in Jobs : x[i].at = "Read" => jobs[i].at = "Read"
  <2>1. ASSUME NEW x \in Aborts(pending_reindex), NEW i \in Jobs
        PROVE  x[i].at = jobs[i].at \/ x[i].at = "Done"
    BY <2>1, AbortKeeps
  <2>2. QED
    BY <2>1, AbortDoes
<1>5. CASE HandleChanged
  <2>1. PICK x \in Aborts(pending_reindex) :
          Spawn(x, [NoJob EXCEPT !.at = "Sleep", !.tree = "Check", !.text = Head(inbox).text,
                                 !.arc = CurrentArc, !.gen = CapturedGeneration])
    BY <1>5 DEF HandleChanged
  <2>2. [NoJob EXCEPT !.at = "Sleep", !.tree = "Check", !.text = Head(inbox).text,
                      !.arc = CurrentArc, !.gen = CapturedGeneration].at # "Read"
    BY DEF NoJob
  <2>3. QED
    BY <1>3, <1>4, <2>1, <2>2
<1>6. CASE HandleGone("Closed") \/ HandleGone("Deleted")
  BY <1>4, <1>6 DEF HandleGone
<1>7. ASSUME NEW j \in Jobs, Job(j)
      PROVE  \A i \in Jobs : jobs'[i].at = "Read" => jobs[i].at = "Read"
  <2>1. JobFrame(j)
    BY <1>1, <1>7, JobDoes
  <2>2. jobs'[j].at = "Read" => jobs[j].at = "Read"
    BY <1>1, <1>7 DEF Job, TreeChecks, TreeStores, WorkGuard, WorkHash, WorkStoresHash, WorkStoresFile,
       Work, Wakes, Step, DiskReads, Acquires, Indexed, AfterIndexing, Promotes, Diagnoses,
       FinalCheck, Publishes, JobType
  <2>3. QED
    BY <2>1, <2>2 DEF JobFrame
<1>8. CASE JarDone \/ OnBecameReady \/ OpenStoresTree
  <2>1. PICK job : Spawn(jobs, job) /\ job.at # "Read"
    <3>1. RepublishJob.at # "Read"
          /\ [NoJob EXCEPT !.kind = "Open", !.at = "Queued", !.text = Head(inbox).text].at # "Read"
      BY DEF RepublishJob, NoJob
    <3>2. CASE JarDone \/ OnBecameReady
      BY <3>1, <3>2 DEF JarDone, OnBecameReady
    <3>3. CASE OpenStoresTree
      BY <3>1, <3>3 DEF OpenStoresTree
    <3>4. QED
      BY <1>8, <3>2, <3>3
  <2>2. QED
    BY <1>1, <1>3, <2>1
<1>9. CASE (\E text \in Texts : DidOpen(text) \/ DidChange(text)) \/ DidSave \/ DidClose
           \/ WatchedFileDeleted \/ RequestBegins \/ Reindex \/ HandleOpened \/ CloseClears \/ Scan
           \/ RequestStores \/ Rest \/ UNCHANGED vars
  <2>1. UNCHANGED jobs
    BY <1>9 DEF DidOpen, DidChange, DidSave, DidClose, WatchedFileDeleted, RequestBegins, Reindex,
                HandleOpened, CloseClears, Scan, ScanStep, ScanResets, ScanAcquires, ScanReads,
                ScanApplies, ScanInserts, ScanReleases, RequestStores, Rest, vars, jobVars
  <2>2. QED
    BY <2>1
<1>10. QED
  BY <1>5, <1>6, <1>7, <1>8, <1>9 DEF Next, Editor, Actor

(* A save puts the editor's text on disk; a file written while it is       *)
(* closed is older than the edit that is to come, and read before it.      *)
LEMMA DiskKept ==
  ASSUME Typed, Typed', InboxInv, TurnsInv, JobsInv, JobsInv', LineInv, PendingInv, Undisturbed,
         CalmInv, DiskInv, [Next /\ UNCHANGED scenario]_vars
  PROVE  DiskInv'
<1>1. UNCHANGED scenario /\ Jobs' = Jobs /\ Jobs \subseteq Nat \ {0} /\ spawned \in Nat
      /\ jobs \in [Jobs -> JobType] /\ inbox \in Seq(EventType) /\ events \in Nat
      /\ NoText \in TextOrNone /\ Texts \subseteq TextOrNone /\ NoText \notin Texts
  <2>1. UNCHANGED scenario
    BY DEF vars
  <2>2. Jobs' = Jobs /\ Jobs \subseteq Nat \ {0} /\ MaxEvents \in Nat
    BY <2>1, SettingStands, Bounds DEF Typed
  <2>3. /\ spawned \in Nat /\ jobs \in [Jobs -> JobType] /\ inbox \in Seq(EventType)
        /\ events \in 0..MaxEvents
    BY DEF Typed
  <2>4. NoText \in TextOrNone /\ Texts \subseteq TextOrNone /\ NoText \notin Texts
    BY DocumentAssumption DEF TextOrNone
  <2>5. QED
    BY <2>1, <2>2, <2>3, <2>4
<1>2. inbox # <<>> => 1 \in DOMAIN inbox /\ Head(inbox) = inbox[1]
  BY <1>1, Leaves
<1>3. "WatchOpen" \notin Operations
  BY DEF Undisturbed
<1>4. CASE client' = NoText
  BY <1>4 DEF DiskInv
<1>5. ASSUME NEW text \in Texts, DidOpen(text)
      PROVE  DiskInv'
  <2>1. PICK e \in EventType : e = [kind |-> "Opened", text |-> text]
    BY <1>1 DEF EventType
  <2>2. inbox' = Append(inbox, e) /\ e.kind = "Opened"
    BY <1>5, <2>1 DEF DidOpen, Send
  <2>3. UNCHANGED <<disk, jobs, pending_reindex>> /\ client' = text
        /\ (disk \in {text, NoText} \/ events = 0)
    BY <1>5 DEF DidOpen, jobVars, genVars
  <2>4. SavedLast'
    <3>1. Len(inbox) + 1 \in DOMAIN inbox' /\ inbox'[Len(inbox) + 1].kind # "Saved"
          /\ \A n \in DOMAIN inbox' : Len(inbox) + 1 >= n
      BY <1>1, <2>2, Arrives
    <3>2. QED
      BY <3>1 DEF SavedLast
  <2>5. CASE disk \in {text, NoText}
    BY <2>3, <2>4, <2>5 DEF DiskInv
  <2>6. CASE events = 0
    <3>1. inbox = <<>> /\ spawned = 0
      BY <2>6 DEF CalmInv
    <3>2. \A n \in DOMAIN inbox' : inbox'[n].kind # "Saved"
      BY <1>1, <2>2, <3>1, Arrives
    <3>3. \A j \in Jobs : jobs[j] = NoJob
      BY <1>1, <3>1 DEF JobsInv, Fits
    <3>4. Overtaken'
      BY <1>1, <2>3, <3>2, <3>3 DEF Overtaken, NoJob
    <3>5. QED
      BY <2>4, <3>4 DEF DiskInv
  <2>7. QED
    BY <2>3, <2>5, <2>6
<1>6. ASSUME NEW text \in Texts, DidChange(text)
      PROVE  DiskInv'
  <2>1. PICK e \in EventType : e = [kind |-> "Changed", text |-> text]
    BY <1>1 DEF EventType
  <2>2. inbox' = Append(inbox, e) /\ e.kind = "Changed"
    BY <1>6, <2>1 DEF DidChange, Send
  <2>3. Len(inbox) + 1 \in DOMAIN inbox' /\ inbox'[Len(inbox) + 1].kind = "Changed"
        /\ (\A n \in DOMAIN inbox' : Len(inbox) + 1 >= n) /\ IsLast(inbox', Len(inbox) + 1)
    <3>1. Len(inbox) + 1 \in DOMAIN inbox' /\ inbox'[Len(inbox) + 1] = e
          /\ \A n \in DOMAIN inbox' : Len(inbox) + 1 >= n
      BY <1>1, <2>2, Arrives
    <3>2. e.kind # "Saved"
      BY <2>2
    <3>3. IsLast(inbox', Len(inbox) + 1)
      BY <1>1, <2>2, <3>2, ArrivesLast
    <3>4. QED
      BY <2>2, <3>1, <3>3
  <2>4. SavedLast' /\ Followed'
    BY <2>3 DEF SavedLast, Followed
  <2>5. QED
    BY <2>4 DEF DiskInv
<1>7. CASE DidSave
  <2>1. client' = client /\ disk' = client
    BY <1>7 DEF DidSave
  <2>2. QED
    BY <2>1 DEF DiskInv, SavedLast
<1>8. ASSUME NEW text \in Texts, WatchedFileChanged(text)
      PROVE  DiskInv'
  <2>1. client = NoText /\ client' = client
    BY <1>3, <1>8 DEF WatchedFileChanged
  <2>2. QED
    BY <1>4, <2>1
<1>9. ASSUME ~HandleSaved
      PROVE  \/ \E text \in Texts : WatchedFileChanged(text)
             \/ \A i \in Jobs : jobs'[i].at = "Read" => jobs[i].at = "Read"
  BY <1>9, ReadsStand
<1>10. CASE HandleSaved
  <2>1. /\ inbox # <<>> /\ Head(inbox).kind = "Saved" /\ Done
        /\ UNCHANGED <<client, disk>>
    BY <1>10 DEF HandleSaved, Takes, clientVars
  <2>2. Consumed
    BY <2>1 DEF Consumed
  <2>3. QED
    BY <1>1, <2>1, <2>2, DiskConsumed
<1>11. CASE OpenStoresTree \/ CloseClears
  <2>1. /\ inbox # <<>> /\ Head(inbox).kind \notin {"Changed", "Saved"} /\ Done
        /\ UNCHANGED <<client, disk, pending_reindex>> /\ ~HandleSaved
    BY <1>11 DEF OpenStoresTree, CloseClears, InboxInv, clientVars, genVars, Gone, HandleSaved, Takes
  <2>2. Consumed
    BY <2>1 DEF Consumed
  <2>3. \A i \in Jobs : jobs'[i].at = "Read" => jobs[i].at = "Read"
    <3>1. spawned' # spawned => OpenStoresTree
      BY <1>11 DEF CloseClears, jobVars
    <3>2. \A text \in Texts : ~WatchedFileChanged(text)
      <4>1. handling # "Idle" /\ handling' = "Idle"
        BY <1>11 DEF OpenStoresTree, CloseClears, Done
      <4>2. QED
        BY <4>1 DEF WatchedFileChanged, actorVars
    <3>3. QED
      BY <1>9, <2>1, <3>2
  <2>4. pending_reindex = None
    <3>1. handling = "Close" => pending_reindex = None
      BY DEF TurnsInv
    <3>2. Head(inbox).kind = "Opened" => pending_reindex = None
      <4>1. \A m \in DOMAIN inbox : ~(m < 1)
        BY <1>1
      <4>2. QED
        BY <1>2, <2>1, <4>1 DEF TurnsInv
    <3>3. QED
      BY <1>11, <3>1, <3>2 DEF OpenStoresTree, CloseClears, InboxInv
  <2>5. Overtaken => Overtaken'
    <3>1. \A n \in DOMAIN inbox' : n + 1 \in DOMAIN inbox /\ inbox'[n] = inbox[n + 1]
      BY <2>2, ConsumedFacts
    <3>2. Overtaken => \A j \in Jobs : jobs[j].at # "Read"
      BY <2>4 DEF Overtaken
    <3>3. QED
      BY <1>1, <2>3, <3>1, <3>2 DEF Overtaken
  <2>6. QED
    BY <1>1, <2>1, <2>2, <2>5, DiskConsumed
<1>12. CASE HandleChanged
  <2>1. /\ inbox # <<>> /\ Head(inbox).kind = "Changed" /\ Done
        /\ UNCHANGED <<client, disk>> /\ ~HandleSaved /\ pending_reindex' = spawned'
    BY <1>12 DEF HandleChanged, Takes, clientVars, HandleSaved
  <2>2. Consumed
    BY <2>1 DEF Consumed
  <2>3. \A i \in Jobs : jobs'[i].at = "Read" => jobs[i].at = "Read"
    <3>1. \A text \in Texts : ~WatchedFileChanged(text)
      <4>1. Len(inbox') # Len(inbox)
        BY <1>1, <2>1, Leaves DEF Done
      <4>2. QED
        BY <4>1 DEF WatchedFileChanged, actorVars
    <3>2. QED
      BY <1>9, <2>1, <3>1
  <2>4. PICK x \in Aborts(pending_reindex) :
          Spawn(x, [NoJob EXCEPT !.at = "Sleep", !.tree = "Check", !.text = Head(inbox).text,
                                 !.arc = CurrentArc, !.gen = CapturedGeneration])
    BY <1>12 DEF HandleChanged
  <2>5. spawned' = spawned + 1 /\ spawned + 1 \in Jobs /\ pending_reindex' # None
    BY <1>1, <2>1, <2>4, RoomForOne DEF Spawn, None
  <2>6. jobs'[spawned'] = [NoJob EXCEPT !.at = "Sleep", !.tree = "Check", !.text = Head(inbox).text,
                                        !.arc = CurrentArc, !.gen = CapturedGeneration]
    BY <2>4, <2>5, AbortDoes DEF Spawn
  <2>7. jobs'[spawned'].at = "Sleep"
    BY <2>6 DEF NoJob
  <2>8. \A i \in Jobs : jobs'[i].at = "Read" => i < spawned'
    <3>1. \A i \in Jobs : i > spawned => jobs[i].at # "Read"
      BY <1>1 DEF JobsInv, Fits, NoJob
    <3>2. QED
      BY <1>1, <2>3, <2>5, <3>1
  <2>9. client # NoText => SavedLast'
    <3>1. SUFFICES ASSUME client # NoText, NEW n \in DOMAIN inbox',
                          \A m \in DOMAIN inbox' : m >= n => inbox'[m].kind = "Saved"
                   PROVE  disk' = client'
      BY DEF SavedLast
    <3>2. n \in Nat /\ n + 1 \in DOMAIN inbox
      BY <2>2, ConsumedFacts
    <3>3. \A m \in DOMAIN inbox : m >= n + 1 =>
            m - 1 \in DOMAIN inbox' /\ m - 1 >= n /\ inbox[m] = inbox'[m - 1]
      <4>1. \A m \in DOMAIN inbox : m \in Nat /\ (m >= n + 1 => m # 1)
        BY <2>2, <3>2, ConsumedFacts
      <4>2. QED
        BY <2>2, <3>2, <4>1, ConsumedFacts
    <3>4. \A m \in DOMAIN inbox : m >= n + 1 => inbox[m].kind = "Saved"
      BY <3>1, <3>3
    <3>5. QED
      BY <2>1, <3>1, <3>2, <3>4 DEF DiskInv, SavedLast
  <2>10. ASSUME client # NoText, disk \notin {client, NoText}
         PROVE  Followed' \/ Overtaken'
    <3>1. CASE \E n \in DOMAIN inbox : n # 1 /\ IsLast(inbox, n) /\ inbox[n].kind = "Changed"
      <4>1. PICK n \in DOMAIN inbox : n # 1 /\ IsLast(inbox, n) /\ inbox[n].kind = "Changed"
        BY <3>1
      <4>2. n - 1 \in DOMAIN inbox' /\ inbox[n] = inbox'[n - 1] /\ n \in Nat /\ n - 1 + 1 = n
        BY <2>2, <4>1, ConsumedFacts
      <4>3. IsLast(inbox', n - 1)
        BY <2>2, <4>1, <4>2, ConsumedFacts
      <4>4. QED
        BY <4>1, <4>2, <4>3 DEF Followed
    <3>2. ASSUME \A n \in DOMAIN inbox' : inbox'[n].kind # "Saved",
                 inbox' = <<>> \/ Overtaken
          PROVE  Overtaken'
      <4>1. \A j \in Jobs : jobs'[j].at = "Read" => \A n \in DOMAIN inbox' : ~Gone(inbox'[n])
        <5>1. CASE inbox' = <<>>
          BY <5>1
        <5>2. CASE Overtaken
          <6>1. \A n \in DOMAIN inbox' : n + 1 \in DOMAIN inbox /\ inbox'[n] = inbox[n + 1]
            BY <2>2, ConsumedFacts
          <6>2. QED
            BY <2>3, <5>2, <6>1 DEF Overtaken
        <5>3. QED
          BY <3>2, <5>1, <5>2
      <4>2. QED
        BY <1>1, <2>1, <2>5, <2>7, <2>8, <3>2, <4>1 DEF Overtaken, Gone
    <3>3. CASE IsLast(inbox, 1)
      <4>1. \A n \in DOMAIN inbox' : inbox'[n].kind = "Saved"
        <5>1. \A n \in DOMAIN inbox' : n \in Nat /\ 1 <= n /\ n + 1 \in DOMAIN inbox
                                       /\ inbox'[n] = inbox[n + 1]
          BY <2>2, ConsumedFacts
        <5>2. \A n \in DOMAIN inbox' : n + 1 > 1
          BY <5>1
        <5>3. QED
          BY <3>3, <5>1, <5>2 DEF IsLast
      <4>2. \A n \in DOMAIN inbox' : FALSE
        BY <2>1, <2>9, <2>10, <4>1 DEF SavedLast
      <4>3. inbox' = <<>>
        <5>1. inbox' \in Seq(EventType)
          BY <2>2, ConsumedFacts
        <5>2. inbox' # <<>> => 1 \in DOMAIN inbox'
          BY <5>1
        <5>3. QED
          BY <4>2, <5>2
      <4>4. QED
        BY <3>2, <4>2, <4>3
    <3>4. CASE Overtaken
      <4>1. \A n \in DOMAIN inbox' : inbox'[n].kind # "Saved"
        <5>1. \A n \in DOMAIN inbox' : n + 1 \in DOMAIN inbox /\ inbox'[n] = inbox[n + 1]
          BY <2>2, ConsumedFacts
        <5>2. QED
          BY <3>4, <5>1 DEF Overtaken
      <4>2. QED
        BY <3>2, <3>4, <4>1
    <3>5. QED
      BY <2>10, <3>1, <3>3, <3>4 DEF DiskInv, Followed
  <2>11. QED
    BY <2>1, <2>9, <2>10 DEF DiskInv
<1>13. CASE HandleGone("Closed")
  <2>1. /\ inbox # <<>> /\ Gone(Head(inbox)) /\ UNCHANGED <<client, disk, inbox>>
        /\ ~HandleSaved
    BY <1>13 DEF HandleGone, Takes, clientVars, Gone, HandleSaved
  <2>2. \A text \in Texts : ~WatchedFileChanged(text)
    <3>1. handling' # handling
      BY <1>13 DEF HandleGone, Takes
    <3>2. QED
      BY <3>1 DEF WatchedFileChanged, actorVars
  <2>3. \A i \in Jobs : jobs'[i].at = "Read" => jobs[i].at = "Read"
    BY <1>9, <2>1, <2>2
  <2>4. client # NoText => SavedLast'
    BY <2>1 DEF DiskInv, SavedLast
  <2>5. Followed => Followed'
    BY <2>1 DEF Followed, IsLast
  <2>6. Overtaken => Overtaken'
    <3>1. Overtaken => \A j \in Jobs : jobs[j].at # "Read"
      BY <1>2, <2>1 DEF Overtaken
    <3>2. QED
      BY <1>1, <2>1, <2>3, <3>1 DEF Overtaken
  <2>7. QED
    BY <2>1, <2>4, <2>5, <2>6 DEF DiskInv
<1>14. ASSUME UNCHANGED <<client, disk, pending_reindex, inbox, jobs>>
       PROVE  DiskInv'
  BY <1>1, <1>14, DiskStands
<1>15. CASE JarDone \/ OnBecameReady
  <2>1. UNCHANGED <<client, disk, pending_reindex, inbox>> /\ Spawn(jobs, RepublishJob)
    BY <1>15 DEF JarDone, OnBecameReady, ScanStep, clientVars, actorVars, genVars
  <2>2. spawned + 1 \in Jobs /\ RepublishJob.at # "Read"
    BY <1>1, <2>1, RoomForOne DEF Spawn, RepublishJob, NoJob
  <2>3. \A i \in Jobs : jobs'[i] = IF i = spawned + 1 THEN RepublishJob ELSE jobs[i]
    BY <1>1, <2>1, <2>2 DEF Spawn
  <2>4. pending_reindex # spawned + 1
    BY <1>1 DEF Typed
  <2>5. \A i \in Jobs : i < pending_reindex /\ jobs[i].at = "Read" => pending_reindex \in Jobs
    <3>1. pending_reindex \in 0..spawned
      BY DEF Typed
    <3>2. \A i \in Jobs : i < pending_reindex => pending_reindex \in 1..spawned
      BY <1>1, <3>1
    <3>3. QED
      BY <3>2, AllInJobs
  <2>6. QED
    BY <1>1, <2>1, <2>2, <2>3, <2>4, <2>5, DiskStands
<1>16. ASSUME NEW j \in Jobs, Job(j)
       PROVE  DiskInv'
  <2>1. JobFrame(j) /\ jobs[j] \in JobType
    BY <1>1, <1>16, JobDoes
  <2>2. UNCHANGED <<client, disk, pending_reindex, inbox>> /\ ~HandleSaved
        /\ \A text \in Texts : ~WatchedFileChanged(text)
    <3>1. UNCHANGED <<client, disk, pending_reindex, inbox, spawned>>
      BY <2>1 DEF JobFrame
    <3>2. spawned' # spawned + 1
      BY <1>1, <3>1
    <3>3. QED
      BY <3>1, <3>2 DEF HandleSaved, WatchedFileChanged, Spawn
  <2>3. \A i \in Jobs : jobs'[i].at = "Read" => jobs[i].at = "Read"
    BY <1>9, <2>2
  <2>4. ASSUME NEW i \in Jobs, i < pending_reindex, jobs[i].at = "Read",
               jobs[pending_reindex].at = "Sleep"
        PROVE  jobs'[pending_reindex].at = "Sleep"
    <3>1. pending_reindex \in Jobs
      <4>1. pending_reindex \in 1..spawned
        BY <1>1, <2>4 DEF Typed
      <4>2. QED
        BY <4>1, AllInJobs
    <3>2. CASE j # pending_reindex
      BY <2>1, <2>4, <3>1, <3>2 DEF JobFrame
    <3>3. CASE j = pending_reindex
      <4>1. ~DebounceFires(j)
        BY <1>1, <2>4, <3>1, <3>3 DEF DebounceFires, Prompt
      <4>2. jobs[j].work = "None"
        BY <2>4, <3>3 DEF JobsInv, Fits
      <4>3. ~Acquires(j)
        BY <2>4, <3>3, HeadWaits
      <4>4. TreeChecks(j) \/ TreeStores(j)
        BY <1>16, <2>4, <3>3, <4>1, <4>2, <4>3 DEF Job, WorkGuard, WorkHash, WorkStoresHash,
           WorkStoresFile, Work, Wakes, DiskReads, Indexed, Promotes, Diagnoses, FinalCheck, Publishes,
           Step
      <4>5. QED
        BY <1>1, <2>1, <2>4, <3>3, <4>4 DEF TreeChecks, TreeStores, JobType
    <3>4. QED
      BY <3>2, <3>3
  <2>5. QED
    BY <1>1, <2>2, <2>3, <2>4, DiskStands
<1>17. CASE RequestBegins \/ Reindex \/ HandleOpened \/ Scan \/ RequestStores \/ Rest \/ UNCHANGED vars
  <2>1. UNCHANGED <<client, disk, pending_reindex, inbox, jobs>>
    BY <1>17 DEF RequestBegins, Reindex, HandleOpened, Scan, ScanStep, ScanResets, ScanAcquires,
                 ScanReads, ScanApplies, ScanInserts, ScanReleases, RequestStores, Rest, vars, jobVars,
                 clientVars, actorVars, genVars
  <2>2. QED
    BY <1>14, <2>1
<1>18. CASE DidClose \/ WatchedFileDeleted
  <2>1. ~WatchedFileDeleted
    BY DEF WatchedFileDeleted, Undisturbed
  <2>2. QED
    BY <1>4, <1>18, <2>1 DEF DidClose
<1>19. ~HandleGone("Deleted")
  BY CalmKept
<1>20. QED
  BY <1>5, <1>6, <1>7, <1>8, <1>10, <1>11, <1>12, <1>13, <1>15, <1>16, <1>17, <1>18, <1>19
     DEF Next, Editor, Actor

(* Handling all there is settles what the editor's text is, the last word  *)
(* being an opening or an edit.                                            *)
LEMMA WordsSettle ==
  ASSUME Typed, InboxInv, TurnsInv, [Next /\ UNCHANGED scenario]_vars, ~HandleChanged,
         ~OpenStoresTree, NoWords', client' # NoText
  PROVE  /\ NoWords /\ UNCHANGED <<client, pending_reindex>>
         /\ ~HandleGone("Closed") /\ ~HandleGone("Deleted") /\ ~CloseClears
<1>1. NoText \notin Texts /\ Texts \subseteq TextOrNone /\ NoText \in TextOrNone
  BY DocumentAssumption DEF TextOrNone
<1>2. inbox # <<>> => 1 \in DOMAIN inbox /\ Head(inbox) = inbox[1]
  BY Leaves DEF Typed
<1> USE DEF genVars, clientVars, actorVars
<1>3. ~HandleGone("Closed") /\ ~HandleGone("Deleted")
  <2>1. HandleGone("Closed") \/ HandleGone("Deleted") =>
          inbox # <<>> /\ Gone(Head(inbox)) /\ inbox' = inbox
    BY DEF HandleGone, Takes, Gone
  <2>2. QED
    BY <1>2, <2>1 DEF NoWords, SavesOnly, Gone
<1>4. ~CloseClears
  <2>1. SUFFICES ASSUME CloseClears PROVE FALSE
    OBVIOUS
  <2>2. inbox # <<>> /\ Gone(Head(inbox)) /\ inbox' = Tail(inbox) /\ client' = client
    BY <2>1 DEF CloseClears, Done, InboxInv
  <2>3. inbox[1].text = NoText /\ 1 \in DOMAIN inbox /\ inbox[1].kind # "Saved"
    BY <1>2, <2>2 DEF InboxInv, Gone
  <2>4. SavesOnly(inbox') => IsLast(inbox, 1)
    BY <2>2, <2>3, LeavesLast DEF Typed, SavesOnly
  <2>5. QED
    BY <2>2, <2>3, <2>4 DEF InboxInv, NoWords
<1>5. CASE pending_reindex' # None
  BY <1>3, <1>4, <1>5, WordsStand
<1>6. CASE pending_reindex' = None
  <2>3. ASSUME NEW e \in EventType, inbox' = Append(inbox, e)
        PROVE  e.kind = "Saved" /\ NoWords
    <3>1. inbox \in Seq(EventType)
      BY DEF Typed
    <3>2. /\ e.kind # "Saved" => ~SavesOnly(inbox')
          /\ e.kind = "Saved" => (SavesOnly(inbox') <=> SavesOnly(inbox))
      BY <2>3, <3>1, ArrivesLast
    <3>3. QED
      BY <3>2 DEF NoWords
  <2>4. ASSUME NEW k \in {"Opened", "Changed", "Saved", "Closed", "Deleted"}, NEW t \in TextOrNone,
               Send(k, t)
        PROVE  k = "Saved" /\ NoWords
    <3>1. PICK e \in EventType : e = [kind |-> k, text |-> t]
      BY <2>4 DEF EventType
    <3>2. inbox' = Append(inbox, e) /\ e.kind = k
      BY <2>4, <3>1 DEF Send
    <3>3. QED
      BY <2>3, <3>2
  <2>5. CASE (\E text \in Texts : DidOpen(text) \/ DidChange(text)) \/ DidClose \/ WatchedFileDeleted
             \/ DidSave
    <3>1. DidSave
      BY <1>1, <2>4, <2>5 DEF DidOpen, DidChange, DidClose, WatchedFileDeleted
    <3>2. QED
      BY <1>1, <1>3, <1>4, <2>4, <3>1 DEF DidSave
  <2>6. CASE \/ \E text \in Texts : WatchedFileChanged(text)
             \/ RequestBegins \/ RequestStores \/ JarDone \/ Reindex
             \/ OnBecameReady \/ Scan \/ Rest \/ UNCHANGED vars \/ HandleOpened
    <3>1. UNCHANGED <<client, pending_reindex, inbox>>
      BY <2>6 DEF WatchedFileChanged, RequestBegins, RequestStores, JarDone, Reindex, OnBecameReady,
         Scan, ScanStep, ScanResets, ScanAcquires, ScanReads, ScanApplies, ScanInserts, ScanReleases,
         Rest, vars, HandleOpened
    <3>2. QED
      BY <1>3, <1>4, <3>1 DEF NoWords
  <2>7. CASE HandleSaved
    <3>1. inbox # <<>> /\ Head(inbox).kind = "Saved" /\ inbox' = Tail(inbox)
          /\ UNCHANGED <<client, pending_reindex>>
      BY <2>7 DEF HandleSaved, Takes, Done
    <3>2. SavesOnly(inbox') <=> SavesOnly(inbox)
      BY <1>2, <3>1, LeavesLast DEF Typed
    <3>3. QED
      BY <1>3, <1>4, <3>1, <3>2 DEF NoWords
  <2>8. ASSUME NEW j \in Jobs, Job(j), UNCHANGED scenario
        PROVE  UNCHANGED <<client, inbox, pending_reindex>>
    BY <2>8, JobDoes DEF JobFrame
  <2>9. QED
    BY <1>3, <1>4, <2>5, <2>6, <2>7, <2>8 DEF Next, Editor, Actor, NoWords
<1>7. QED
  BY <1>5, <1>6

(* A step that is not about the last word's job.                           *)
LEMMA AnchorStands ==
  ASSUME Typed, NEW w, Anchor(w), spawned' \in Nat, spawned' >= spawned,
         UNCHANGED <<client, pending_reindex, parse_queue, files, scenario>>,
         \A i \in 1..spawned : jobs'[i] = jobs[i],
         \A i \in Jobs : i \notin 1..spawned => jobs'[i].work = "None"
  PROVE  Anchor(w)'
<1>1. Jobs' = Jobs /\ w \in 1..spawned /\ spawned \in Nat /\ jobs'[w] = jobs[w] /\ w \in 1..spawned'
  <2>1. Jobs' = Jobs
    BY SettingStands
  <2>2. w \in 1..spawned /\ spawned \in Nat
    BY DEF Anchor, Typed
  <2>3. QED
    BY <2>1, <2>2
<1>2. \A k \in DOMAIN parse_queue : QueuedText(k)' = QueuedText(k)
  BY InLine DEF QueuedText
<1>3. AllQueued => AllQueued'
  BY <1>2 DEF AllQueued
<1>4. \A i \in Jobs : IsActive(i)' => IsActive(i) /\ jobs'[i] = jobs[i]
  BY DEF IsActive
<1>5. Waiting(w) => Waiting(w)'
  BY <1>2 DEF Waiting
<1>6. Parsed(w) => Parsed(w)'
  BY <1>1, <1>3, <1>4 DEF Parsed
<1>7. IsActive(w) => IsActive(w)'
  BY <1>1 DEF IsActive
<1>8. QED
  BY <1>1, <1>3, <1>5, <1>6, <1>7 DEF Anchor

(* The job of an opening is the anchor when it is the last word.           *)
LEMMA AnchorOpens ==
  ASSUME Typed, Typed', OpenStoresTree, pending_reindex = None, Head(inbox).text = client,
         UNCHANGED scenario, NEW w, w = spawned + 1
  PROVE  Anchor(w)'
<1> DEFINE job == [NoJob EXCEPT !.kind = "Open", !.at = "Queued", !.text = Head(inbox).text]
<1>1. /\ Spawn(jobs, job) /\ parse_queue' = Append(parse_queue, spawned')
      /\ UNCHANGED <<client, pending_reindex>>
  BY DEF OpenStoresTree, clientVars, genVars
<1>2. job.kind = "Open" /\ job.text = client
  BY DEF NoJob
<1> HIDE DEF job
<1>3. spawned' = spawned + 1 /\ spawned + 1 \in Jobs /\ spawned \in Nat
  BY <1>1, RoomForOne DEF Spawn
<1>4. jobs'[spawned + 1] = job
  BY <1>1, <1>3 DEF Spawn, Typed
<1>5. /\ Len(parse_queue) + 1 \in DOMAIN parse_queue' /\ Len(parse_queue) \in Nat
      /\ parse_queue'[Len(parse_queue) + 1] = spawned + 1
      /\ \A l \in DOMAIN parse_queue' : l >= Len(parse_queue) + 1 => l = Len(parse_queue) + 1
  BY <1>1, <1>3, InLine
<1>6. Waiting(w)'
  BY <1>1, <1>2, <1>3, <1>4, <1>5 DEF Waiting, QueuedText
<1>7. QED
  BY <1>1, <1>2, <1>3, <1>4, <1>6 DEF Anchor

(* So is the debounce of an edit.                                          *)
LEMMA AnchorEdits ==
  ASSUME Typed, Typed', HandleChanged, Head(inbox).text = client, UNCHANGED scenario,
         NEW w, w = spawned + 1
  PROVE  Anchor(w)'
<1> DEFINE job == [NoJob EXCEPT !.at = "Sleep", !.tree = "Check", !.text = Head(inbox).text,
                                !.arc = CurrentArc, !.gen = CapturedGeneration]
<1>1. PICK x \in Aborts(pending_reindex) : Spawn(x, job)
  BY DEF HandleChanged
<1>2. job.at = "Sleep" /\ job.text = client
  BY DEF NoJob
<1> HIDE DEF job
<1>3. spawned' = spawned + 1 /\ spawned + 1 \in Jobs /\ spawned \in Nat
      /\ pending_reindex' = spawned' /\ client' = client
  BY <1>1, RoomForOne DEF Spawn, HandleChanged, clientVars
<1>4. jobs'[spawned + 1] = job
  BY <1>1, <1>3, AbortDoes DEF Spawn
<1>5. QED
  BY <1>2, <1>3, <1>4 DEF Anchor, None

(* A step of any job keeps the anchor: what was in line before it has      *)
(* been parsed when it is, what is behind it has the same text.            *)
LEMMA AnchorJobKept ==
  ASSUME Typed, Typed', InboxInv, JobsInv, LineInv, PermitInv, PendingInv, Undisturbed, HashInv,
         DiskInv, NEW w, Anchor(w), client # NoText, NoWords, NEW j \in Jobs, Job(j),
         UNCHANGED scenario
  PROVE  Anchor(w)'
<1>1. JobFrame(j) /\ Jobs' = Jobs /\ Jobs \subseteq Nat \ {0} /\ spawned \in Nat
      /\ jobs[j] \in JobType /\ Fits(j, jobs[j], spawned, pending_reindex)
      /\ jobs \in [Jobs -> JobType]
  BY JobDoes, SettingStands, Bounds DEF Typed, JobsInv
<1>2. /\ UNCHANGED <<client, pending_reindex, spawned, live_lines, inbox>>
      /\ \A i \in Jobs : i # j => jobs'[i] = jobs[i]
      /\ jobs'[j].kind = jobs[j].kind
      /\ jobs[j].at # "Read" => jobs'[j].text = jobs[j].text
  BY <1>1 DEF JobFrame
<1>3. /\ w \in Jobs /\ w \in 1..spawned /\ jobs[w].text = client
      /\ Fits(w, jobs[w], spawned, pending_reindex) /\ jobs[w] \in JobType
      /\ IF pending_reindex # None THEN w = pending_reindex ELSE jobs[w].kind = "Open"
      /\ jobs[w].at = "Sleep" \/ Waiting(w) \/ (IsActive(w) /\ AllQueued) \/ Parsed(w)
  BY AllInJobs DEF Anchor, JobsInv, Typed
<1>4. live_lines # NoText
  BY DEF InboxInv
<1>5. jobs[w].at # "Read" /\ jobs'[w].text = client /\ jobs'[w].kind = jobs[w].kind
  <2>1. jobs[w].kind # "Disk"
    BY <1>3 DEF PendingInv
  <2>2. QED
    BY <1>2, <1>3, <2>1 DEF Fits
<1>6. Waiting(w) => jobs[w].at = "Queued"
  BY DEF Waiting, LineInv
<1>7. ASSUME jobs'[w].at = "Sleep" \/ Waiting(w)' \/ (IsActive(w)' /\ AllQueued') \/ Parsed(w)'
      PROVE  Anchor(w)'
  BY <1>2, <1>3, <1>5, <1>7 DEF Anchor
<1>8. jobs[w].at = "Sleep" => jobs[w].work = "None" /\ w = pending_reindex
  <2>1. jobs[w].kind = "Open" => jobs[w].at # "Sleep"
    BY <1>3 DEF Fits
  <2>2. QED
    BY <1>3, <2>1 DEF Fits
(* In the closures and in the line nothing moves.                          *)
<1>9. ASSUME UNCHANGED parse_queue, jobs[j].at # "Read"
      PROVE  (AllQueued => AllQueued') /\ (Waiting(w) => Waiting(w)')
  <2>1. \A k \in DOMAIN parse_queue : parse_queue[k] \in Jobs
    BY InLine, AllInJobs
  <2>2. \A i \in Jobs : jobs'[i].text = jobs[i].text
    BY <1>2, <1>9
  <2>3. QED
    BY <1>2, <1>9, <2>1, <2>2 DEF AllQueued, Waiting, QueuedText
<1>10. ASSUME UNCHANGED <<parse_queue, files>>, jobs'[j].work = jobs[j].work, jobs[j].at # "Read",
              jobs[j].at = "Sleep" => jobs'[j].at = "Sleep"
       PROVE  Anchor(w)'
  <2>1. \A i \in Jobs : IsActive(i)' <=> IsActive(i)
    BY <1>2, <1>10 DEF IsActive
  <2>2. Parsed(w) => Parsed(w)'
    <3>1. jobs'[w].work = jobs[w].work /\ \A i \in Jobs : jobs'[i].text = jobs[i].text
      BY <1>2, <1>3, <1>10
    <3>2. QED
      BY <1>1, <1>2, <1>9, <1>10, <2>1, <3>1 DEF Parsed
  <2>3. jobs[w].at = "Sleep" => jobs'[w].at = "Sleep"
    BY <1>2, <1>3, <1>10
  <2>4. QED
    BY <1>3, <1>7, <1>9, <1>10, <2>1, <2>2, <2>3
<1> USE DEF JobType, indexVars, SemUnchanged
<1>11. CASE TreeChecks(j) \/ TreeStores(j) \/ Indexed(j) \/ Promotes(j) \/ Diagnoses(j)
            \/ FinalCheck(j) \/ Publishes(j)
  <2>1. UNCHANGED <<parse_queue, files>> /\ jobs'[j].work = jobs[j].work
        /\ (jobs[j].at \in {"Read", "Sleep"} => jobs'[j].at = jobs[j].at)
    BY <1>1, <1>11 DEF TreeChecks, TreeStores, Indexed, Promotes, Diagnoses, FinalCheck, Publishes, Step
  <2>2. QED
    <3>1. CASE jobs[j].at # "Read"
      BY <1>10, <2>1, <3>1
    <3>2. CASE jobs[j].at = "Read"
      <4>1. jobs'[j].text = jobs[j].text /\ jobs'[j].at = "Read"
        BY <1>1, <1>11, <2>1, <3>2 DEF TreeChecks, TreeStores, Indexed, Promotes, Diagnoses,
           FinalCheck, Publishes, Step
      <4>2. \A k \in DOMAIN parse_queue : parse_queue[k] \in Jobs /\ parse_queue[k] # j
        BY <3>2, InLine, AllInJobs DEF LineInv
      <4>3. (AllQueued => AllQueued') /\ (Waiting(w) => Waiting(w)')
        BY <1>2, <2>1, <4>2 DEF AllQueued, Waiting, QueuedText
      <4>4. j # w /\ jobs'[w] = jobs[w]
        BY <1>2, <1>3, <1>5, <3>2
      <4>5. \A i \in Jobs : (IsActive(i)' <=> IsActive(i)) /\ jobs'[i].text = jobs[i].text
        BY <1>2, <2>1, <4>1 DEF IsActive
      <4>6. Parsed(w) => Parsed(w)'
        BY <1>1, <1>2, <2>1, <4>3, <4>4, <4>5 DEF Parsed
      <4>7. QED
        BY <1>3, <1>7, <4>3, <4>4, <4>5, <4>6
    <3>3. QED
      BY <3>1, <3>2
<1>12. ASSUME IsActive(j)
       PROVE  /\ \A i \in Jobs : i # j => ~IsActive(i)
              /\ jobs[j].at \notin {"Read", "Sleep"} /\ jobs'[j].text = jobs[j].text
  BY <1>1, <1>2, <1>12, OneActive DEF IsActive, Fits
<1>13. ASSUME IsActive(j), UNCHANGED <<parse_queue>>, jobs'[j].at = jobs[j].at,
              UNCHANGED files \/ files' = jobs[j].text,
              w # j \/ (jobs'[w].work = "Done" => files' = client),
              IsActive(j)' \/ jobs'[j].work = "Done"
       PROVE  Anchor(w)'
  <2>1. (AllQueued => AllQueued') /\ (Waiting(w) => Waiting(w)')
    BY <1>9, <1>12, <1>13
  <2>2. jobs[w].at = "Sleep" => jobs'[w].at = "Sleep"
    BY <1>2, <1>3, <1>13
  <2>3. \A i \in Jobs : IsActive(i)' => i = j
    BY <1>2, <1>12, <1>13 DEF IsActive
  <2>4. CASE Parsed(w)
    <3>1. w # j /\ jobs'[w].work = "Done" /\ AllQueued'
      BY <1>2, <1>3, <1>13, <2>1, <2>4 DEF Parsed, IsActive
    <3>2. jobs[j].text = client
      BY <1>13, <2>4 DEF Parsed
    <3>3. files' = client
      BY <1>13, <2>4, <3>2 DEF Parsed
    <3>4. \A i \in Jobs' : IsActive(i)' => jobs'[i].text = client'
      BY <1>1, <1>2, <1>12, <1>13, <2>3, <3>2
    <3>5. Parsed(w)'
      BY <1>2, <3>1, <3>3, <3>4 DEF Parsed
    <3>6. QED
      BY <1>7, <3>5
  <2>5. CASE IsActive(w) /\ AllQueued
    <3>1. w = j /\ AllQueued'
      BY <1>3, <1>12, <1>13, <2>1, <2>5
    <3>2. CASE IsActive(j)'
      BY <1>7, <3>1, <3>2
    <3>3. CASE jobs'[j].work = "Done"
      <4>1. \A i \in Jobs' : ~IsActive(i)'
        BY <1>1, <2>3, <3>3 DEF IsActive
      <4>2. Parsed(w)'
        BY <1>2, <1>13, <3>1, <3>3, <4>1 DEF Parsed
      <4>3. QED
        BY <1>7, <4>2
    <3>4. QED
      BY <1>13, <3>2, <3>3
  <2>6. QED
    BY <1>3, <1>7, <2>1, <2>2, <2>4, <2>5
<1>14. CASE WorkGuard(j)
  BY <1>1, <1>2, <1>4, <1>13, <1>14 DEF WorkGuard, Work, IsActive
<1>15. CASE WorkHash(j)
  <2>1. /\ IsActive(j) /\ UNCHANGED <<parse_queue, files>> /\ jobs'[j].at = jobs[j].at
        /\ jobs[j].work = "Hash"
        /\ jobs'[j].work = IF IsIndexed(jobs[j].text) THEN "Done" ELSE "Store"
    BY <1>1, <1>15 DEF WorkHash, Work, IsActive
  <2>2. content_hash = files
    BY <1>12, <2>1 DEF HashInv, IsActive
  <2>3. w = j /\ jobs'[w].work = "Done" => files' = client
    BY <1>3, <2>1, <2>2 DEF IsIndexed
  <2>4. QED
    BY <1>13, <2>1, <2>3 DEF IsActive
<1>16. CASE WorkStoresHash(j)
  BY <1>1, <1>13, <1>16 DEF WorkStoresHash, Work, IsActive
<1>17. CASE WorkStoresFile(j)
  BY <1>1, <1>3, <1>13, <1>17 DEF WorkStoresFile, IsActive
<1>18. CASE Wakes(j)
  <2>1. jobs[j].at = "Sleep" /\ jobs'[j].at = "Queued" /\ parse_queue' = Append(parse_queue, j)
        /\ UNCHANGED files
    BY <1>1, <1>18 DEF Wakes, Step
  <2>2. j = pending_reindex
    BY <1>1, <2>1 DEF Fits, JobKinds
  <2>3. j = w
    BY <1>1, <1>3, <2>2 DEF None
  <2>4. /\ Len(parse_queue) + 1 \in DOMAIN parse_queue' /\ Len(parse_queue) \in Nat
        /\ parse_queue'[Len(parse_queue) + 1] = j
        /\ \A l \in DOMAIN parse_queue' : l >= Len(parse_queue) + 1 => l = Len(parse_queue) + 1
    BY <2>1, InLine
  <2>5. Waiting(w)'
    BY <1>2, <1>5, <2>3, <2>4 DEF Waiting, QueuedText
  <2>6. QED
    BY <1>7, <2>5
<1>19. CASE DiskReads(j)
  <2>1. jobs[j].at = "Read" /\ UNCHANGED files /\ jobs'[j].work = jobs[j].work /\ jobs[j].work = "None"
        /\ jobs'[j].text = disk
        /\ parse_queue' = IF disk = NoText THEN parse_queue ELSE Append(parse_queue, j)
    BY <1>1, <1>19 DEF DiskReads, Fits
  <2>2. j # w /\ jobs'[w] = jobs[w]
    BY <1>2, <1>3, <1>5, <2>1
  <2>3. CASE jobs[w].at = "Sleep"
    BY <1>7, <2>2, <2>3
  <2>4. CASE jobs[w].at # "Sleep"
    <3>1. disk \in {client, NoText}
      <4>1. ~Followed
        BY DEF Followed, IsLast, NoWords, SavesOnly
      <4>2. ~Overtaken
        BY <1>3, <2>1, <2>4 DEF Overtaken
      <4>3. QED
        BY <4>1, <4>2 DEF DiskInv
    <3>2. \A k \in DOMAIN parse_queue : /\ parse_queue[k] \in Jobs /\ parse_queue[k] # j
                                        /\ jobs'[parse_queue[k]].text = jobs[parse_queue[k]].text
      BY <1>2, <2>1, InLine, AllInJobs DEF LineInv
    <3>3. /\ DOMAIN parse_queue' \subseteq DOMAIN parse_queue \cup {Len(parse_queue) + 1}
          /\ DOMAIN parse_queue \subseteq DOMAIN parse_queue'
          /\ \A k \in DOMAIN parse_queue : k \in Nat /\ parse_queue'[k] = parse_queue[k]
          /\ Len(parse_queue) + 1 \in DOMAIN parse_queue' =>
               parse_queue'[Len(parse_queue) + 1] = j /\ disk = client
      BY <2>1, <3>1, InLine
    <3>4. \A l \in DOMAIN parse_queue' :
            \/ l \in DOMAIN parse_queue /\ QueuedText(l)' = QueuedText(l)
            \/ QueuedText(l)' = client
      BY <2>1, <3>2, <3>3 DEF QueuedText
    <3>5. AllQueued => AllQueued'
      BY <1>2, <3>4 DEF AllQueued
    <3>6. Waiting(w) => Waiting(w)'
      BY <1>2, <3>3, <3>4 DEF Waiting
    <3>7. \A i \in Jobs : IsActive(i)' => IsActive(i) /\ jobs'[i] = jobs[i]
      BY <1>2, <2>1 DEF IsActive
    <3>8. Parsed(w) => Parsed(w)'
      BY <1>1, <1>2, <2>1, <2>2, <3>5, <3>7 DEF Parsed
    <3>9. IsActive(w) => IsActive(w)'
      BY <2>2 DEF IsActive
    <3>10. QED
      BY <1>3, <1>7, <2>4, <3>5, <3>6, <3>8, <3>9
  <2>5. QED
    BY <2>3, <2>4
<1>20. CASE Acquires(j)
  <2>1. /\ parse_free > 0 /\ Withdraw(j) /\ UNCHANGED files
        /\ jobs[j].at = "Queued" /\ jobs[j].work = "None"
        /\ 1 \in DOMAIN parse_queue /\ parse_queue[1] = j
        /\ jobs'[j].work \in {"Guard", "Hash"}
    BY <1>1, <1>20, HeadWaits DEF Acquires
  <2>2. (\A i \in Jobs : ~IsActive(i)) /\ IsActive(j)' /\ jobs'[j].text = jobs[j].text
    BY <1>2, <2>1, OneActive DEF IsActive
  <2>3. parse_queue' = Taken(1)
    BY <2>1, WithdrawDoes DEF LineInv
  <2>4. /\ \A i \in DOMAIN parse_queue' : i >= 1 /\ i \in Nat /\ i + 1 \in DOMAIN parse_queue
                                          /\ parse_queue'[i] = parse_queue[i + 1]
        /\ \A i \in DOMAIN parse_queue : i \in Nat /\ (i > 1 => i - 1 \in DOMAIN parse_queue')
    BY <2>1, <2>3, TakenFrom, InLine
  <2>5. \A i \in DOMAIN parse_queue' : QueuedText(i)' = QueuedText(i + 1)
    <3>1. \A i \in Jobs : jobs'[i].text = jobs[i].text
      BY <1>2, <2>2
    <3>2. \A k \in DOMAIN parse_queue : parse_queue[k] \in Jobs
      BY InLine, AllInJobs
    <3>3. QED
      BY <2>4, <3>1, <3>2 DEF QueuedText
  <2>6. AllQueued => AllQueued' /\ jobs[j].text = client
    BY <1>2, <2>1, <2>4, <2>5 DEF AllQueued, QueuedText
  <2>7. CASE jobs[w].at = "Sleep"
    BY <1>2, <1>3, <1>7, <2>1, <2>7
  <2>8. CASE Waiting(w)
    <3>1. PICK k \in DOMAIN parse_queue :
            parse_queue[k] = w /\ \A l \in DOMAIN parse_queue : l >= k => QueuedText(l) = client
      BY <2>8 DEF Waiting
    <3>2. CASE k = 1
      <4>1. w = j
        BY <2>1, <3>1, <3>2
      <4>2. AllQueued
        BY <2>4, <3>1, <3>2, InLine DEF AllQueued
      <4>3. QED
        BY <1>7, <2>2, <2>6, <4>1, <4>2
    <3>3. CASE k # 1
      <4>1. k \in Nat /\ k > 1 /\ k - 1 \in DOMAIN parse_queue' /\ k - 1 + 1 = k
        BY <2>4, <3>1, <3>3, InLine
      <4>2. parse_queue'[k - 1] = w
        BY <2>4, <3>1, <4>1
      <4>3. \A l \in DOMAIN parse_queue' : l >= k - 1 => QueuedText(l)' = client
        <5>1. \A l \in DOMAIN parse_queue' : l >= k - 1 => l + 1 >= k /\ l + 1 \in DOMAIN parse_queue
          BY <2>4, <4>1
        <5>2. QED
          BY <2>5, <3>1, <5>1
      <4>4. Waiting(w)'
        BY <1>2, <4>1, <4>2, <4>3 DEF Waiting
      <4>5. QED
        BY <1>7, <4>4
    <3>4. QED
      BY <3>2, <3>3
  <2>9. CASE Parsed(w)
    <3>1. w # j /\ jobs'[w] = jobs[w]
      BY <1>2, <1>3, <2>1, <2>9 DEF Parsed
    <3>2. \A i \in Jobs : IsActive(i)' => i = j
      BY <1>2, <2>2 DEF IsActive
    <3>3. Parsed(w)'
      BY <1>1, <1>2, <2>1, <2>2, <2>6, <2>9, <3>1, <3>2 DEF Parsed
    <3>4. QED
      BY <1>7, <3>3
  <2>10. QED
    BY <1>3, <2>2, <2>7, <2>8, <2>9
<1>21. QED
  BY <1>11, <1>14, <1>15, <1>16, <1>17, <1>18, <1>19, <1>20 DEF Job

(* What becomes of the words handled last.                                 *)
LEMMA LastWordHandled ==
  ASSUME Typed, InboxInv, TurnsInv, OpenStoresTree \/ HandleChanged, NoWords'
  PROVE  /\ Head(inbox).text = client /\ Head(inbox).text # NoText
         /\ OpenStoresTree => pending_reindex = None
<1>1. /\ inbox # <<>> /\ inbox' = Tail(inbox) /\ Head(inbox).kind \in {"Opened", "Changed"}
      /\ OpenStoresTree => Head(inbox).kind = "Opened"
  BY DEF OpenStoresTree, HandleChanged, Takes, Done, InboxInv
<1>2. 1 \in DOMAIN inbox /\ Head(inbox) = inbox[1] /\ \A m \in DOMAIN inbox : ~(m < 1)
  BY <1>1, Leaves DEF Typed
<1>3. SavesOnly(inbox') => IsLast(inbox, 1)
  BY <1>1, <1>2, LeavesLast DEF Typed, SavesOnly
<1>4. QED
  BY <1>1, <1>2, <1>3 DEF InboxInv, TurnsInv, NoWords

(* The last word always has an anchor.                                     *)
LEMMA AnchorKept ==
  ASSUME Typed, Typed', InboxInv, TurnsInv, JobsInv, JobsInv', LineInv, PermitInv, PendingInv,
         Undisturbed, CalmInv, HashInv, DiskInv, AnchorInv, [Next /\ UNCHANGED scenario]_vars
  PROVE  AnchorInv'
<1>1. UNCHANGED scenario /\ Jobs' = Jobs /\ Jobs \subseteq Nat \ {0} /\ spawned \in Nat
      /\ spawned' \in Nat /\ jobs \in [Jobs -> JobType]
  BY SettingStands, Bounds DEF vars, Typed
<1>2. SUFFICES ASSUME client' # NoText, NoWords' PROVE \E w \in Jobs : Anchor(w)'
  BY <1>1 DEF AnchorInv
<1>3. CASE OpenStoresTree \/ HandleChanged
  <2>1. spawned' = spawned + 1 /\ spawned + 1 \in Jobs
    BY <1>1, <1>3, RoomForOne DEF OpenStoresTree, HandleChanged, Spawn
  <2>2. PICK w \in Jobs : w = spawned + 1
    BY <2>1
  <2>3. Anchor(w)'
    BY <1>1, <1>2, <1>3, <2>2, LastWordHandled, AnchorOpens, AnchorEdits
  <2>4. QED
    BY <2>3
<1>4. CASE ~OpenStoresTree /\ ~HandleChanged
  <2>1. /\ NoWords /\ UNCHANGED <<client, pending_reindex>>
        /\ ~HandleGone("Closed") /\ ~HandleGone("Deleted")
    BY <1>2, <1>4, WordsSettle
  <2>2. PICK w \in Jobs : Anchor(w)
    BY <1>2, <2>1 DEF AnchorInv
  <2>3. CASE \E j \in Jobs : Job(j)
    BY <1>1, <1>2, <2>1, <2>2, <2>3, AnchorJobKept
  <2>4. CASE ~(\E j \in Jobs : Job(j))
    <3>1. UNCHANGED files
      BY <2>4, CalmKept
    <3>2. /\ \A i \in Jobs : jobs'[i].work = jobs[i].work
          /\ \A i \in Jobs : i > spawned => jobs'[i].work = "None"
      BY <2>4, WorksStand
    <3>3. /\ UNCHANGED parse_queue /\ spawned' >= spawned
          /\ \A i \in 1..spawned : jobs'[i] = jobs[i]
      <4>1. CASE OffJobs
        BY <1>1, <4>1 DEF OffJobs
      <4>2. ASSUME NEW job \in {RepublishJob, [NoJob EXCEPT !.kind = "Disk", !.at = "Read"],
                                [NoJob EXCEPT !.kind = "Open", !.at = "Queued",
                                              !.text = Head(inbox).text]},
                   Spawn(jobs, job), job.kind = "Open" => OpenStoresTree,
                   job.kind # "Open" => parse_queue' = parse_queue
            PROVE  /\ UNCHANGED parse_queue /\ spawned' >= spawned
                   /\ \A i \in 1..spawned : jobs'[i] = jobs[i]
        <5>1. spawned' = spawned + 1 /\ UNCHANGED parse_queue
          BY <1>4, <4>2 DEF Spawn
        <5>2. \A i \in 1..spawned : i \in Jobs /\ i # spawned + 1
          BY <1>1, AllInJobs
        <5>3. \A i \in 1..spawned : jobs'[i] = jobs[i]
          BY <1>1, <4>2, <5>2 DEF Spawn
        <5>4. QED
          BY <1>1, <5>1, <5>3
      <4>3. QED
        BY <1>4, <2>1, <2>4, <4>1, <4>2, OtherSteps
    <3>4. \A i \in Jobs : i \notin 1..spawned => jobs'[i].work = "None"
      BY <1>1, <3>2
    <3>5. Anchor(w)'
      BY <1>1, <2>1, <2>2, <3>1, <3>3, <3>4, AnchorStands
    <3>6. QED
      BY <3>5
  <2>5. QED
    BY <2>3, <2>4
<1>5. QED
  BY <1>3, <1>4

(* The pending edit has the syntax errors of its own text.                 *)
LEMMA SyntaxKept ==
  ASSUME Typed, Typed', InboxInv, TurnsInv, JobsInv, JobsInv', LineInv, PendingInv,
         AnchorInv, SyntaxInv, [Next /\ UNCHANGED scenario]_vars
  PROVE  SyntaxInv'
<1>1. UNCHANGED scenario /\ Jobs' = Jobs /\ Jobs \subseteq Nat \ {0} /\ spawned \in Nat
      /\ jobs \in [Jobs -> JobType]
  BY SettingStands, Bounds DEF vars, Typed
<1> DEFINE Late == {"Semantic", "FinalCheck", "Publish", "Published"}
<1>2. SUFFICES ASSUME client' # NoText, NoWords', pending_reindex' # None,
                      jobs'[pending_reindex'].at \in Late
               PROVE  jobs'[pending_reindex'].syntax = client'
  BY DEF SyntaxInv
<1>3. ~HandleChanged
  <2>1. SUFFICES ASSUME HandleChanged PROVE FALSE
    OBVIOUS
  <2>2. PICK x \in Aborts(pending_reindex) :
          Spawn(x, [NoJob EXCEPT !.at = "Sleep", !.tree = "Check", !.text = Head(inbox).text,
                                 !.arc = CurrentArc, !.gen = CapturedGeneration])
    BY <2>1 DEF HandleChanged
  <2>3. spawned' = spawned + 1 /\ spawned + 1 \in Jobs /\ pending_reindex' = spawned'
    BY <1>1, <2>1, <2>2, RoomForOne DEF Spawn, HandleChanged
  <2>4. jobs'[pending_reindex'] =
          [NoJob EXCEPT !.at = "Sleep", !.tree = "Check", !.text = Head(inbox).text,
                        !.arc = CurrentArc, !.gen = CapturedGeneration]
    BY <2>2, <2>3, AbortDoes DEF Spawn
  <2>5. jobs'[pending_reindex'].at = "Sleep"
    BY <2>4 DEF NoJob
  <2>6. QED
    BY <1>2, <2>5
<1>4. ~OpenStoresTree
  BY <1>2, LastWordHandled DEF OpenStoresTree, genVars
<1>5. NoWords /\ UNCHANGED <<client, pending_reindex>>
      /\ ~HandleGone("Closed") /\ ~HandleGone("Deleted")
  BY <1>2, <1>3, <1>4, WordsSettle
<1> DEFINE p == pending_reindex
<1>6. p \in 1..spawned /\ p \in Jobs /\ p \in Nat /\ p # None
  <2>1. p \in 1..spawned
    BY <1>1, <1>2, <1>5 DEF Typed, None
  <2>2. QED
    BY <1>2, <1>5, <2>1, AllInJobs
<1>7. jobs[p] \in JobType /\ jobs[p].kind = "Edit"
  BY <1>1, <1>6 DEF PendingInv
<1>8. jobs[p].at \in Late => jobs[p].syntax = client
  BY <1>2, <1>5, <1>6 DEF SyntaxInv
<1>9. CASE ~(\E j \in Jobs : Job(j))
  <2>1. jobs'[p] = jobs[p]
    <3>1. CASE OffJobs
      BY <3>1 DEF OffJobs
    <3>2. ASSUME NEW job, Spawn(jobs, job)
          PROVE  jobs'[p] = jobs[p]
      <4>1. p # spawned + 1
        BY <1>1, <1>6
      <4>2. QED
        BY <1>1, <1>6, <3>2, <4>1 DEF Spawn
    <3>3. QED
      BY <1>3, <1>5, <1>9, <3>1, <3>2, OtherSteps
  <2>2. QED
    BY <1>2, <1>5, <1>8, <2>1
<1>10. ASSUME NEW j \in Jobs, Job(j)
       PROVE  jobs'[p].syntax = client
  <2>1. JobFrame(j)
    BY <1>1, <1>10, JobDoes
  <2>2. CASE j # p
    <3>1. jobs'[p] = jobs[p]
      BY <1>6, <2>1, <2>2 DEF JobFrame
    <3>2. QED
      BY <1>2, <1>5, <1>8, <3>1
  <2>3. CASE j = p
    <3>1. CASE Indexed(j)
      <4>1. jobs[p].at = "Indexing" /\ jobs[p].work = "Done" /\ jobs'[p].syntax = SyntaxNow(p)
        BY <1>7, <2>3, <3>1, <1>1 DEF Indexed, JobType
      <4>2. PICK w \in Jobs : Anchor(w)
        BY <1>2, <1>5 DEF AnchorInv
      <4>3. w = p
        BY <1>6, <4>2 DEF Anchor
      <4>4. ~Waiting(w) /\ ~IsActive(w)
        BY <4>1, <4>3 DEF Waiting, LineInv, IsActive
      <4>5. files = client /\ jobs[p].text = client
        BY <4>1, <4>2, <4>3, <4>4 DEF Anchor, Parsed
      <4>6. QED
        BY <4>1, <4>5 DEF SyntaxNow
    <3>2. CASE ~Indexed(j)
      <4>1. jobs'[p].syntax = jobs[p].syntax /\ (jobs'[p].at \in Late => jobs[p].at \in Late)
        <5> USE <1>1, <1>7, <2>3 DEF JobType
        <5>1. jobs[p].at # "Promote"
          BY <1>6 DEF PendingInv
        <5>2. CASE TreeChecks(j) \/ TreeStores(j)
          BY <5>2 DEF TreeChecks, TreeStores
        <5>3. CASE WorkGuard(j) \/ WorkHash(j) \/ WorkStoresHash(j) \/ WorkStoresFile(j)
          BY <5>3 DEF WorkGuard, WorkHash, WorkStoresHash, WorkStoresFile, Work
        <5>4. CASE Wakes(j) \/ DiskReads(j) \/ Acquires(j)
          BY <5>4 DEF Wakes, DiskReads, Acquires, Step
        <5>5. CASE Promotes(j) \/ Diagnoses(j)
          BY <5>1, <5>5 DEF Promotes, Diagnoses
        <5>6. CASE FinalCheck(j) \/ Publishes(j)
          BY <5>6 DEF FinalCheck, Publishes, Step
        <5>7. QED
          BY <1>10, <3>2, <5>2, <5>3, <5>4, <5>5, <5>6 DEF Job
      <4>2. QED
        BY <1>2, <1>5, <1>8, <4>1
    <3>3. QED
      BY <3>1, <3>2
  <2>4. QED
    BY <2>2, <2>3
<1>11. QED
  BY <1>5, <1>9, <1>10

(* Every step keeps what settles the index.                                *)
LEMMA SettlingKept ==
  ASSUME Typed, Typed', InboxInv, TurnsInv, JobsInv, JobsInv', LineInv, PermitInv, PendingInv,
         SettlingInv, [Next /\ UNCHANGED scenario]_vars
  PROVE  SettlingInv'
<1>1. Undisturbed' = Undisturbed
  BY SettingStands DEF vars
<1>2. QED
  BY <1>1, CalmKept, HashKept, DiskKept, AnchorKept, SyntaxKept DEF SettlingInv

-----------------------------------------------------------------------------
(* The live tree, and what fills the diagnostics of an opening in.         *)

(* The texts a document has had are those of its jobs and its events.      *)
LEMMA OwnTextIs ==
  ASSUME NEW t
  PROVE  t \in OwnText <=> \/ t = NoText
                           \/ \E j \in Jobs : jobs[j].kind \in {"Open", "Edit"} /\ t = jobs[j].text
                           \/ \E n \in DOMAIN inbox : t = inbox[n].text
BY DEF OwnText

(* The jobs that were there are there with their kinds and texts.          *)
LEMMA JobsRemain ==
  ASSUME Typed, Typed', JobsInv, JobsInv', [Next /\ UNCHANGED scenario]_vars
  PROVE  \A i \in Jobs :
           /\ i <= spawned => jobs'[i].kind = jobs[i].kind
           /\ i <= spawned /\ jobs[i].kind # "Disk" => jobs'[i].text = jobs[i].text
           /\ i > spawned => jobs[i].text = NoText
<1>1. UNCHANGED scenario /\ Jobs' = Jobs /\ Jobs \subseteq Nat \ {0} /\ spawned \in Nat
  BY SettingStands, Bounds DEF vars, Typed
<1>2. \A i \in Jobs : i > spawned => jobs[i].text = NoText
  BY <1>1 DEF JobsInv, Fits, NoJob
<1>3. CASE ~(\E j \in Jobs : Job(j))
  BY <1>2, <1>3, WorksStand
<1>4. ASSUME NEW j \in Jobs, Job(j)
      PROVE  \A i \in Jobs : /\ jobs'[i].kind = jobs[i].kind
                             /\ jobs[i].kind # "Disk" => jobs'[i].text = jobs[i].text
  <2>1. JobFrame(j)
    BY <1>1, <1>4, JobDoes
  <2>2. jobs[j].at = "Read" => jobs[j].kind = "Disk"
    BY DEF JobsInv, Fits
  <2>3. QED
    BY <2>1, <2>2 DEF JobFrame
<1>5. QED
  BY <1>2, <1>3, <1>4

(* A text that has been the document's remains one of its texts.           *)
LEMMA OwnTextRemains ==
  ASSUME Typed, Typed', InboxInv, TurnsInv, JobsInv, JobsInv', [Next /\ UNCHANGED scenario]_vars
  PROVE  OwnText \subseteq OwnText'
<1>1. UNCHANGED scenario /\ Jobs' = Jobs /\ Jobs \subseteq Nat \ {0} /\ spawned \in Nat
      /\ inbox \in Seq(EventType)
  BY SettingStands, Bounds DEF vars, Typed
<1>2. SUFFICES ASSUME NEW t, t \in OwnText, t # NoText PROVE t \in OwnText'
  BY DEF OwnText
<1>3. ASSUME NEW j \in Jobs, jobs[j].kind \in {"Open", "Edit"}, t = jobs[j].text
      PROVE  t \in OwnText'
  <2>1. j <= spawned
    BY <1>1, <1>2, <1>3, JobsRemain
  <2>2. jobs'[j].kind = jobs[j].kind /\ jobs'[j].text = t
    BY <1>3, <2>1, JobsRemain
  <2>3. QED
    BY <1>1, <1>3, <2>2 DEF OwnText
<1>4. ASSUME NEW n \in DOMAIN inbox, t = inbox[n].text
      PROVE  t \in OwnText'
  <2>1. inbox[n].kind \in {"Opened", "Changed"}
    BY <1>2, <1>4 DEF InboxInv
  <2>2. ASSUME n \in DOMAIN inbox', inbox'[n] = inbox[n]
        PROVE  t \in OwnText'
    BY <1>4, <2>2 DEF OwnText
  <2>3. CASE inbox' = inbox
    BY <2>2, <2>3
  <2>4. ASSUME NEW e \in EventType, inbox' = Append(inbox, e)
        PROVE  t \in OwnText'
    BY <1>1, <1>4, <2>2, <2>4, Arrives
  <2>5. CASE Editor
    <3>1. PICK k \in {"Opened", "Changed", "Saved", "Closed", "Deleted"}, x \in TextOrNone :
            inbox' = inbox \/ Send(k, x)
      BY <2>5 DEF Editor, DidOpen, DidChange, DidSave, DidClose, WatchedFileChanged,
                  WatchedFileDeleted, RequestBegins, JarDone, Reindex, actorVars, TextOrNone
    <3>2. PICK e \in EventType : e = [kind |-> k, text |-> x]
      BY DEF EventType
    <3>3. QED
      BY <2>3, <2>4, <3>1, <3>2 DEF Send
  <2>6. CASE HandleSaved \/ CloseClears
    <3>1. inbox # <<>> /\ Head(inbox).kind \notin {"Opened", "Changed"} /\ inbox' = Tail(inbox)
      BY <2>6 DEF HandleSaved, CloseClears, Takes, Done, InboxInv, Gone
    <3>2. n # 1
      BY <1>1, <2>1, <3>1, Leaves
    <3>3. n - 1 \in DOMAIN inbox' /\ inbox'[n - 1] = inbox[n]
      BY <1>1, <3>1, <3>2, Leaves
    <3>4. QED
      BY <1>4, <3>3 DEF OwnText
  <2>7. CASE OpenStoresTree \/ HandleChanged
    <3>1. inbox # <<>> /\ inbox' = Tail(inbox)
      BY <2>7 DEF OpenStoresTree, HandleChanged, Takes, Done, InboxInv
    <3>2. CASE n # 1
      <4>1. n - 1 \in DOMAIN inbox' /\ inbox'[n - 1] = inbox[n]
        BY <1>1, <3>1, <3>2, Leaves
      <4>2. QED
        BY <1>4, <4>1 DEF OwnText
    <3>3. CASE n = 1
      <4>1. t = Head(inbox).text
        BY <1>1, <1>4, <3>1, <3>3, Leaves
      <4>2. PICK b, job : /\ b \in [Jobs -> JobType] /\ Spawn(b, job)
                             /\ job.kind \in {"Open", "Edit"} /\ job.text = t
        <5>1. CASE OpenStoresTree
          <6>1. Spawn(jobs, [NoJob EXCEPT !.kind = "Open", !.at = "Queued", !.text = Head(inbox).text])
            BY <5>1 DEF OpenStoresTree
          <6>2. /\ [NoJob EXCEPT !.kind = "Open", !.at = "Queued", !.text = Head(inbox).text].kind = "Open"
                /\ [NoJob EXCEPT !.kind = "Open", !.at = "Queued", !.text = Head(inbox).text].text = t
            BY <4>1 DEF NoJob
          <6>3. jobs \in [Jobs -> JobType]
            BY DEF Typed
          <6>4. QED
            BY <6>1, <6>2, <6>3
        <5>2. CASE HandleChanged
          <6>1. PICK x \in Aborts(pending_reindex) :
                  Spawn(x, [NoJob EXCEPT !.at = "Sleep", !.tree = "Check", !.text = Head(inbox).text,
                                         !.arc = CurrentArc, !.gen = CapturedGeneration])
            BY <5>2 DEF HandleChanged
          <6>2. x \in [Jobs -> JobType]
            BY AbortDoes
          <6>3. /\ [NoJob EXCEPT !.at = "Sleep", !.tree = "Check", !.text = Head(inbox).text,
                                 !.arc = CurrentArc, !.gen = CapturedGeneration].kind = "Edit"
                /\ [NoJob EXCEPT !.at = "Sleep", !.tree = "Check", !.text = Head(inbox).text,
                                 !.arc = CurrentArc, !.gen = CapturedGeneration].text = t
            BY <4>1 DEF NoJob
          <6>4. QED
            BY <6>1, <6>2, <6>3
        <5>3. QED
          BY <2>7, <5>1, <5>2
      <4>3. spawned + 1 \in Jobs
        BY <1>1, <4>2, RoomForOne DEF Spawn
      <4>4. jobs'[spawned + 1] = job
        BY <4>2, <4>3 DEF Spawn
      <4>5. QED
        BY <1>1, <4>2, <4>3, <4>4 DEF OwnText
    <3>4. QED
      BY <3>2, <3>3
  <2>8. CASE HandleOpened \/ HandleGone("Closed") \/ HandleGone("Deleted") \/ OnBecameReady
    BY <2>3, <2>8 DEF HandleOpened, HandleGone, OnBecameReady, ScanStep
  <2>9. CASE Scan \/ RequestStores \/ Rest \/ UNCHANGED vars
    BY <2>3, <2>9 DEF Scan, ScanStep, ScanResets, ScanAcquires, ScanReads, ScanApplies, ScanInserts,
                      ScanReleases, RequestStores, Rest, vars, actorVars
  <2>10. ASSUME NEW j \in Jobs, Job(j)
         PROVE  t \in OwnText'
    <3>1. inbox' = inbox
      BY <1>1, <2>10, JobDoes DEF JobFrame
    <3>2. QED
      BY <2>3, <3>1
  <2>11. QED
    BY <2>5, <2>6, <2>7, <2>8, <2>9, <2>10, <2>3 DEF Next, Actor
<1>5. QED
  BY <1>2, <1>3, <1>4, OwnTextIs

(* A tree, a line or a request is of no text but these.                    *)
LEMMA TreeKept ==
  ASSUME Typed, Typed', InboxInv, TurnsInv, JobsInv, JobsInv', TreeInv,
         [Next /\ UNCHANGED scenario]_vars
  PROVE  TreeInv'
<1>1. UNCHANGED scenario /\ Jobs' = Jobs /\ Jobs \subseteq Nat \ {0} /\ spawned \in Nat
      /\ inbox \in Seq(EventType)
  BY SettingStands, Bounds DEF vars, Typed
<1>2. OwnText \subseteq OwnText' /\ NoText \in OwnText'
  BY OwnTextRemains DEF OwnText
<1>3. inbox # <<>> => 1 \in DOMAIN inbox /\ Head(inbox) = inbox[1]
  BY <1>1, Leaves
<1> USE DEF liveVars
<1>4. ASSUME NEW j \in Jobs, Job(j)
      PROVE  /\ UNCHANGED <<live_lines, request, scan, indexing>>
             /\ \/ live_tree' = live_tree
                \/ live_tree' \in OwnText /\ live_tree' # NoText
  <2>1. JobFrame(j)
    BY <1>1, <1>4, JobDoes
  <2>2. jobs[j].tree = "Store" => jobs[j].kind = "Edit" /\ jobs[j].text # NoText
    <3>1. Fits(j, jobs[j], spawned, pending_reindex)
      BY DEF JobsInv
    <3>2. jobs[j].tree = "Store" => j <= spawned
      BY <1>1, <3>1 DEF Fits, NoJob
    <3>3. QED
      BY <3>1, <3>2 DEF Fits
  <2>3. QED
    BY <2>1, <2>2 DEF JobFrame, OwnText
<1>5. /\ live_tree' \in OwnText' /\ live_lines' \in OwnText' /\ request' \in OwnText'
  <2>1. live_tree \in OwnText /\ live_lines \in OwnText /\ request \in OwnText
    BY DEF TreeInv
  <2>2. CASE Editor
    <3>1. ASSUME NEW text \in Texts, DidChange(text)
          PROVE  text \in OwnText'
      <4>1. PICK e \in EventType : e = [kind |-> "Changed", text |-> text]
        BY DEF EventType, TextOrNone
      <4>2. inbox' = Append(inbox, e) /\ e.text = text
        BY <3>1, <4>1 DEF DidChange, Send
      <4>3. Len(inbox) + 1 \in DOMAIN inbox' /\ inbox'[Len(inbox) + 1] = e
        BY <1>1, <4>2, Arrives
      <4>4. QED
        BY <4>2, <4>3 DEF OwnText
    <3>2. CASE \E text \in Texts : DidChange(text)
      BY <1>2, <2>1, <3>1, <3>2 DEF DidChange
    <3>3. CASE ~(\E text \in Texts : DidChange(text))
      BY <1>2, <2>1, <2>2, <3>3 DEF Editor, DidOpen, DidSave, DidClose, WatchedFileChanged,
         WatchedFileDeleted, RequestBegins, JarDone, Reindex
    <3>4. QED
      BY <3>2, <3>3
  <2>3. inbox # <<>> => Head(inbox).text \in OwnText
    BY <1>3 DEF OwnText
  <2>4. CASE Actor
    <3>1. handling = "Open" => inbox # <<>>
      BY DEF InboxInv
    <3>2. QED
      BY <1>2, <2>1, <2>3, <2>4, <3>1 DEF Actor, HandleOpened, OpenStoresTree, HandleChanged,
         LinesAfterChange, HandleSaved, HandleGone, CloseClears, OnBecameReady, ScanStep, Takes
  <2>5. CASE Scan \/ RequestStores \/ Rest \/ UNCHANGED vars
    BY <1>2, <2>1, <2>5 DEF Scan, ScanStep, ScanResets, ScanAcquires, ScanReads, ScanApplies,
       ScanInserts, ScanReleases, RequestStores, Rest, vars
  <2>6. CASE \E j \in Jobs : Job(j)
    BY <1>2, <1>4, <2>1, <2>6
  <2>7. QED
    BY <2>2, <2>4, <2>5, <2>6 DEF Next
<1>6. indexing' <=> scan' \in {"Read", "Apply", "Insert", "Release"}
  <2>1. indexing <=> scan \in {"Read", "Apply", "Insert", "Release"}
    BY DEF TreeInv
  <2> USE DEF scanVars
  <2>2. CASE Editor
    BY <2>1, <2>2 DEF Editor, DidOpen, DidChange, DidSave, DidClose, WatchedFileChanged,
       WatchedFileDeleted, RequestBegins, JarDone, Reindex
  <2>3. CASE Actor
    BY <2>1, <2>3 DEF Actor, HandleOpened, OpenStoresTree, HandleChanged,
       HandleSaved, HandleGone, CloseClears, OnBecameReady, ScanStep
  <2>4. CASE Scan \/ RequestStores \/ Rest \/ UNCHANGED vars
    BY <2>1, <2>4 DEF Scan, ScanStep, ScanResets, ScanAcquires, ScanReads, ScanApplies,
       ScanInserts, ScanReleases, RequestStores, Rest, vars
  <2>5. CASE \E j \in Jobs : Job(j)
    BY <1>4, <2>1, <2>5
  <2>6. QED
    BY <2>2, <2>3, <2>4, <2>5 DEF Next
<1>7. ASSUME client' # NoText, NoWords', pending_reindex' = None
      PROVE  live_tree' # NoText
  <2>1. CASE OpenStoresTree
    BY <1>7, <2>1, LastWordHandled DEF OpenStoresTree
  <2>2. CASE HandleChanged
    <3>1. spawned' = spawned + 1 /\ pending_reindex' = spawned'
      BY <2>2 DEF HandleChanged, Spawn
    <3>2. QED
      BY <1>1, <1>7, <3>1 DEF None
  <2>3. CASE ~OpenStoresTree /\ ~HandleChanged
    <3>1. NoWords /\ UNCHANGED <<client, pending_reindex>>
          /\ ~HandleGone("Closed") /\ ~HandleGone("Deleted") /\ ~CloseClears
      BY <1>7, <2>3, WordsSettle
    <3>2. live_tree # NoText
      BY <1>7, <3>1 DEF TreeInv
    <3>3. ~(\E text \in Texts : DidChange(text))
      BY <3>1 DEF DidChange
    <3>4. CASE Editor
      BY <3>2, <3>3, <3>4 DEF Editor, DidOpen, DidSave, DidClose, WatchedFileChanged,
         WatchedFileDeleted, RequestBegins, JarDone, Reindex
    <3>5. CASE Actor
      BY <2>3, <3>1, <3>2, <3>5 DEF Actor, HandleOpened, HandleSaved, OnBecameReady, ScanStep
    <3>6. CASE Scan \/ RequestStores \/ Rest \/ UNCHANGED vars
      BY <3>2, <3>6 DEF Scan, ScanStep, ScanResets, ScanAcquires, ScanReads, ScanApplies,
         ScanInserts, ScanReleases, RequestStores, Rest, vars
    <3>7. CASE \E j \in Jobs : Job(j)
      BY <1>4, <3>2, <3>7
    <3>8. QED
      BY <3>4, <3>5, <3>6, <3>7 DEF Next
  <2>4. QED
    BY <2>1, <2>2, <2>3
<1>8. QED
  BY <1>5, <1>6, <1>7 DEF TreeInv

(* A document with one text had one text before.                           *)
LEMMA OneTextStood ==
  ASSUME Typed, Typed', JobsInv, JobsInv', [Next /\ UNCHANGED scenario]_vars, UNCHANGED client,
         OneText'
  PROVE  OneText
<1>1. Jobs' = Jobs /\ Jobs \subseteq Nat \ {0} /\ spawned \in Nat
  BY SettingStands, Bounds DEF vars, Typed
<1>2. ASSUME NEW i \in Jobs, jobs[i].kind \in {"Open", "Edit"}
      PROVE  jobs[i].text \in {client, NoText}
  <2>1. CASE i <= spawned
    <3>1. jobs'[i].kind = jobs[i].kind /\ jobs'[i].text = jobs[i].text
      BY <1>2, <2>1, JobsRemain
    <3>2. QED
      BY <1>1, <1>2, <3>1 DEF OneText
  <2>2. CASE i > spawned
    BY <1>2, <2>2, JobsRemain
  <2>3. QED
    BY <1>1, <2>1, <2>2
<1>3. QED
  BY <1>2 DEF OneText

(* While there is one text the live tree can be of no other.               *)
LEMMA TreeOfTheText ==
  ASSUME InboxInv, TreeInv, client # NoText, NoWords, pending_reindex = None, OneText
  PROVE  live_tree = client
<1>1. live_tree # NoText /\ live_tree \in OwnText
  BY DEF TreeInv
<1>2. \A n \in DOMAIN inbox : inbox[n].text = NoText
  BY DEF InboxInv, NoWords, SavesOnly
<1>3. QED
  BY <1>1, <1>2 DEF OwnText, OneText

(* A republish that runs publishes what the live tree is of.               *)
LEMMA FillingJobKept ==
  ASSUME Typed, Typed', InboxInv, JobsInv, LineInv, TreeInv, client # NoText, NoWords,
         pending_reindex = None, OneText, NEW j \in Jobs, Job(j), UNCHANGED scenario, Filling
  PROVE  Filling'
<1>1. JobFrame(j) /\ Jobs' = Jobs /\ jobs[j] \in JobType /\ jobs \in [Jobs -> JobType]
      /\ Fits(j, jobs[j], spawned, pending_reindex)
  BY JobDoes, SettingStands DEF Typed, JobsInv
<1>2. PICK r \in Jobs : /\ jobs[r].kind = "Republish"
                        /\ \/ jobs[r].at \in {"Promote", "Semantic"}
                           \/ jobs[r].at \in {"Publish", "Published"} /\ jobs[r].semantic = client
  BY DEF Filling
<1>3. CASE r # j
  BY <1>1, <1>2, <1>3 DEF Filling, JobFrame
<1>4. CASE r = j
  <2>1. live_tree = client
    BY TreeOfTheText
  <2>2. jobs'[j].kind = "Republish" /\ client' = client /\ jobs[j].work = "None"
        /\ jobs[j].tree = "None"
    BY <1>1, <1>2, <1>4 DEF JobFrame, Fits
  <2>3. ~Acquires(j)
    BY <1>2, <1>4, HeadWaits
  <2>4. CASE Promotes(j)
    BY <1>1, <1>4, <2>2, <2>4 DEF Promotes, Filling, JobType
  <2>5. CASE Diagnoses(j)
    <3>1. jobs'[j].at = "Publish" /\ jobs'[j].semantic = live_tree
      BY <1>1, <1>2, <1>4, <2>5 DEF Diagnoses, JobType
    <3>2. QED
      BY <1>1, <2>1, <2>2, <3>1 DEF Filling
  <2>6. CASE Publishes(j)
    <3>1. jobs'[j].at = "Published" /\ jobs'[j].semantic = client
      BY <1>1, <1>2, <1>4, <2>6 DEF Publishes, Step, JobType
    <3>2. QED
      BY <1>1, <2>2, <3>1 DEF Filling
  <2>7. QED
    BY <1>2, <1>4, <2>2, <2>3, <2>4, <2>5, <2>6 DEF Job, TreeChecks, TreeStores, WorkGuard,
       WorkHash, WorkStoresHash, WorkStoresFile, Work, Wakes, DiskReads, Indexed, FinalCheck, Step
<1>5. QED
  BY <1>3, <1>4

(* A tree is there to be republished when the scan is over.                *)
LEMMA FillingStands ==
  ASSUME Typed, Typed', TreeInv, TreeInv', live_tree # NoText, UNCHANGED client,
         [Next /\ UNCHANGED scenario]_vars, ~(\E j \in Jobs : Job(j)),
         \A i \in 1..spawned : jobs'[i] = jobs[i],
         indexing \/ scan = "Ready" \/ Filling,
         JobsInv
  PROVE  indexing' \/ scan' = "Ready" \/ Filling'
<1>1. Jobs' = Jobs /\ Jobs \subseteq Nat \ {0} /\ spawned \in Nat
  BY SettingStands, Bounds DEF vars, Typed
<1>2. Filling => Filling'
  <2>1. \A r \in Jobs : jobs[r].kind = "Republish" => r \in 1..spawned
    BY <1>1 DEF JobsInv, Fits, NoJob
  <2>2. QED
    BY <1>1, <2>1 DEF Filling
<1>3. CASE indexing
  <2>1. scan \in {"Read", "Apply", "Insert", "Release"}
    BY <1>3 DEF TreeInv
  <2>2. scan' = scan \/ ScanReads \/ ScanApplies \/ ScanInserts \/ ScanReleases
    BY <2>1 DEF Next, Editor, DidOpen, DidChange, DidSave, DidClose, WatchedFileChanged,
       WatchedFileDeleted, RequestBegins, JarDone, Reindex, Actor, HandleOpened, OpenStoresTree,
       HandleChanged, HandleSaved, HandleGone, CloseClears, OnBecameReady, Scan, ScanStep, ScanResets,
       ScanAcquires, RequestStores, Rest, vars, scanVars
  <2>3. scan' \in {"Read", "Apply", "Insert", "Release"} \/ scan' = "Ready"
    BY <2>1, <2>2 DEF ScanReads, ScanApplies, ScanInserts, ScanReleases, ScanStep
  <2>4. QED
    BY <2>3 DEF TreeInv
<1>4. CASE scan = "Ready"
  <2>1. scan' = scan \/ OnBecameReady
    BY <1>4 DEF Next, Editor, DidOpen, DidChange, DidSave, DidClose, WatchedFileChanged,
       WatchedFileDeleted, RequestBegins, JarDone, Reindex, Actor, HandleOpened, OpenStoresTree,
       HandleChanged, HandleSaved, HandleGone, CloseClears, Scan, ScanStep, ScanResets, ScanReads,
       ScanApplies, ScanInserts, ScanReleases,
       ScanAcquires, RequestStores, Rest, vars, scanVars
  <2>2. CASE OnBecameReady
    <3>1. Spawn(jobs, RepublishJob)
      BY <2>2 DEF OnBecameReady
    <3>2. spawned + 1 \in Jobs
      BY <1>1, <3>1, RoomForOne DEF Spawn, vars
    <3>3. jobs'[spawned + 1] = RepublishJob
      BY <3>1, <3>2 DEF Spawn, Typed
    <3>4. RepublishJob.kind = "Republish" /\ RepublishJob.at = "Promote"
      BY DEF RepublishJob, NoJob
    <3>5. QED
      BY <1>1, <3>2, <3>3, <3>4 DEF Filling
  <2>3. QED
    BY <1>4, <2>1, <2>2
<1>5. QED
  BY <1>2, <1>3, <1>4

(* An opening that skips its diagnostics does so because of a scan that    *)
(* will republish them.                                                    *)
LEMMA OpeningJobKept ==
  ASSUME Typed, Typed', InboxInv, JobsInv, LineInv, TreeInv, TreeInv', client # NoText, NoWords,
         pending_reindex = None, OneText, NEW j \in Jobs, Job(j), UNCHANGED scenario,
         NEW w \in Jobs, Opening(w)
  PROVE  Opening(w)'
<1>1. /\ JobFrame(j) /\ Jobs' = Jobs /\ jobs[j] \in JobType /\ jobs \in [Jobs -> JobType]
      /\ Fits(j, jobs[j], spawned, pending_reindex)
  BY JobDoes, SettingStands DEF Typed, JobsInv
<1>2. /\ UNCHANGED <<client, spawned, indexing, scan>>
      /\ \A i \in Jobs : i # j => jobs'[i] = jobs[i]
      /\ jobs'[j].kind = jobs[j].kind
      /\ jobs[j].at # "Read" => jobs'[j].text = jobs[j].text
  BY <1>1 DEF JobFrame
<1>3. (indexing \/ scan = "Ready" \/ Filling) => (indexing' \/ scan' = "Ready" \/ Filling')
  BY <1>2, FillingJobKept
<1>4. CASE j # w
  BY <1>2, <1>3, <1>4 DEF Opening
<1>5. CASE j = w
  <2>1. /\ w \in 1..spawned /\ jobs[w].kind = "Open" /\ jobs[w].text = client
        /\ \/ jobs[w].at \in {"Queued", "Indexing", "Promote"}
           \/ jobs[w].at = "Semantic" /\ ~jobs[w].skip
           \/ jobs[w].at \in {"Publish", "Published"} /\ jobs[w].semantic = client
           \/ jobs[w].at \in {"Semantic", "Publish", "Published"}
              /\ (indexing \/ scan = "Ready" \/ Filling)
    BY DEF Opening
  <2>2. w \in 1..spawned' /\ jobs'[w].kind = "Open" /\ jobs'[w].text = client'
    BY <1>2, <1>5, <2>1
  <2>3. ASSUME \/ jobs'[w].at \in {"Queued", "Indexing", "Promote"}
               \/ jobs'[w].at = "Semantic" /\ ~jobs'[w].skip
               \/ jobs'[w].at \in {"Publish", "Published"} /\ jobs'[w].semantic = client
               \/ jobs'[w].at \in {"Semantic", "Publish", "Published"}
                  /\ (indexing \/ scan = "Ready" \/ Filling)
        PROVE  Opening(w)'
    BY <1>2, <1>3, <2>2, <2>3 DEF Opening
  <2> USE <1>1, <1>5, <2>1 DEF JobType
  <2>4. CASE TreeChecks(j) \/ TreeStores(j)
    BY <2>3, <2>4 DEF TreeChecks, TreeStores
  <2>5. CASE WorkGuard(j) \/ WorkHash(j) \/ WorkStoresHash(j) \/ WorkStoresFile(j)
    BY <2>3, <2>5 DEF WorkGuard, WorkHash, WorkStoresHash, WorkStoresFile, Work
  <2>6. CASE Wakes(j) \/ DiskReads(j) \/ FinalCheck(j)
    BY <2>6 DEF Wakes, DiskReads, FinalCheck, Step
  <2>7. CASE Acquires(j)
    BY <2>3, <2>7 DEF Acquires
  <2>8. CASE Indexed(j)
    BY <2>3, <2>8 DEF Indexed, AfterIndexing
  <2>9. CASE Promotes(j)
    <3>1. jobs'[w].at = "Semantic" /\ (jobs'[w].skip <=> indexing)
      <4>1. indexing \in BOOLEAN
        BY DEF Typed
      <4>2. QED
        BY <2>9, <4>1 DEF Promotes
    <3>2. QED
      BY <2>3, <3>1
  <2>10. CASE Diagnoses(j)
    <3>1. /\ jobs[w].at = "Semantic" /\ jobs'[w].at = "Publish"
          /\ ~jobs[w].skip => jobs'[w].semantic = client
      BY <2>10 DEF Diagnoses
    <3>2. QED
      BY <2>3, <3>1
  <2>11. CASE Publishes(j)
    BY <2>3, <2>11 DEF Publishes, Step
  <2>12. QED
    BY <2>4, <2>5, <2>6, <2>7, <2>8, <2>9, <2>10, <2>11 DEF Job
<1>6. QED
  BY <1>4, <1>5

(* Every step keeps an opening whose diagnostics are or will be filled in. *)
LEMMA FillKept ==
  ASSUME Typed, Typed', InboxInv, TurnsInv, JobsInv, JobsInv', LineInv, TreeInv, TreeInv', FillInv,
         [Next /\ UNCHANGED scenario]_vars
  PROVE  FillInv'
<1>1. UNCHANGED scenario /\ Jobs' = Jobs /\ Jobs \subseteq Nat \ {0} /\ spawned \in Nat
      /\ jobs \in [Jobs -> JobType]
  BY SettingStands, Bounds DEF vars, Typed
<1>2. SUFFICES ASSUME client' # NoText, NoWords', pending_reindex' = None, OneText'
               PROVE  \E w \in Jobs : Opening(w)'
  BY <1>1 DEF FillInv
<1>3. ~HandleChanged
  <2>1. HandleChanged => spawned' = spawned + 1 /\ pending_reindex' = spawned'
    BY DEF HandleChanged, Spawn
  <2>2. QED
    BY <1>1, <1>2, <2>1 DEF None
<1>4. CASE OpenStoresTree
  <2> DEFINE job == [NoJob EXCEPT !.kind = "Open", !.at = "Queued", !.text = Head(inbox).text]
  <2>1. Spawn(jobs, job) /\ UNCHANGED client
    BY <1>4 DEF OpenStoresTree, clientVars
  <2>2. Head(inbox).text = client
    BY <1>2, <1>4, LastWordHandled
  <2>3. job.kind = "Open" /\ job.text = client /\ job.at = "Queued"
    BY <2>2 DEF NoJob
  <2> HIDE DEF job
  <2>4. spawned' = spawned + 1 /\ spawned + 1 \in Jobs
    BY <1>1, <2>1, RoomForOne DEF Spawn
  <2>5. jobs'[spawned + 1] = job
    BY <1>1, <2>1, <2>4 DEF Spawn
  <2>6. PICK w \in Jobs : w = spawned + 1
    BY <2>4
  <2>7. Opening(w)'
    BY <1>1, <2>1, <2>3, <2>4, <2>5, <2>6 DEF Opening
  <2>8. QED
    BY <2>7
<1>5. CASE ~OpenStoresTree
  <2>1. /\ NoWords /\ UNCHANGED <<client, pending_reindex>>
        /\ ~HandleGone("Closed") /\ ~HandleGone("Deleted")
    BY <1>2, <1>3, <1>5, WordsSettle
  <2>2. OneText
    BY <1>2, <2>1, OneTextStood
  <2>3. PICK w \in Jobs : Opening(w)
    BY <1>2, <2>1, <2>2 DEF FillInv
  <2>4. CASE \E j \in Jobs : Job(j)
    BY <1>1, <1>2, <2>1, <2>2, <2>3, <2>4, OpeningJobKept
  <2>5. CASE ~(\E j \in Jobs : Job(j))
    <3>1. spawned' \in Nat /\ spawned' >= spawned /\ \A i \in 1..spawned : jobs'[i] = jobs[i]
      <4>1. CASE OffJobs
        BY <1>1, <4>1 DEF OffJobs
      <4>2. ASSUME NEW job, Spawn(jobs, job)
            PROVE  /\ spawned' \in Nat /\ spawned' >= spawned
                   /\ \A i \in 1..spawned : jobs'[i] = jobs[i]
        <5>1. \A i \in 1..spawned : i \in Jobs /\ i # spawned + 1
          BY <1>1, AllInJobs
        <5>2. QED
          BY <1>1, <4>2, <5>1 DEF Spawn
      <4>3. QED
        BY <1>3, <2>1, <2>5, <4>1, <4>2, OtherSteps
    <3>2. live_tree # NoText
      BY <1>2, <2>1 DEF TreeInv
    <3>3. (indexing \/ scan = "Ready" \/ Filling) => (indexing' \/ scan' = "Ready" \/ Filling')
      BY <2>1, <2>5, <3>1, <3>2, FillingStands
    <3>4. Opening(w)'
      BY <1>1, <2>1, <2>3, <3>1, <3>3 DEF Opening
    <3>5. QED
      BY <3>4
  <2>6. QED
    BY <2>4, <2>5
<1>6. QED
  BY <1>4, <1>5

-----------------------------------------------------------------------------
(* The first state.                                                        *)
LEMMA InitDocument ==
  ASSUME Init
  PROVE  DocumentInv
<1>1. scenario \in Scenarios /\ MaxEvents \in Nat /\ Permits \in Nat \ {0}
  BY Bounds DEF Init
<1>2. NoText \in TextOrNone /\ disk \in TextOrNone
  BY DocumentAssumption DEF Init, TextOrNone
<1>3. \A j \in Jobs : jobs[j] = NoJob
  BY DEF Init
<1>4. Typed
  <2>1. jobs \in [Jobs -> JobType]
    BY NoJobTyped DEF Init
  <2>2. /\ scan \in {"Idle", "Acquire"} /\ OwedBy(scan) <= 1 /\ OwedBy(scan) \in Nat
    BY DEF Init, OwedBy
  <2>3. /\ inbox \in Seq(EventType) /\ Len(inbox) = 0 /\ arcs \in Seq(Nat) /\ arc \in 0..Len(arcs)
        /\ parse_queue \in Seq(1..spawned) /\ spawned = 0 /\ pending_reindex \in 0..spawned
    BY DEF Init, None
  <2>4. published \in [syntax : TextOrNone, semantic : TextOrNone, by : 0..spawned]
    BY <1>2, <2>3 DEF Init, NoDiagnostics, None
  <2>5. WorldTyped
    BY <1>1, <1>2, <2>2 DEF Init, WorldTyped
  <2>6. events \in 0..MaxEvents /\ spawned + Len(inbox) + OwedBy(scan) <= events + 1
    BY <1>1, <2>2, <2>3 DEF Init
  <2>7. QED
    BY <2>1, <2>3, <2>4, <2>5, <2>6, TypedIs DEF TasksTyped, EventsTyped
<1>5. InboxInv /\ TurnsInv
  BY DEF Init, InboxInv, TurnsInv, NoWords, SavesOnly, IsLast, None
<1>6. JobsInv
  <2>1. Jobs \subseteq Nat \ {0} /\ spawned = 0
    BY <1>1, Bounds DEF Init
  <2>2. ASSUME NEW j \in Jobs
        PROVE  Fits(j, NoJob, spawned, pending_reindex)
    <3>1. j \in Nat \ {0} /\ ~(j <= spawned)
      BY <2>1
    <3>2. NoJob.at = "None" /\ NoJob.work = "None" /\ NoJob.tree = "None" /\ NoJob.kind = "Edit"
          /\ NoJob.skip = FALSE
      BY DEF NoJob
    <3>3. QED
      BY <3>1, <3>2 DEF Fits
  <2>3. QED
    BY <1>3, <2>2 DEF JobsInv
<1>7. PendingInv
  BY DEF Init, PendingInv
<1>8. LineInv /\ PermitInv
  <2>1. Active = {}
    BY <1>3 DEF Active, IsActive, NoJob
  <2>2. Cardinality(Active) = 0
    BY <2>1, FS_EmptySet
  <2>3. LineInv
    BY DEF Init, LineInv
  <2>4. QED
    BY <1>1, <2>2, <2>3 DEF Init, PermitInv
<1>9. SettlingInv
  <2>1. HashInv
    BY <1>3 DEF Init, HashInv, NoJob
  <2>2. Undisturbed => CalmInv
    BY DEF Init, CalmInv, Undisturbed
  <2>3. DiskInv /\ AnchorInv /\ SyntaxInv
    BY DEF Init, DiskInv, AnchorInv, SyntaxInv
  <2>4. QED
    BY <2>1, <2>2, <2>3 DEF SettlingInv
<1>10. TreeInv /\ FillInv
  BY DEF Init, TreeInv, FillInv, OwnText
<1>11. QED
  BY <1>4, <1>5, <1>6, <1>7, <1>8, <1>9, <1>10 DEF DocumentInv

(* The invariant is inductive.                                             *)
LEMMA NextDocument ==
  ASSUME DocumentInv, [Next /\ UNCHANGED scenario]_vars
  PROVE  DocumentInv'
<1> USE DEF DocumentInv
<1>1. Typed' /\ InboxInv' /\ TurnsInv'
  BY TypedKept, InboxKept
<1>2. JobsInv'
  BY <1>1, JobsKept
<1>3. LineInv' /\ PermitInv'
  BY <1>1, <1>2, LineKept
<1>4. PendingInv'
  BY <1>1, PendingKept
<1>5. SettlingInv'
  BY <1>1, <1>2, SettlingKept
<1>6. TreeInv'
  BY <1>1, <1>2, TreeKept
<1>7. FillInv'
  BY <1>1, <1>2, <1>6, FillKept
<1>8. QED
  BY <1>1, <1>2, <1>3, <1>4, <1>5, <1>6, <1>7

(* It holds in every state of every behaviour.                             *)
LEMMA DocumentHolds == Spec => []DocumentInv
<1>1. Init => DocumentInv
  BY InitDocument
<1>2. DocumentInv /\ [Next /\ UNCHANGED scenario]_vars => DocumentInv'
  BY NextDocument
<1>3. QED
  BY <1>1, <1>2, PTL DEF Spec

-----------------------------------------------------------------------------
(* Every variable has its type; the line is of jobs that were started and  *)
(* the free permits are at most those configured (parse_sem).              *)
THEOREM DocumentTyped == Spec => []TypeOK
<1>1. DocumentInv => TypeOK
  <2>1. SUFFICES ASSUME DocumentInv PROVE TypeOK
    OBVIOUS
  <2>2. Typed /\ PermitInv
    BY <2>1 DEF DocumentInv
  <2>3. spawned \in 0..(MaxEvents + 1)
    <3>1. /\ spawned + Len(inbox) + OwedBy(scan) <= events + 1
          /\ Len(inbox) \in Nat /\ events \in 0..MaxEvents /\ spawned \in Nat /\ MaxEvents \in Nat
      BY <2>2, Bounds DEF Typed
    <3>2. OwedBy(scan) \in Nat
      BY DEF OwedBy
    <3>3. QED
      BY <3>1, <3>2
  <2>4. parse_free \in 0..Permits
    <3>1. parse_free \in Nat /\ Cardinality(Active) \in Nat /\ Permits \in Nat
          /\ parse_free + Cardinality(Active) = Permits
      BY <2>2, ActiveFinite, Bounds DEF Typed, PermitInv
    <3>2. QED
      BY <3>1
  <2>5. \A n \in DOMAIN parse_queue : parse_queue[n] \in 1..spawned
    BY <2>2, InLine
  <2>6. \A n \in DOMAIN inbox : inbox[n] \in EventType
    BY <2>2 DEF Typed
  <2>7. QED
    BY <2>2, <2>3, <2>4, <2>5, <2>6 DEF TypeOK, Typed, EventType, JobType
<1>2. QED
  BY <1>1, DocumentHolds, PTL

(* Once every notification is handled live_lines, which the transport and  *)
(* the actor both write (set_live_lines), are the editor's text, or gone   *)
(* with a closed document: scans, watched files and parses that overlap    *)
(* included.                                                               *)
LinesFollow == Quiet => live_lines = client

(* LinesFollow holds in every behaviour, whatever the scenario.            *)
THEOREM LiveLinesFollow == Spec => []LinesFollow
<1>1. DocumentInv => LinesFollow
  BY DEF DocumentInv, InboxInv, NoWords, SavesOnly, Quiet, LinesFollow
<1>2. QED
  BY <1>1, DocumentHolds, PTL

(* When no job is left every permit of the parse semaphore is back: those  *)
(* of tasks that were aborted while they waited, and of closures that an   *)
(* abort left running.                                                     *)
PermitsReturned == (\A j \in Jobs : Over(j)) => parse_free = Permits

(* No permit of the parse semaphore is lost or used twice, whatever the    *)
(* scenario (parse_sem, whose permits move into the blocking closures).    *)
THEOREM NoPermitIsLost == Spec => []PermitsReturned
<1>1. DocumentInv => PermitsReturned
  <2>1. SUFFICES ASSUME DocumentInv, \A j \in Jobs : Over(j) PROVE parse_free = Permits
    BY DEF PermitsReturned
  <2>2. Active = {}
    BY <2>1 DEF Active, IsActive, Over
  <2>3. Cardinality(Active) = 0
    BY <2>2, FS_EmptySet
  <2>4. parse_free \in Nat /\ parse_free + Cardinality(Active) = Permits
    BY <2>1 DEF DocumentInv, Typed, PermitInv
  <2>5. QED
    BY <2>3, <2>4
<1>2. QED
  BY <1>1, DocumentHolds, PTL

(* The anchor of a quiet document has been parsed.                         *)
LEMMA QuietAnchor ==
  ASSUME DocumentInv, Quiet, Undisturbed, client # NoText
  PROVE  files = client
<1>1. NoWords
  BY DEF Quiet, NoWords, SavesOnly
<1>2. PICK w \in Jobs : Anchor(w)
  BY <1>1 DEF DocumentInv, SettlingInv, AnchorInv
<1>3. Over(w)
  BY DEF Quiet
<1>4. ~Waiting(w)
  <2>1. \A k \in DOMAIN parse_queue : jobs[parse_queue[k]].at = "Queued"
    BY DEF DocumentInv, LineInv
  <2>2. jobs[w].at # "Queued"
    BY <1>3 DEF Over
  <2>3. QED
    BY <2>1, <2>2 DEF Waiting
<1>5. QED
  BY <1>2, <1>3, <1>4 DEF Anchor, Parsed, Over, IsActive

(* With one permit and nothing beside the editor writing the index, the    *)
(* index of a quiet open document is of the editor's text: opens, edits,   *)
(* saves and aborted debounces whose closures still ran leave no other.    *)
THEOREM TheTextSettles == Spec => []TextSettles
<1>1. DocumentInv => TextSettles
  <2>1. SUFFICES ASSUME DocumentInv, Quiet, Undisturbed
                 PROVE  live_lines = client /\ (client # NoText => files = client)
    BY DEF TextSettles
  <2>2. live_lines = client
    BY <2>1 DEF DocumentInv, InboxInv, NoWords, SavesOnly, Quiet
  <2>3. QED
    BY <2>1, <2>2, QuietAnchor
<1>2. QED
  BY <1>1, DocumentHolds, PTL

(* A quiet document's pending edit has published.                          *)
LEMMA QuietEdit ==
  ASSUME DocumentInv, Quiet, pending_reindex # None
  PROVE  LET edit == jobs[pending_reindex] IN
           /\ edit.at = "Published" /\ edit.semantic = client /\ client # NoText
           /\ jobs[published.by].kind = "Edit" => published.by = pending_reindex
           /\ pending_reindex \in Jobs
<1>1. NoWords /\ inbox = <<>>
  BY DEF Quiet, NoWords, SavesOnly
<1>2. pending_reindex \in Jobs
  <2>1. Typed
    BY DEF DocumentInv
  <2>2. pending_reindex \in 1..spawned
    BY <2>1 DEF Typed, None
  <2>3. QED
    BY <2>1, <2>2, AllInJobs
<1>3. Over(pending_reindex)
  BY <1>2 DEF Quiet
<1>4. jobs[pending_reindex].at = "Published"
  BY <1>3 DEF DocumentInv, PendingInv, Over
<1>5. client # NoText
  BY <1>1 DEF DocumentInv, TurnsInv, InboxInv
<1>6. QED
  BY <1>1, <1>2, <1>4, <1>5 DEF DocumentInv, PendingInv

(* The edit that nothing cancelled has published its syntax and semantic   *)
(* diagnostics, of the editor's text, and no earlier edit published after  *)
(* it (schedule_reindex_and_diagnostics and its generation checks).        *)
THEOREM TheLastEditIsDiagnosed == Spec => []LastEditIsDiagnosed
<1>1. DocumentInv => LastEditIsDiagnosed
  <2>1. SUFFICES ASSUME DocumentInv, Quiet, Undisturbed, pending_reindex # None
                 PROVE  LET edit == jobs[pending_reindex]
                        IN  /\ edit.at = "Published" /\ edit.syntax = client /\ edit.semantic = client
                            /\ jobs[published.by].kind = "Edit" => published.by = pending_reindex
    BY DEF LastEditIsDiagnosed
  <2>2. NoWords
    BY <2>1 DEF Quiet, NoWords, SavesOnly
  <2>3. SyntaxInv
    BY <2>1 DEF DocumentInv, SettlingInv
  <2>4. QED
    BY <2>1, <2>2, <2>3, QuietEdit DEF SyntaxInv
<1>2. QED
  BY <1>1, DocumentHolds, PTL

(* Whatever a scan made an opening skip is published when it is over       *)
(* (on_became_ready), for a document with a pending edit or of one text.   *)
THEOREM DiagnosticsFilledIn == Spec => []SemanticsFilledIn
<1>1. DocumentInv => SemanticsFilledIn
  <2>1. SUFFICES ASSUME DocumentInv, Quiet, client # NoText, pending_reindex # None \/ OneText
                 PROVE  \E j \in Jobs : jobs[j].at = "Published" /\ jobs[j].semantic = client
    BY DEF SemanticsFilledIn
  <2>2. CASE pending_reindex # None
    BY <2>1, <2>2, QuietEdit
  <2>3. CASE pending_reindex = None
    <3>1. NoWords /\ scan = "Idle"
      BY <2>1 DEF Quiet, NoWords, SavesOnly
    <3>2. PICK w \in Jobs : Opening(w)
      BY <2>1, <2>3, <3>1 DEF DocumentInv, FillInv
    <3>3. ~indexing
      BY <2>1, <3>1 DEF DocumentInv, TreeInv
    <3>4. \A j \in Jobs : jobs[j].at \in {"None", "Done", "Published"}
      BY <2>1 DEF Quiet, Over
    <3>5. CASE jobs[w].semantic = client
      BY <3>2, <3>4, <3>5 DEF Opening
    <3>6. CASE Filling
      BY <3>4, <3>6 DEF Filling
    <3>7. QED
      BY <3>1, <3>2, <3>3, <3>4, <3>5, <3>6 DEF Opening
  <2>4. QED
    BY <2>2, <2>3
<1>2. QED
  BY <1>1, DocumentHolds, PTL

=============================================================================
