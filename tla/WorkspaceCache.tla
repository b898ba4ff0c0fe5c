---------------------------- MODULE WorkspaceCache ----------------------------
(* index.bin, the workspace index kept on disk between sessions:           *)
(* indexer/cache.rs, the discovery that trusts it (discover.rs) and the    *)
(* parts of a scan that read and write it (scan.rs).  One root.  Who scans *)
(* when is ScanCoordinator's subject; here the files change under the scan *)
(* at any step, clocks have seconds, and a session ends by a shutdown,     *)
(* which saves the index it has, or by a kill.                             *)
(*                                                                         *)
(* A file is known by the depth order in which discovery sorts paths, a    *)
(* text by its size and the rest of it.                                    *)
EXTENDS Naturals, FiniteSets, Folds, Functions

CONSTANTS
  Paths,             \* paths of source files, 1..n, shallowest first
  Texts,             \* contents: records with the field size
  OldText,           \* the text of the files found at the beginning
  Changing,          \* the paths whose files or documents change
  Unreliable,        \* the paths whose read or parse may fail
  Caps,              \* values of max a scan may get
  None,
  SavesWhileApplying,\* a shutdown may save while a scan applies its result
  MaxClock,          \* bound on the clock, in seconds
  MaxChanges,        \* bound on changes from outside
  MaxScans           \* bound on scans

ASSUME WorkspaceCacheAssumption ==
  /\ Paths \subseteq Nat /\ IsFiniteSet(Paths)
  /\ Changing \subseteq Paths /\ Unreliable \subseteq Paths
  /\ OldText \in Texts
  /\ \A t \in Texts : t.size \in Nat \ {0}
  /\ None \notin Texts
  /\ Caps \subseteq Nat
  /\ SavesWhileApplying \in BOOLEAN
  /\ {MaxClock, MaxChanges, MaxScans} \subseteq Nat

VARIABLES
  clock,
  disk,                \* of each path: None or its text and modification time
  index_bin,           \* the cache file: None or a record
  files,               \* Indexer.files: None or the text a file's data is of
  last_scan_complete,
  scan,                \* the running scan
  save,                \* a running save_cache
  changes, scans,      \* counters of the bounds
  touched,             \* paths changed, on disk or in the index, since the scan began
  apart,               \* paths changed since the scan that filled files began
  blurred,             \* paths whose entry was made of two versions of the file
  hidden               \* paths that came where warm discovery does not look,
                       \* or whose read or parse failed

vars == <<clock, disk, index_bin, files, last_scan_complete, scan, save,
          changes, scans, touched, apart, blurred, hidden>>

OnDisk == {p \in Paths : disk[p] # None}
Indexed == {p \in Paths : files[p] # None}
Times == 0..MaxClock

FileCacheEntry == [mtime : Times, size : Nat, text : Texts]
ASSUME NoneAssumption == None \notin FileCacheEntry
Manifest == [Paths -> FileCacheEntry \cup {None}]
NoEntries == [p \in Paths |-> None]
Entries(m) == {p \in Paths : m[p] # None}

Down    == [at |-> "Down", max |-> 0, cache |-> None, doubtful |-> {}, todo |-> {},
            found |-> {}, texts |-> NoEntries, truncated |-> FALSE, parsed |-> FALSE]
Idle    == [Down EXCEPT !.at = "Idle"]
NotSaving == [at |-> "No", allow_shrink |-> FALSE, complete |-> FALSE,
              entries |-> NoEntries, blurred |-> {}]

TypeOK ==
  /\ clock \in Times
  /\ disk \in [Paths -> [text : Texts, mtime : Times] \cup {None}]
  /\ index_bin = None \/ index_bin \in [complete_scan : BOOLEAN, mtime : Times,
                                        entries : Manifest]
  /\ files \in [Paths -> Texts \cup {None}]
  /\ last_scan_complete \in BOOLEAN
  /\ scan.at \in {"Down", "Idle", "Prepare", "Partition", "Parse",
                  "Finalize", "Apply", "Save"}
  /\ scan.at \in {"Down", "Idle"} => scan.found = {} /\ scan.todo = {}
  /\ scan.at # "Apply" => Entries(scan.texts) \cup scan.todo \subseteq scan.found
  /\ save.at \in {"No", "Stat", "Write"} /\ save.complete \in BOOLEAN
  /\ save.entries \in Manifest
  /\ save.at # "No" => (save.allow_shrink <=> scan.at = "Save")
  /\ changes \in 0..MaxChanges /\ scans \in 0..MaxScans
  /\ touched \cup apart \cup blurred \cup hidden \subseteq Paths

(* The workspace as some earlier tool left it; no cache yet.               *)
Init ==
  /\ clock = 0
  /\ disk \in [Paths -> [text : {OldText}, mtime : {0}] \cup {None}]
  /\ index_bin = None
  /\ files = NoEntries
  /\ last_scan_complete = FALSE
  /\ scan = Down /\ save = NotSaving
  /\ changes = 0 /\ scans = 0
  /\ touched = {} /\ apart = {} /\ blurred = {} /\ hidden = {}

----------------------------------------------------------------------------
(* Metadata, and when an entry answers for the file on disk.               *)

Mtime(p) == IF disk[p] = None THEN 0 ELSE disk[p].mtime
SavedSize(p) == IF disk[p] = None THEN 0 ELSE disk[p].text.size

(* Mutant: the modification time alone.                                    *)
IsHitByTime(entry, p) == disk[p] # None /\ entry # None /\ entry.mtime = disk[p].mtime
IsHit(entry, p) ==
  /\ entry # None /\ disk[p] # None       \* no file: the size read is u64::MAX
  /\ entry.mtime = disk[p].mtime
  /\ entry.size = disk[p].text.size

(* fd --changed-within: now - mtime(index.bin) + 2, in whole seconds.      *)
WindowStart == IF index_bin.mtime = 0 THEN 0 ELSE index_bin.mtime - 1

NewerThanCache == {p \in OnDisk : disk[p].mtime >= WindowStart}

WarmFiles(cache) == (Entries(cache.entries) \cap OnDisk) \cup NewerThanCache

Trusted(cache) == cache # None /\ cache.complete_scan

SizeOfManifest(m) == MapThenFoldSet(+, 0, LAMBDA p : m[p].size + 1, LAMBDA S : CHOOSE p \in S : TRUE,
                                    Entries(m))

Shallowest(S, n) == {p \in S : Cardinality({q \in S : q < p}) < n}

----------------------------------------------------------------------------
(* The scan.                                                               *)

OutsideScan == <<clock, disk, changes>>

Start(max) ==
  /\ scan.at \in {"Down", "Idle"} /\ scans < MaxScans
  /\ save.at = "No"
  /\ scan' = [Idle EXCEPT !.at = "Prepare", !.max = max]
  /\ scans' = scans + 1
  /\ touched' = {}
  /\ UNCHANGED <<OutsideScan, index_bin, files, last_scan_complete, save, apart, blurred, hidden>>

Truncated(cache, total) == ~Trusted(cache) /\ total > scan.max

(* prepare_scan.  The cache is None also when it does not parse or is of    *)
(* another version.                                                        *)
PrepareScan ==
  /\ scan.at = "Prepare"
  /\ \E cache \in {index_bin, None} :
       LET all == IF Trusted(cache) THEN WarmFiles(cache) ELSE OnDisk
           found == IF Trusted(cache) THEN all ELSE Shallowest(all, scan.max)
       IN scan' = [scan EXCEPT !.at = "Partition", !.max = 0, !.cache = cache, !.doubtful = blurred,
                               !.found = found,
                               !.truncated = Truncated(cache, Cardinality(all))]
  /\ UNCHANGED <<OutsideScan, index_bin, files, last_scan_complete, save, scans,
                 touched, apart, blurred, hidden>>

PartitionCacheHits ==
  /\ scan.at = "Partition"
  /\ LET hits == IF scan.cache = None THEN {}
                 ELSE {p \in scan.found : IsHit(scan.cache.entries[p], p)}
     IN /\ scan' = [scan EXCEPT !.at = "Parse", !.cache = None, !.doubtful = {},
                      !.todo = scan.found \ hits,
                      !.texts = [p \in Paths |-> IF p \in hits THEN scan.cache.entries[p].text
                                                 ELSE None]]
        /\ touched' = touched \cup (hits \cap scan.doubtful)
  /\ UNCHANGED <<OutsideScan, index_bin, files, last_scan_complete, save, scans,
                 apart, blurred, hidden>>

(* run_parse_phase.  parse_work_item leaves out a file that it cannot read *)
(* or whose parse panics, and build_workspace_result calls the scan        *)
(* complete all the same: the next warm discovery does not look for the    *)
(* file.  Each file is read on its own, which no property tells from       *)
(* reading all at once.                                                    *)
Parse(lost) ==
  LET read == (scan.todo \cap OnDisk) \ lost
  IN /\ scan' = [scan EXCEPT !.at = "Finalize", !.todo = {}, !.parsed = read # {},
                   !.texts = [p \in Paths |-> IF p \notin scan.todo THEN @[p]
                                              ELSE IF p \in read THEN disk[p].text
                                              ELSE None]]
     /\ hidden' = hidden \cup lost

RunParsePhase ==
  /\ scan.at = "Parse"
  /\ \E lost \in SUBSET (scan.todo \cap OnDisk \cap Unreliable) : Parse(lost)
  /\ UNCHANGED <<OutsideScan, index_bin, files, last_scan_complete, save, scans,
                 touched, apart, blurred>>

(* finalize_workspace_scan: the flag and the reset, then the files, then   *)
(* the cache.                                                              *)
FinalizeWith(kept) ==
  /\ scan.at = "Finalize"
  /\ save.at = "No" \/ SavesWhileApplying
  /\ last_scan_complete' = ~scan.truncated
  /\ files' = kept
  /\ scan' = [scan EXCEPT !.at = "Apply", !.found = {}, !.todo = Entries(scan.texts)]
  /\ apart' = touched
  /\ UNCHANGED <<OutsideScan, index_bin, save, scans, touched, blurred, hidden>>

(* Mutant: the files of the last scan stay.                                *)
FinalizeOverOld == FinalizeWith(files)
Finalize == FinalizeWith(NoEntries)

ApplyFile(p) ==
  /\ scan.at = "Apply" /\ p \in scan.todo
  /\ files' = [files EXCEPT ![p] = scan.texts[p]]
  /\ scan' = [scan EXCEPT !.todo = @ \ {p}]
  /\ UNCHANGED <<OutsideScan, index_bin, last_scan_complete, save, scans,
                 touched, apart, blurred, hidden>>

SavesAfterScan == scan.parsed \/ ~scan.truncated

Saving(allow_shrink) ==
  [NotSaving EXCEPT !.at = "Stat", !.allow_shrink = allow_shrink,
                    !.complete = last_scan_complete]

(* After the files: save, unless the scan was partial and parsed nothing.  *)
Applied ==
  /\ scan.at = "Apply" /\ scan.todo = {} /\ save.at = "No"
  /\ IF SavesAfterScan
     THEN scan' = [Idle EXCEPT !.at = "Save"] /\ save' = Saving(TRUE)
     ELSE scan' = Idle /\ UNCHANGED save
  /\ UNCHANGED <<OutsideScan, index_bin, files, last_scan_complete, scans,
                 touched, apart, blurred, hidden>>

----------------------------------------------------------------------------
(* save_cache: the metadata of the moment beside the data of the index.    *)

EntryFor(p) ==
  IF files[p] = None THEN None
  ELSE [mtime |-> Mtime(p), size |-> SavedSize(p), text |-> files[p]]

SaveStat ==
  /\ save.at = "Stat"
  /\ save' = [save EXCEPT !.at = "Write",
                !.entries = [p \in Paths |-> EntryFor(p)],
                !.blurred = {p \in Indexed \cap OnDisk \cap apart : disk[p].text # files[p]}]
  /\ UNCHANGED <<OutsideScan, index_bin, files, last_scan_complete, scan, scans,
                 touched, apart, blurred, hidden>>

(* Unless authoritative, a save does not replace a larger file.            *)
MayReplace ==
  \/ save.allow_shrink
  \/ index_bin = None
  \/ SizeOfManifest(index_bin.entries) <= SizeOfManifest(save.entries)

(* Discovery finds again what the cache lists; but a running scan that has *)
(* missed it, or a save of an index that lacks it, may forget it.          *)
ListedForGood ==
  IF scan.at \in {"Partition", "Parse", "Finalize", "Apply"} THEN {}
  ELSE Entries(save.entries) \cap Indexed

(* Temporary file and rename: a kill leaves the one file or the other.     *)
SaveWrite ==
  /\ save.at = "Write"
  /\ save' = NotSaving
  /\ scan' = IF scan.at = "Save" THEN Idle ELSE scan
  /\ IF MayReplace
     THEN /\ index_bin' = [complete_scan |-> save.complete, mtime |-> clock,
                           entries |-> save.entries]
          /\ blurred' = save.blurred
          /\ hidden' = hidden \ ListedForGood
     ELSE UNCHANGED <<index_bin, blurred, hidden>>
  /\ UNCHANGED <<OutsideScan, files, last_scan_complete, scans, touched, apart>>

ShutdownSaving(allow_shrink) ==
  /\ scan.at # "Down" /\ save.at = "No"
  /\ scan.at = "Apply" => SavesWhileApplying
  /\ save' = Saving(allow_shrink)
  /\ UNCHANGED <<OutsideScan, index_bin, files, last_scan_complete, scan, scans,
                 touched, apart, blurred, hidden>>

(* shutdown: save what the index holds, on another thread.                 *)
Shutdown == ShutdownSaving(FALSE)

(* exit, or a kill.                                                        *)
Exit ==
  /\ scan.at # "Down"
  /\ scan' = Down /\ save' = NotSaving
  /\ files' = NoEntries /\ last_scan_complete' = FALSE
  /\ UNCHANGED <<OutsideScan, index_bin, scans, touched, apart, blurred, hidden>>

----------------------------------------------------------------------------
(* The outside: the clock, other programs, and the editor's own documents. *)

Tick ==
  /\ clock < MaxClock
  /\ clock' = clock + 1
  /\ UNCHANGED <<disk, index_bin, files, last_scan_complete, scan, save, changes,
                 scans, touched, apart, blurred, hidden>>

Up == scan.at # "Down"

EntriesMade(p) ==
  {save.entries[p]} \cup (IF index_bin = None THEN {} ELSE {index_bin.entries[p]})
                   \cup (IF scan.cache = None THEN {} ELSE {scan.cache.entries[p]})

(* An entry, made before, with the stamp of another text.                  *)
Collides(p, version) ==
  \E e \in EntriesMade(p) \ {None} :
    e.mtime = version.mtime /\ e.size = version.text.size /\ e.text # version.text

Change(p, version) ==
  /\ changes < MaxChanges
  /\ changes' = changes + 1
  /\ version # disk[p]
  /\ disk' = [disk EXCEPT ![p] = version]
  /\ touched' = touched \cup {p} /\ apart' = apart \cup {p}
  /\ IF version # None /\ Collides(p, version)
     THEN /\ blurred' = blurred \cup {p}
          /\ save' = IF save.at = "Write" THEN [save EXCEPT !.blurred = @ \cup {p}] ELSE save
     ELSE UNCHANGED <<blurred, save>>
  /\ UNCHANGED <<clock, index_bin, files, last_scan_complete, scan, scans>>

Version(text, mtime) == [text |-> text, mtime |-> mtime]

(* An editor, a checkout or a build writes the file; while the server runs *)
(* a new file may never be announced to it.                                *)
Write(p, text) ==
  /\ Change(p, Version(text, clock))
  /\ hidden' = IF disk[p] = None /\ Up THEN hidden \cup {p} ELSE hidden

Delete(p) ==
  /\ Change(p, None)
  /\ hidden' = hidden \ {p}

Listed(p) == index_bin # None /\ index_bin.entries[p] # None

(* A move, or an archive extracted with its times.                         *)
MoveIn(p, text, mtime) ==
  /\ mtime < clock
  /\ Change(p, Version(text, mtime))
  /\ hidden' = IF disk[p] = None \/ ~Listed(p) THEN hidden \cup {p} ELSE hidden

(* A document with unsaved text is indexed (index_content).                *)
Edit(p, text) ==
  /\ Up /\ changes < MaxChanges
  /\ changes' = changes + 1
  /\ disk[p] # None
  /\ files' = [files EXCEPT ![p] = text]
  /\ touched' = touched \cup {p} /\ apart' = apart \cup {p}
  /\ UNCHANGED <<clock, disk, index_bin, last_scan_complete, scan, save, scans,
                 blurred, hidden>>

(* didChangeWatchedFiles: the file is read, or removed from the index.     *)
Watched(p) ==
  /\ Up /\ p \in touched
  /\ files[p] # IF disk[p] = None THEN None ELSE disk[p].text
  /\ files' = [files EXCEPT ![p] = IF disk[p] = None THEN None ELSE disk[p].text]
  /\ UNCHANGED <<OutsideScan, index_bin, last_scan_complete, scan, save, scans,
                 touched, apart, blurred, hidden>>

Outside ==
  \/ Tick
  \/ \E p \in Changing :
       \/ Delete(p) \/ Watched(p)
       \/ \E t \in Texts : Write(p, t) \/ Edit(p, t)
       \/ \E t \in Texts, m \in Times : MoveIn(p, t, m)

ScanStep ==
  \/ \E max \in Caps : Start(max)
  \/ PrepareScan \/ PartitionCacheHits \/ RunParsePhase \/ Finalize
  \/ \E p \in Paths : ApplyFile(p)
  \/ Applied

Next == ScanStep \/ SaveStat \/ SaveWrite \/ Shutdown \/ Exit \/ Outside

Spec == Init /\ [][Next]_vars

----------------------------------------------------------------------------
(* What the cache promises.                                                *)

(* An entry whose size and time are those of the file has the data of its  *)
(* text, unless the file or its document changed between parse and save,   *)
(* or took the same stamp with another text.                               *)
CacheTellsTruth ==
  index_bin # None =>
    \A p \in Entries(index_bin.entries) \ blurred :
      /\ disk[p] # None
      /\ index_bin.entries[p].mtime = disk[p].mtime
      /\ index_bin.entries[p].size = disk[p].text.size
      => index_bin.entries[p].text = disk[p].text

(* A scan that has ended, from whatever cache, leaves in the index what a  *)
(* cold scan would: each file's text on disk, and no deleted file; but a   *)
(* file that changed meanwhile, one that came where warm discovery does    *)
(* not look, and one that a scan once failed to read are excepted, the     *)
(* last two until a cache lists them.                                      *)
WarmScanIsCold ==
  scan.at = "Idle" /\ last_scan_complete =>
    \A p \in Paths \ (apart \cup hidden) :
      files[p] = IF disk[p] = None THEN None ELSE disk[p].text

=============================================================================
