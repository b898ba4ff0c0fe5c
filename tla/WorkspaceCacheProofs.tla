------------------------- MODULE WorkspaceCacheProofs -------------------------
(***************************************************************************)
(* What index.bin says is true, and a warm scan finds what a cold one      *)
(* would, for every set of files and texts, every clock and any number of  *)
(* changes, scans, saves and kills.                                        *)
(*                                                                         *)
(* TruthInv follows a text from the disk through a scan into the index and *)
(* from there through a save into the cache and back: at each station it   *)
(* is that of the disk, unless the file changed on the way.  DueInv does   *)
(* the same for the set of files: whatever is on disk and not hidden from  *)
(* warm discovery is on its way into the index and into every complete     *)
(* cache.                                                                  *)
(***************************************************************************)
EXTENDS WorkspaceCache, FiniteSetTheorems, TLAPS

CacheFile == [complete_scan : BOOLEAN, mtime : Times, entries : Manifest]
ScanSteps == {"Down", "Idle", "Prepare", "Partition", "Parse", "Finalize",
              "Apply", "Save"}
ScanRecord == [at : ScanSteps, max : Nat, cache : CacheFile \cup {None},
               doubtful : SUBSET Paths, todo : SUBSET Paths, found : SUBSET Paths,
               texts : [Paths -> Texts \cup {None}], truncated : BOOLEAN,
               parsed : BOOLEAN]
SaveRecord == [at : {"No", "Stat", "Write"}, allow_shrink : BOOLEAN,
               complete : BOOLEAN, entries : Manifest, blurred : SUBSET Paths]

(* The locals of the scan and of the save keep their types.                *)
LocalsTyped == scan \in ScanRecord /\ save \in SaveRecord

(* What is still to be read or installed, step by step.                    *)
StepInv ==
  /\ scan.at \in {"Down", "Idle", "Prepare", "Save"} =>
       scan.found = {} /\ scan.todo = {}
  /\ scan.at = "Finalize" => scan.todo = {}
  /\ scan.at = "Apply" => scan.todo \subseteq Entries(scan.texts)
  /\ scan.at = "Save" => save.at # "No"

CacheInv == TypeOK /\ LocalsTyped /\ StepInv

LEMMA NoEntriesTyped == NoEntries \in Manifest /\ NoEntries \in [Paths -> Texts \cup {None}]
BY DEF NoEntries, Manifest

LEMMA NoneListed == Entries(NoEntries) = {}
BY DEF Entries, NoEntries

LEMMA DownTyped ==
  /\ Down \in ScanRecord /\ Idle \in ScanRecord /\ NotSaving \in SaveRecord
  /\ Down.at = "Down" /\ Idle.at = "Idle" /\ NotSaving.at = "No"
  /\ Down.found = {} /\ Down.todo = {} /\ Entries(Down.texts) = {}
  /\ Idle.found = {} /\ Idle.todo = {} /\ Entries(Idle.texts) = {}
  /\ NotSaving.complete = FALSE /\ NotSaving.entries \in Manifest
<1>1. Down \in ScanRecord
  BY NoEntriesTyped DEF Down, ScanRecord, ScanSteps
<1>2. Idle \in ScanRecord
  BY <1>1 DEF Idle, ScanRecord, ScanSteps
<1>3. NotSaving \in SaveRecord
  BY NoEntriesTyped DEF NotSaving, SaveRecord
<1>4. QED
  BY <1>1, <1>2, <1>3, NoneListed, NoEntriesTyped DEF Down, Idle, NotSaving

LEMMA InitCache == Init => CacheInv
<1> SUFFICES ASSUME Init PROVE CacheInv
  OBVIOUS
<1>1. scan = Down /\ save = NotSaving
  BY DEF Init
<1>2. LocalsTyped /\ StepInv
  BY <1>1, DownTyped DEF LocalsTyped, StepInv
<1>3. /\ clock \in Times /\ index_bin = None
      /\ disk \in [Paths -> [text : Texts, mtime : Times] \cup {None}]
  BY WorkspaceCacheAssumption DEF Init, Times
<1>4. files \in [Paths -> Texts \cup {None}]
  BY NoEntriesTyped DEF Init
<1>5. /\ scan.at = "Down" /\ save.at = "No" /\ save.complete = FALSE
      /\ save.entries \in Manifest
      /\ Entries(scan.texts) = {} /\ scan.todo = {} /\ scan.found = {}
  BY <1>1, DownTyped
<1>6. /\ last_scan_complete = FALSE /\ changes \in 0..MaxChanges /\ scans \in 0..MaxScans
      /\ touched \cup apart \cup blurred \cup hidden \subseteq Paths
  BY WorkspaceCacheAssumption DEF Init
<1>7. TypeOK
  BY <1>3, <1>4, <1>5, <1>6 DEF TypeOK
<1>8. QED
  BY <1>2, <1>7 DEF CacheInv

(* A new text and time of a file, or none.                                 *)
VersionType == [text : Texts, mtime : Times] \cup {None}

(* The metadata of the moment fit an entry.                                *)
LEMMA EntryTyped ==
  ASSUME TypeOK, NEW p \in Paths
  PROVE  EntryFor(p) \in FileCacheEntry \cup {None}
<1>1. disk[p] \in VersionType /\ files[p] \in Texts \cup {None}
  BY DEF TypeOK, VersionType
<1>2. Mtime(p) \in Times
  BY <1>1, WorkspaceCacheAssumption DEF Mtime, VersionType, Times
<1>3. SavedSize(p) \in Nat
  BY <1>1, WorkspaceCacheAssumption DEF SavedSize, VersionType
<1>4. QED
  BY <1>1, <1>2, <1>3 DEF EntryFor, FileCacheEntry

(* What a change does, whatever the version.                               *)
LEMMA ChangeEffect ==
  ASSUME CacheInv, NEW p \in Paths, NEW version \in VersionType, Change(p, version)
  PROVE  /\ disk' = [disk EXCEPT ![p] = version]
         /\ disk' \in [Paths -> [text : Texts, mtime : Times] \cup {None}]
         /\ changes' \in 0..MaxChanges
         /\ touched' = touched \cup {p} /\ apart' = apart \cup {p}
         /\ blurred \subseteq blurred' /\ blurred' \subseteq blurred \cup {p}
         /\ version # None /\ Collides(p, version) => p \in blurred'
         /\ save' \in SaveRecord
         /\ save'.at = save.at /\ save'.allow_shrink = save.allow_shrink
         /\ save'.complete = save.complete /\ save'.entries = save.entries
         /\ save.blurred \subseteq save'.blurred
         /\ version # None /\ Collides(p, version) /\ save.at = "Write" =>
              p \in save'.blurred
         /\ UNCHANGED <<clock, index_bin, files, last_scan_complete, scan,
                        scans>>
<1>1. save \in SaveRecord
  BY DEF CacheInv, LocalsTyped
<1>2. disk' = [disk EXCEPT ![p] = version]
  BY DEF Change
<1>3. disk' \in [Paths -> [text : Texts, mtime : Times] \cup {None}]
  BY <1>2 DEF CacheInv, TypeOK, VersionType
<1>4. changes' \in 0..MaxChanges
  BY WorkspaceCacheAssumption DEF Change, CacheInv, TypeOK
<1>5. save' = save \/ save' = [save EXCEPT !.blurred = @ \cup {p}]
  BY DEF Change
<1>6. /\ save' \in SaveRecord
      /\ save'.at = save.at /\ save'.allow_shrink = save.allow_shrink
      /\ save'.complete = save.complete /\ save'.entries = save.entries
      /\ save.blurred \subseteq save'.blurred
  BY <1>1, <1>5 DEF SaveRecord
<1>7. version # None /\ Collides(p, version) /\ save.at = "Write" => p \in save'.blurred
  BY <1>1 DEF Change, SaveRecord
<1>8. QED
  BY <1>2, <1>3, <1>4, <1>6, <1>7 DEF Change

(* A change from outside is one of these.                                  *)
LEMMA ChangeKinds ==
  ASSUME CacheInv, NEW p \in Paths,
         \/ Delete(p)
         \/ \E t \in Texts : Write(p, t)
         \/ \E t \in Texts, m \in Times : MoveIn(p, t, m)
  PROVE  \E version \in VersionType :
           /\ Change(p, version)
           /\ \/ version = None /\ hidden' = hidden \ {p}
              \/ hidden' = hidden \cup {p}
              \/ /\ disk[p] # None \/ ~Up
                 /\ version.mtime = clock /\ hidden' = hidden
              \/ disk[p] # None /\ Listed(p) /\ hidden' = hidden
<1> DEFINE Kind(version) ==
             \/ version = None /\ hidden' = hidden \ {p}
             \/ hidden' = hidden \cup {p}
             \/ /\ disk[p] # None \/ ~Up
                /\ version.mtime = clock /\ hidden' = hidden
             \/ disk[p] # None /\ Listed(p) /\ hidden' = hidden
<1>1. CASE Delete(p)
  BY <1>1 DEF Delete, VersionType
<1>2. ASSUME NEW t \in Texts, NEW m \in Times
      PROVE  Version(t, m) \in VersionType /\ Version(t, m).mtime = m
  BY DEF Version, VersionType
<1>3. ASSUME NEW t \in Texts, Write(p, t)
      PROVE  Version(t, clock) \in VersionType /\ Change(p, Version(t, clock))
             /\ Kind(Version(t, clock))
  BY <1>2, <1>3 DEF Write, CacheInv, TypeOK
<1>4. ASSUME NEW t \in Texts, NEW m \in Times, MoveIn(p, t, m)
      PROVE  Version(t, m) \in VersionType /\ Change(p, Version(t, m)) /\ Kind(Version(t, m))
  BY <1>2, <1>4 DEF MoveIn
<1>5. QED
  BY <1>1, <1>3, <1>4
-----------------------------------------------------------------------------
(* Types.                                                                  *)

(* The mode of a save is that of the scan that waits for it.               *)
LEMMA RestOfType ==
  ASSUME CacheInv, UNCHANGED <<clock, disk, changes>>,
         index_bin' \in CacheFile \cup {None},
         files' \in [Paths -> Texts \cup {None}], last_scan_complete' \in BOOLEAN,
         scan' \in ScanRecord, save' \in SaveRecord, StepInv',
         scan'.at # "Apply" => Entries(scan'.texts) \cup scan'.todo \subseteq scan'.found,
         save'.at # "No" => (save'.allow_shrink <=> scan'.at = "Save"),
         scans' \in 0..MaxScans, hidden' \subseteq Paths,
         touched' \cup apart' \cup blurred' \subseteq Paths
  PROVE  CacheInv'
<1>1. /\ clock' \in Times /\ changes' \in 0..MaxChanges
      /\ disk' \in [Paths -> [text : Texts, mtime : Times] \cup {None}]
  BY DEF CacheInv, TypeOK
<1>2. scan'.at \in ScanSteps
  BY DEF ScanRecord
<1>3. /\ save'.at \in {"No", "Stat", "Write"} /\ save'.complete \in BOOLEAN
      /\ save'.entries \in Manifest
  BY DEF SaveRecord
<1>4. index_bin' = None \/ index_bin' \in CacheFile
  OBVIOUS
<1>5. scan'.at \in {"Down", "Idle"} => scan'.found = {} /\ scan'.todo = {}
  BY DEF StepInv
<1>6. TypeOK'
  BY <1>1, <1>2, <1>3, <1>4, <1>5 DEF TypeOK, CacheFile, ScanSteps
<1>7. QED
  BY <1>6 DEF CacheInv, LocalsTyped

LEMMA ScanCache ==
  ASSUME CacheInv, ScanStep
  PROVE  CacheInv'
<1> USE WorkspaceCacheAssumption
<1>1. /\ scan \in ScanRecord /\ save \in SaveRecord
      /\ index_bin \in CacheFile \cup {None}
      /\ files \in [Paths -> Texts \cup {None}] /\ last_scan_complete \in BOOLEAN
      /\ disk \in [Paths -> [text : Texts, mtime : Times] \cup {None}]
      /\ scan.at # "Apply" => Entries(scan.texts) \cup scan.todo \subseteq scan.found
      /\ save.at # "No" => (save.allow_shrink <=> scan.at = "Save")
      /\ scans \in 0..MaxScans
      /\ touched \subseteq Paths /\ apart \subseteq Paths /\ blurred \subseteq Paths
      /\ hidden \subseteq Paths
  BY DEF CacheInv, LocalsTyped, TypeOK, CacheFile
<1>2. StepInv
  BY DEF CacheInv
<1>3. ASSUME NEW max \in Caps, Start(max)
      PROVE  CacheInv'
  <2>1. scan' \in ScanRecord /\ scan'.at = "Prepare" /\ scan'.found = {}
        /\ scan'.todo = {} /\ scan'.texts = Idle.texts
    BY <1>3, DownTyped DEF Start, ScanRecord, ScanSteps
  <2>2. scans' \in 0..MaxScans
    BY <1>1, <1>3 DEF Start
  <2>3. /\ save.at = "No" /\ touched' = {}
        /\ UNCHANGED <<clock, disk, changes, index_bin, files,
                       last_scan_complete,
                       save, apart, blurred, hidden>>
    BY <1>3 DEF Start, OutsideScan
  <2>4. StepInv'
    BY <2>1 DEF StepInv
  <2>5. QED
    BY <1>1, <2>1, <2>2, <2>3, <2>4, DownTyped, RestOfType
<1>4. CASE PrepareScan
  <2>1. PICK cache \in {index_bin, None}, found \in SUBSET Paths, cut \in BOOLEAN :
          scan' = [scan EXCEPT !.at = "Partition", !.max = 0, !.cache = cache,
                               !.doubtful = blurred, !.found = found, !.truncated = cut]
    <3>1. \A cache, n : Truncated(cache, n) \in BOOLEAN
      BY Zenon DEF Truncated
    <3>2. \A cache : WarmFiles(cache) \subseteq Paths /\ Shallowest(OnDisk, scan.max) \subseteq Paths
      BY DEF WarmFiles, NewerThanCache, OnDisk, Shallowest
    <3>3. \A cache : Shallowest(WarmFiles(cache), scan.max) \subseteq Paths
      BY <3>2 DEF Shallowest
    <3>4. QED
      BY <1>4, <3>1, <3>2, <3>3 DEF PrepareScan
  <2>3. scan' \in ScanRecord /\ scan'.at = "Partition" /\ scan'.todo = scan.todo
        /\ scan'.texts = scan.texts
    BY <1>1, <2>1 DEF ScanRecord, ScanSteps
  <2>4. scan.at = "Prepare" /\ scan.todo = {} /\ Entries(scan.texts) = {}
    BY <1>1, <1>2, <1>4 DEF PrepareScan, StepInv
  <2>5. StepInv'
    BY <2>3 DEF StepInv
  <2>6. UNCHANGED <<clock, disk, changes, index_bin, files,
                    last_scan_complete,
                    save, scans, touched, apart, blurred, hidden>>
    BY <1>4 DEF PrepareScan, OutsideScan
  <2>7. QED
    BY <1>1, <2>3, <2>4, <2>5, <2>6, RestOfType
<1>5. CASE PartitionCacheHits
  <2> DEFINE hits == IF scan.cache = None THEN {}
                     ELSE {p \in scan.found : IsHit(scan.cache.entries[p], p)}
             texts == [p \in Paths |-> IF p \in hits THEN scan.cache.entries[p].text
                                       ELSE None]
  <2>1. /\ scan.at = "Partition"
        /\ scan' = [scan EXCEPT !.at = "Parse", !.cache = None, !.doubtful = {},
                                !.todo = scan.found \ hits, !.texts = texts]
        /\ touched' = touched \cup (hits \cap scan.doubtful)
        /\ UNCHANGED <<clock, disk, changes, index_bin, files,
                       last_scan_complete, save,
                       scans, apart, blurred, hidden>>
    BY <1>5 DEF PartitionCacheHits, OutsideScan
  <2>2. hits \subseteq scan.found /\ scan.found \subseteq Paths /\ scan.doubtful \subseteq Paths
    BY <1>1 DEF ScanRecord
  <2>3. ASSUME NEW p \in hits
        PROVE  scan.cache.entries[p].text \in Texts
    <3>1. scan.cache \in CacheFile /\ scan.cache.entries[p] # None /\ p \in Paths
      BY <1>1, <2>2 DEF ScanRecord, IsHit
    <3>2. QED
      BY <3>1 DEF CacheFile, Manifest, FileCacheEntry
  <2>4. texts \in [Paths -> Texts \cup {None}] /\ Entries(texts) \subseteq hits
    BY <2>3 DEF Entries
  <2> HIDE DEF hits, texts
  <2>5. scan' \in ScanRecord /\ scan'.at = "Parse" /\ scan'.todo = scan.found \ hits
        /\ scan'.texts = texts /\ scan'.found = scan.found
    BY <1>1, <2>1, <2>2, <2>4 DEF ScanRecord, ScanSteps
  <2>6. StepInv'
    BY <2>5 DEF StepInv
  <2>7. touched' \subseteq Paths
    BY <1>1, <2>1, <2>2
  <2>8. QED
    BY <1>1, <2>1, <2>2, <2>4, <2>5, <2>6, <2>7, RestOfType
<1>6. CASE RunParsePhase
  <2> PICK lost \in SUBSET (scan.todo \cap OnDisk \cap Unreliable) : Parse(lost)
    BY <1>6 DEF RunParsePhase
  <2> DEFINE read == (scan.todo \cap OnDisk) \ lost
             texts == [p \in Paths |-> IF p \notin scan.todo THEN scan.texts[p]
                                         ELSE IF p \in read THEN disk[p].text
                                         ELSE None]
             parsed == read # {}
  <2>1. /\ scan.at = "Parse"
        /\ scan' = [scan EXCEPT !.at = "Finalize", !.todo = {}, !.parsed = parsed,
                                !.texts = texts]
        /\ UNCHANGED <<clock, disk, changes, index_bin, files,
                       last_scan_complete, save,
                       scans, touched, apart, blurred>>
    BY <1>6 DEF RunParsePhase, Parse, OutsideScan
  <2>r. hidden' \subseteq Paths
    BY <1>1 DEF Parse, OnDisk
  <2>2. texts \in [Paths -> Texts \cup {None}]
    <3>1. scan.texts \in [Paths -> Texts \cup {None}]
      BY <1>1 DEF ScanRecord
    <3>2. \A p \in read : disk[p].text \in Texts
      BY <1>1 DEF OnDisk
    <3>3. QED
      BY <3>1, <3>2
  <2>3. Entries(texts) \subseteq Entries(scan.texts) \cup scan.todo
    BY DEF Entries
  <2>4. parsed \in BOOLEAN
    BY Zenon
  <2> HIDE DEF texts, parsed
  <2>5. scan' \in ScanRecord /\ scan'.at = "Finalize" /\ scan'.todo = {}
        /\ scan'.texts = texts /\ scan'.found = scan.found
    BY <1>1, <2>1, <2>2, <2>4 DEF ScanRecord, ScanSteps
  <2>6. StepInv'
    BY <2>5 DEF StepInv
  <2>7. QED
    BY <1>1, <2>1, <2>r, <2>3, <2>5, <2>6, RestOfType
<1>7. CASE Finalize
  <2>1. /\ scan.at = "Finalize" /\ files' = NoEntries /\ apart' = touched
        /\ last_scan_complete' = ~scan.truncated
        /\ scan' = [scan EXCEPT !.at = "Apply", !.found = {}, !.todo = Entries(scan.texts)]
        /\ UNCHANGED <<clock, disk, changes, index_bin, save, scans, touched,
                       blurred,
                       hidden>>
    BY <1>7 DEF Finalize, FinalizeWith, OutsideScan
  <2>2. Entries(scan.texts) \subseteq Paths
    BY DEF Entries
  <2>3. scan' \in ScanRecord /\ scan'.at = "Apply" /\ scan'.todo = Entries(scan.texts)
        /\ scan'.texts = scan.texts
    BY <1>1, <2>1, <2>2 DEF ScanRecord, ScanSteps
  <2>4. StepInv'
    BY <2>3 DEF StepInv
  <2>5. last_scan_complete' \in BOOLEAN
    BY <1>1, <2>1 DEF ScanRecord
  <2>6. QED
    BY <1>1, <2>1, <2>3, <2>4, <2>5, NoEntriesTyped, RestOfType
<1>8. ASSUME NEW p \in Paths, ApplyFile(p)
      PROVE  CacheInv'
  <2>1. /\ scan.at = "Apply" /\ p \in scan.todo
        /\ files' = [files EXCEPT ![p] = scan.texts[p]]
        /\ scan' = [scan EXCEPT !.todo = @ \ {p}]
        /\ UNCHANGED <<clock, disk, changes, index_bin, last_scan_complete,
                       save, scans,
                       touched, apart, blurred, hidden>>
    BY <1>8 DEF ApplyFile, OutsideScan
  <2>2. scan' \in ScanRecord /\ scan'.at = "Apply" /\ scan'.todo \subseteq scan.todo
        /\ scan'.texts = scan.texts
    BY <1>1, <2>1 DEF ScanRecord
  <2>3. StepInv'
    BY <1>2, <2>1, <2>2 DEF StepInv
  <2>4. files' \in [Paths -> Texts \cup {None}]
    BY <1>1, <2>1 DEF ScanRecord
  <2>5. QED
    BY <1>1, <2>1, <2>2, <2>3, <2>4, RestOfType
<1>9. CASE Applied
  <2>1. /\ save.at = "No"
        /\ \/ scan' = [Idle EXCEPT !.at = "Save"] /\ save' = Saving(TRUE)
           \/ scan' = Idle /\ save' = save
        /\ UNCHANGED <<clock, disk, changes, index_bin, files,
                       last_scan_complete, scans,
                       touched, apart, blurred, hidden>>
    BY <1>9 DEF Applied, OutsideScan
  <2>2. Saving(TRUE) \in SaveRecord /\ Saving(TRUE).at = "Stat"
        /\ Saving(TRUE).allow_shrink = TRUE
    BY <1>1, DownTyped DEF Saving, SaveRecord
  <2>3. /\ scan' \in ScanRecord /\ scan'.at \in {"Save", "Idle"}
        /\ scan'.found = {} /\ scan'.todo = {} /\ Entries(scan'.texts) = {}
        /\ scan'.at = "Save" => save' = Saving(TRUE)
        /\ scan'.at = "Idle" => save' = save
    BY <2>1, DownTyped DEF ScanRecord, ScanSteps
  <2>4. StepInv'
    BY <2>2, <2>3 DEF StepInv
  <2>5. QED
    BY <1>1, <2>1, <2>2, <2>3, <2>4, RestOfType
<1>10. QED
  BY <1>3, <1>4, <1>5, <1>6, <1>7, <1>8, <1>9 DEF ScanStep

LEMMA OtherCache ==
  ASSUME CacheInv, SaveStat \/ SaveWrite \/ Shutdown \/ Exit \/ Outside \/ UNCHANGED vars
  PROVE  CacheInv'
<1> USE WorkspaceCacheAssumption
<1>1. /\ scan \in ScanRecord /\ save \in SaveRecord
      /\ clock \in Times
      /\ index_bin \in CacheFile \cup {None}
      /\ files \in [Paths -> Texts \cup {None}] /\ last_scan_complete \in BOOLEAN
      /\ disk \in [Paths -> [text : Texts, mtime : Times] \cup {None}]
      /\ scan.at # "Apply" => Entries(scan.texts) \cup scan.todo \subseteq scan.found
      /\ save.at # "No" => (save.allow_shrink <=> scan.at = "Save")
      /\ scans \in 0..MaxScans
      /\ touched \subseteq Paths /\ apart \subseteq Paths /\ blurred \subseteq Paths
      /\ hidden \subseteq Paths
  BY DEF CacheInv, LocalsTyped, TypeOK, CacheFile
<1>2. StepInv
  BY DEF CacheInv
<1>3. CASE SaveStat
  <2> DEFINE entries == [p \in Paths |-> EntryFor(p)]
             mixed == {p \in Indexed \cap OnDisk \cap apart : disk[p].text # files[p]}
  <2>1. /\ save.at = "Stat"
        /\ save' = [save EXCEPT !.at = "Write", !.entries = entries, !.blurred = mixed]
        /\ UNCHANGED <<clock, disk, changes, index_bin, files,
                       last_scan_complete, scan,
                       scans, touched, apart, blurred, hidden>>
    BY <1>3 DEF SaveStat, OutsideScan
  <2>2. entries \in Manifest
    BY EntryTyped DEF Manifest, CacheInv
  <2>3. mixed \subseteq Paths
    BY <1>1
  <2> HIDE DEF entries, mixed
  <2>4. save' \in SaveRecord /\ save'.at = "Write" /\ save'.allow_shrink = save.allow_shrink
    BY <1>1, <2>1, <2>2, <2>3 DEF SaveRecord
  <2>5. StepInv'
    BY <1>2, <2>1, <2>4 DEF StepInv
  <2>6. QED
    BY <1>1, <2>1, <2>4, <2>5, RestOfType
<1>4. CASE SaveWrite
  <2>1. /\ save' = NotSaving
        /\ scan' = IF scan.at = "Save" THEN Idle ELSE scan
        /\ UNCHANGED <<clock, disk, changes, files, last_scan_complete,
                       scans, touched, apart>>
    BY <1>4 DEF SaveWrite, OutsideScan
  <2>2. index_bin' \in CacheFile \cup {None} /\ blurred' \subseteq Paths
        /\ hidden' \subseteq Paths
    <3>1. save.complete \in BOOLEAN /\ save.entries \in Manifest /\ save.blurred \subseteq Paths
      BY <1>1 DEF SaveRecord
    <3>2. [complete_scan |-> save.complete, mtime |-> clock, entries |-> save.entries]
            \in CacheFile
      BY <1>1, <3>1 DEF CacheFile
    <3>3. QED
      BY <1>1, <1>4, <3>1, <3>2 DEF SaveWrite
  <2>3. /\ scan' \in ScanRecord /\ scan'.at # "Save"
        /\ scan'.at # "Apply" => Entries(scan'.texts) \cup scan'.todo \subseteq scan'.found
        /\ (scan'.at = "Idle" /\ scan.at = "Save") \/ scan' = scan
        /\ scan.at = "Save" => scan' = Idle
    BY <1>1, <2>1, DownTyped
  <2>4. StepInv'
    BY <1>2, <2>3, DownTyped DEF StepInv
  <2>5. QED
    BY <1>1, <2>1, <2>2, <2>3, <2>4, DownTyped, RestOfType
<1>5. CASE Shutdown
  <2>1. /\ save.at = "No" /\ save' = Saving(FALSE)
        /\ UNCHANGED <<clock, disk, changes, index_bin, files,
                       last_scan_complete, scan,
                       scans, touched, apart, blurred, hidden>>
    BY <1>5 DEF Shutdown, ShutdownSaving, OutsideScan
  <2>2. Saving(FALSE) \in SaveRecord /\ Saving(FALSE).at = "Stat"
        /\ Saving(FALSE).allow_shrink = FALSE
    BY <1>1, DownTyped DEF Saving, SaveRecord
  <2>3. scan.at # "Save"
    BY <1>2, <2>1 DEF StepInv
  <2>4. StepInv'
    BY <1>2, <2>1, <2>2 DEF StepInv
  <2>5. QED
    BY <1>1, <2>1, <2>2, <2>3, <2>4, RestOfType
<1>6. CASE Exit
  <2>1. /\ scan' = Down /\ save' = NotSaving /\ files' = NoEntries
        /\ last_scan_complete' = FALSE
        /\ UNCHANGED <<clock, disk, changes, index_bin, scans, touched,
                       apart, blurred,
                       hidden>>
    BY <1>6 DEF Exit, OutsideScan
  <2>2. StepInv'
    BY <2>1, DownTyped DEF StepInv
  <2>3. QED
    BY <1>1, <2>1, <2>2, DownTyped, NoEntriesTyped, RestOfType
<1>7. CASE Tick
  <2>1. clock' \in Times
    BY <1>1, <1>7 DEF Tick, Times
  <2>2. UNCHANGED <<disk, index_bin, files, last_scan_complete, scan, save,
                    changes, scans,
                    touched, apart, blurred, hidden>>
    BY <1>7 DEF Tick
  <2>3. QED
    BY <1>2, <2>1, <2>2 DEF CacheInv, TypeOK, LocalsTyped, StepInv
<1>8. ASSUME NEW p \in Paths,
             \/ Delete(p)
             \/ \E t \in Texts : Write(p, t)
             \/ \E t \in Texts, m \in Times : MoveIn(p, t, m)
      PROVE  CacheInv'
  <2>1. PICK version \in VersionType : Change(p, version) /\ hidden' \subseteq hidden \cup {p}
    BY <1>8, ChangeKinds
  <2>2. /\ disk' \in [Paths -> [text : Texts, mtime : Times] \cup {None}]
        /\ changes' \in 0..MaxChanges
        /\ touched' = touched \cup {p} /\ apart' = apart \cup {p}
        /\ blurred' \subseteq blurred \cup {p}
        /\ save' \in SaveRecord
        /\ save'.at = save.at /\ save'.allow_shrink = save.allow_shrink
        /\ UNCHANGED <<clock, index_bin, files, last_scan_complete, scan,
                       scans>>
    BY <2>1, ChangeEffect
  <2>3. StepInv' /\ LocalsTyped'
    BY <1>1, <1>2, <2>2 DEF StepInv, LocalsTyped
  <2>4. TypeOK'
    BY <1>1, <2>1, <2>2 DEF CacheInv, TypeOK, SaveRecord
  <2>5. QED
    BY <2>3, <2>4 DEF CacheInv
<1>9. ASSUME NEW p \in Paths, NEW t \in Texts, Edit(p, t)
      PROVE  CacheInv'
  <2>1. /\ files' = [files EXCEPT ![p] = t]
        /\ touched' = touched \cup {p} /\ apart' = apart \cup {p}
        /\ changes < MaxChanges /\ changes' = changes + 1
        /\ UNCHANGED <<clock, disk, index_bin, last_scan_complete, scan,
                       save, scans,
                       blurred, hidden>>
    BY <1>9 DEF Edit
  <2>2. StepInv' /\ LocalsTyped'
    BY <1>1, <1>2, <2>1 DEF StepInv, LocalsTyped
  <2>3. files' \in [Paths -> Texts \cup {None}] /\ changes' \in 0..MaxChanges
    BY <1>1, <2>1 DEF CacheInv, TypeOK
  <2>4. TypeOK'
    BY <1>1, <2>1, <2>3 DEF CacheInv, TypeOK
  <2>5. QED
    BY <2>2, <2>4 DEF CacheInv
<1>10. ASSUME NEW p \in Paths, Watched(p)
       PROVE  CacheInv'
  <2>1. /\ files' = [files EXCEPT ![p] = IF disk[p] = None THEN None ELSE disk[p].text]
        /\ UNCHANGED <<clock, disk, changes, index_bin, last_scan_complete,
                       scan, save,
                       scans, touched, apart, blurred, hidden>>
    BY <1>10 DEF Watched, OutsideScan
  <2>2. files' \in [Paths -> Texts \cup {None}]
    BY <1>1, <2>1
  <2>3. StepInv'
    BY <1>2, <2>1 DEF StepInv
  <2>4. QED
    BY <1>1, <2>1, <2>2, <2>3, RestOfType
<1>11. CASE UNCHANGED vars
  BY <1>11 DEF vars, CacheInv, TypeOK, LocalsTyped, StepInv
<1>12. QED
  BY <1>3, <1>4, <1>5, <1>6, <1>7, <1>8, <1>9, <1>10, <1>11 DEF Outside

-----------------------------------------------------------------------------
(* Texts.                                                                  *)

(* An entry whose stamp is that of the file has its text.                  *)
EntryTrue(p, e) ==
  e # None /\ disk[p] # None /\ e.mtime = disk[p].mtime /\ e.size = disk[p].text.size
    => e.text = disk[p].text

(* What was read of a file, and what the index has of it, is on disk.      *)
SameText(p, text) == text # None => disk[p] # None /\ text = disk[p].text

TruthInv ==
  /\ index_bin # None => \A p \in Paths \ blurred : EntryTrue(p, index_bin.entries[p])
  /\ save.at = "Write" => \A p \in Paths \ save.blurred : EntryTrue(p, save.entries[p])
  /\ scan.at = "Partition" /\ scan.cache # None =>
       \A p \in Paths \ (scan.doubtful \cup touched) : EntryTrue(p, scan.cache.entries[p])
  /\ \A p \in Paths \ touched : SameText(p, scan.texts[p])
  /\ \A p \in Paths \ apart : SameText(p, files[p])
  /\ scan.at = "Apply" => touched \subseteq apart

LEMMA NothingRead == \A p \in Paths : SameText(p, NoEntries[p])
BY DEF SameText, NoEntries

LEMMA TextsEmpty == Down.texts = NoEntries /\ Idle.texts = NoEntries
BY DEF Down, Idle

LEMMA InitTruth == Init => TruthInv
<1> SUFFICES ASSUME Init PROVE TruthInv
  OBVIOUS
<1>1. /\ index_bin = None /\ save = NotSaving /\ scan = Down /\ files = NoEntries
  BY DEF Init
<1>2. save.at = "No" /\ scan.at = "Down" /\ scan.texts = NoEntries
  BY <1>1, DownTyped, TextsEmpty
<1>3. QED
  BY <1>1, <1>2, NothingRead DEF TruthInv

LEMMA ScanTruth ==
  ASSUME CacheInv, TruthInv, ScanStep
  PROVE  TruthInv'
<1>1. scan \in ScanRecord /\ files \in [Paths -> Texts \cup {None}]
  BY DEF CacheInv, LocalsTyped, TypeOK
<1>2. UNCHANGED disk
  BY DEF ScanStep, Start, PrepareScan, PartitionCacheHits, RunParsePhase, Parse,
     Finalize,
     FinalizeWith, ApplyFile, Applied, OutsideScan
<1>3. /\ \A p, e : EntryTrue(p, e)' <=> EntryTrue(p, e)
      /\ \A p, text : SameText(p, text)' <=> SameText(p, text)
  BY <1>2 DEF EntryTrue, SameText
<1>4. /\ index_bin # None => \A p \in Paths \ blurred : EntryTrue(p, index_bin.entries[p])
      /\ save.at = "Write" => \A p \in Paths \ save.blurred : EntryTrue(p, save.entries[p])
      /\ scan.at = "Partition" /\ scan.cache # None =>
           \A p \in Paths \ (scan.doubtful \cup touched) :
             EntryTrue(p, scan.cache.entries[p])
      /\ \A p \in Paths \ touched : SameText(p, scan.texts[p])
      /\ \A p \in Paths \ apart : SameText(p, files[p])
      /\ scan.at = "Apply" => touched \subseteq apart
  BY DEF TruthInv
<1>5. ASSUME UNCHANGED <<index_bin, blurred, save>>,
             scan'.at = "Partition" /\ scan'.cache # None =>
               \A p \in Paths \ (scan'.doubtful \cup touched') :
                 EntryTrue(p, scan'.cache.entries[p]),
             \A p \in Paths \ touched' : SameText(p, scan'.texts[p]),
             \A p \in Paths \ apart' : SameText(p, files'[p]),
             scan'.at = "Apply" => touched' \subseteq apart'
      PROVE  TruthInv'
  BY <1>2, <1>4, <1>5 DEF TruthInv, EntryTrue, SameText
<1>6. ASSUME NEW max \in Caps, Start(max)
      PROVE  TruthInv'
  <2>1. scan'.at = "Prepare" /\ scan'.texts = NoEntries
    BY <1>6, DownTyped, TextsEmpty DEF Start, ScanRecord
  <2>2. UNCHANGED <<index_bin, blurred, save, files, apart>>
    BY <1>6 DEF Start
  <2>3. QED
    BY <1>4, <1>5, <2>1, <2>2, NothingRead
<1>7. CASE PrepareScan
  <2>1. /\ UNCHANGED <<index_bin, blurred, save, files, apart, touched>>
        /\ scan'.at = "Partition" /\ scan'.cache \in {index_bin, None}
        /\ scan'.doubtful = blurred /\ scan'.texts = scan.texts
    BY <1>1, <1>7 DEF PrepareScan, ScanRecord
  <2>2. QED
    BY <1>4, <1>5, <2>1
<1>8. CASE PartitionCacheHits
  <2> DEFINE hits == IF scan.cache = None THEN {}
                     ELSE {p \in scan.found : IsHit(scan.cache.entries[p], p)}
  <2>1. /\ UNCHANGED <<index_bin, blurred, save, files, apart>>
        /\ scan.at = "Partition" /\ scan'.at = "Parse"
        /\ touched' = touched \cup (hits \cap scan.doubtful)
        /\ scan'.texts = [p \in Paths |-> IF p \in hits THEN scan.cache.entries[p].text
                                          ELSE None]
    BY <1>1, <1>8 DEF PartitionCacheHits, ScanRecord
  <2>2. ASSUME NEW p \in Paths \ touched'
        PROVE  SameText(p, scan'.texts[p])
    <3>1. CASE p \notin hits
      BY <2>1, <3>1 DEF SameText
    <3>2. CASE p \in hits
      <4>1. scan.cache # None /\ IsHit(scan.cache.entries[p], p)
        BY <3>2
      <4>2. EntryTrue(p, scan.cache.entries[p])
        BY <1>4, <2>1, <3>2, <4>1
      <4>3. scan'.texts[p] = scan.cache.entries[p].text
        BY <2>1, <3>2
      <4>4. QED
        BY <4>1, <4>2, <4>3 DEF EntryTrue, IsHit, SameText
    <3>3. QED
      BY <3>1, <3>2
  <2> HIDE DEF hits
  <2>3. QED
    BY <1>4, <1>5, <2>1, <2>2
<1>9. CASE RunParsePhase
  <2> PICK lost \in SUBSET (scan.todo \cap OnDisk \cap Unreliable) : Parse(lost)
    BY <1>9 DEF RunParsePhase
  <2> DEFINE read == (scan.todo \cap OnDisk) \ lost
  <2>1. /\ UNCHANGED <<index_bin, blurred, save, files, apart, touched>>
        /\ scan'.at = "Finalize"
        /\ scan'.texts = [p \in Paths |-> IF p \notin scan.todo THEN scan.texts[p]
                                          ELSE IF p \in read THEN disk[p].text
                                          ELSE None]
    BY <1>1, <1>9 DEF RunParsePhase, Parse, ScanRecord
  <2>2. ASSUME NEW p \in Paths \ touched
        PROVE  SameText(p, scan'.texts[p])
    BY <1>4, <2>1, <2>2 DEF SameText, OnDisk
  <2>3. QED
    BY <1>4, <1>5, <2>1, <2>2
<1>10. CASE Finalize
  <2>1. /\ UNCHANGED <<index_bin, blurred, save, touched>>
        /\ scan'.at = "Apply" /\ scan'.texts = scan.texts
        /\ files' = NoEntries /\ apart' = touched
    BY <1>1, <1>10 DEF Finalize, FinalizeWith, ScanRecord
  <2>2. QED
    BY <1>4, <1>5, <2>1, NothingRead
<1>11. ASSUME NEW p \in Paths, ApplyFile(p)
       PROVE  TruthInv'
  <2>1. /\ UNCHANGED <<index_bin, blurred, save, touched, apart>>
        /\ scan.at = "Apply" /\ scan'.at = "Apply" /\ scan'.texts = scan.texts
        /\ files' = [files EXCEPT ![p] = scan.texts[p]]
    BY <1>1, <1>11 DEF ApplyFile, ScanRecord
  <2>2. touched \subseteq apart
    BY <1>4, <2>1
  <2>3. \A q \in Paths \ apart : SameText(q, files'[q])
    BY <1>1, <1>4, <2>1, <2>2
  <2>4. QED
    BY <1>4, <1>5, <2>1, <2>2, <2>3
<1>12. CASE Applied
  <2>1. /\ UNCHANGED <<index_bin, blurred, files, touched, apart>>
        /\ save' = save \/ save' = Saving(TRUE)
        /\ scan' = Idle \/ scan' = [Idle EXCEPT !.at = "Save"]
    BY <1>12 DEF Applied
  <2>2. scan'.at \in {"Idle", "Save"} /\ scan'.texts = NoEntries
    BY <2>1, DownTyped, TextsEmpty DEF ScanRecord
  <2>3. save' = save \/ save'.at = "Stat"
    BY <2>1, DownTyped DEF Saving, SaveRecord
  <2>4. QED
    BY <1>2, <1>4, <2>1, <2>2, <2>3, NothingRead DEF TruthInv, EntryTrue,
       SameText
<1>13. QED
  BY <1>6, <1>7, <1>8, <1>9, <1>10, <1>11, <1>12 DEF ScanStep

LEMMA OtherTruth ==
  ASSUME CacheInv, TruthInv,
         SaveStat \/ SaveWrite \/ Shutdown \/ Exit \/ Outside \/ UNCHANGED vars
  PROVE  TruthInv'
<1>1. /\ scan \in ScanRecord /\ files \in [Paths -> Texts \cup {None}]
      /\ save \in SaveRecord
      /\ disk \in [Paths -> [text : Texts, mtime : Times] \cup {None}]
  BY DEF CacheInv, LocalsTyped, TypeOK
<1>2. /\ index_bin # None => \A p \in Paths \ blurred : EntryTrue(p, index_bin.entries[p])
      /\ save.at = "Write" => \A p \in Paths \ save.blurred : EntryTrue(p, save.entries[p])
      /\ scan.at = "Partition" /\ scan.cache # None =>
           \A p \in Paths \ (scan.doubtful \cup touched) :
             EntryTrue(p, scan.cache.entries[p])
      /\ \A p \in Paths \ touched : SameText(p, scan.texts[p])
      /\ \A p \in Paths \ apart : SameText(p, files[p])
      /\ scan.at = "Apply" => touched \subseteq apart
  BY DEF TruthInv
<1>3. CASE SaveStat
  <2>1. /\ UNCHANGED <<disk, index_bin, files, scan, touched, apart, blurred>>
        /\ save'.at = "Write" /\ save'.entries = [p \in Paths |-> EntryFor(p)]
        /\ save'.blurred =
             {p \in Indexed \cap OnDisk \cap apart : disk[p].text # files[p]}
    BY <1>1, <1>3 DEF SaveStat, OutsideScan, SaveRecord
  <2>2. ASSUME NEW p \in Paths \ save'.blurred
        PROVE  EntryTrue(p, save'.entries[p])
    <3>1. save'.entries[p] = EntryFor(p)
      BY <2>1
    <3>2. CASE files[p] = None
      BY <3>1, <3>2 DEF EntryFor, EntryTrue
    <3>3. CASE disk[p] = None
      BY <3>3 DEF EntryTrue
    <3>4. CASE files[p] # None /\ disk[p] # None
      <4>1. files[p] = disk[p].text
        BY <1>2, <2>1, <3>4 DEF Indexed, OnDisk, SameText
      <4>2. EntryFor(p).text = files[p]
        BY <3>4 DEF EntryFor
      <4>3. QED
        BY <3>1, <4>1, <4>2 DEF EntryTrue
    <3>5. QED
      BY <3>2, <3>3, <3>4
  <2>3. QED
    BY <1>2, <2>1, <2>2 DEF TruthInv, EntryTrue, SameText
<1>4. CASE SaveWrite
  <2>1. /\ UNCHANGED <<disk, files, touched, apart>> /\ save.at = "Write"
        /\ save' = NotSaving /\ scan' \in {Idle, scan}
        /\ \/ UNCHANGED <<index_bin, blurred>>
           \/ /\ blurred' = save.blurred
              /\ index_bin' = [complete_scan |-> save.complete, mtime |-> clock,
                               entries |-> save.entries]
    BY <1>4 DEF SaveWrite, OutsideScan
  <2>2. save'.at = "No" /\ (scan' = scan \/ (scan'.at = "Idle" /\ scan'.texts = NoEntries))
    BY <2>1, DownTyped, TextsEmpty
  <2>3. index_bin' # None =>
          \A p \in Paths \ blurred' : EntryTrue(p, index_bin'.entries[p])
    BY <1>2, <2>1
  <2>4. QED
    BY <1>2, <2>1, <2>2, <2>3, NothingRead DEF TruthInv, EntryTrue, SameText
<1>5. CASE Shutdown
  <2>1. /\ UNCHANGED <<disk, index_bin, files, scan, touched, apart, blurred>>
        /\ save' = Saving(FALSE)
    BY <1>5 DEF Shutdown, ShutdownSaving, OutsideScan
  <2>2. save'.at = "Stat"
    BY <2>1, DownTyped DEF Saving, SaveRecord
  <2>3. QED
    BY <1>2, <2>1, <2>2 DEF TruthInv, EntryTrue, SameText
<1>6. CASE Exit
  <2>1. /\ UNCHANGED <<disk, index_bin, touched, apart, blurred>>
        /\ save' = NotSaving /\ scan' = Down /\ files' = NoEntries
    BY <1>6 DEF Exit, OutsideScan
  <2>2. save'.at = "No" /\ scan'.at = "Down" /\ scan'.texts = NoEntries
    BY <2>1, DownTyped, TextsEmpty
  <2>3. QED
    BY <1>2, <2>1, <2>2, NothingRead DEF TruthInv, EntryTrue, SameText
<1>7. CASE Tick \/ UNCHANGED vars
  <2>1. UNCHANGED <<disk, index_bin, files, scan, save, touched, apart,
                    blurred>>
    BY <1>7 DEF Tick, vars
  <2>2. QED
    BY <1>2, <2>1 DEF TruthInv, EntryTrue, SameText
<1>8. ASSUME NEW p \in Paths,
             \/ Delete(p)
             \/ \E t \in Texts : Write(p, t)
             \/ \E t \in Texts, m \in Times : MoveIn(p, t, m)
      PROVE  TruthInv'
  <2>1. PICK version \in VersionType : Change(p, version)
    BY <1>8, ChangeKinds
  <2>2. /\ disk' = [disk EXCEPT ![p] = version]
        /\ touched' = touched \cup {p} /\ apart' = apart \cup {p}
        /\ blurred \subseteq blurred'
        /\ version # None /\ Collides(p, version) => p \in blurred'
        /\ save'.at = save.at /\ save'.entries = save.entries
        /\ save.blurred \subseteq save'.blurred
        /\ version # None /\ Collides(p, version) /\ save.at = "Write" =>
             p \in save'.blurred
        /\ UNCHANGED <<index_bin, files, scan>>
    BY <2>1, ChangeEffect
  <2>3. disk'[p] = version /\ \A q \in Paths : q # p => disk'[q] = disk[q]
    BY <1>1, <2>2
  <2>4. \A q \in Paths : q # p =>
          /\ \A e : EntryTrue(q, e) => EntryTrue(q, e)'
          /\ \A text : SameText(q, text) => SameText(q, text)'
    BY <2>3 DEF EntryTrue, SameText
  <2>5. ASSUME NEW e \in EntriesMade(p), version = None \/ ~Collides(p, version)
        PROVE  EntryTrue(p, e)'
    BY <2>3, <2>5 DEF EntryTrue, Collides
  <2>6. index_bin' # None =>
          \A q \in Paths \ blurred' : EntryTrue(q, index_bin.entries[q])'
    <3>1. index_bin # None => index_bin.entries[p] \in EntriesMade(p)
      BY DEF EntriesMade
    <3>2. QED
      BY <1>2, <2>2, <2>4, <2>5, <3>1
  <2>7. save'.at = "Write" =>
          \A q \in Paths \ save'.blurred : EntryTrue(q, save.entries[q])'
    <3>1. save.entries[p] \in EntriesMade(p)
      BY DEF EntriesMade
    <3>2. QED
      BY <1>2, <2>2, <2>4, <2>5, <3>1
  <2>8. scan'.at = "Partition" /\ scan'.cache # None =>
          \A q \in Paths \ (scan'.doubtful \cup touched') :
            EntryTrue(q, scan.cache.entries[q])'
    BY <1>2, <2>2, <2>4
  <2>9. /\ \A q \in Paths \ touched' : SameText(q, scan.texts[q])'
        /\ \A q \in Paths \ apart' : SameText(q, files[q])'
    BY <1>2, <2>2, <2>4
  <2>10. scan'.at = "Apply" => touched' \subseteq apart'
    BY <1>2, <2>2
  <2>11. QED
    BY <2>2, <2>6, <2>7, <2>8, <2>9, <2>10 DEF TruthInv, EntryTrue, SameText
<1>9. ASSUME NEW p \in Paths, NEW t \in Texts, Edit(p, t)
      PROVE  TruthInv'
  <2>1. /\ files' = [files EXCEPT ![p] = t]
        /\ touched' = touched \cup {p} /\ apart' = apart \cup {p}
        /\ UNCHANGED <<disk, index_bin, scan, save, blurred>>
    BY <1>9 DEF Edit
  <2>2. \A q \in Paths \ apart' : SameText(q, files'[q])
    BY <1>1, <1>2, <2>1
  <2>3. QED
    BY <1>2, <2>1, <2>2 DEF TruthInv, EntryTrue, SameText
<1>10. ASSUME NEW p \in Paths, Watched(p)
       PROVE  TruthInv'
  <2>1. /\ files' = [files EXCEPT ![p] = IF disk[p] = None THEN None ELSE disk[p].text]
        /\ UNCHANGED <<disk, index_bin, scan, save, touched, apart, blurred>>
    BY <1>10 DEF Watched, OutsideScan
  <2>2. \A q \in Paths \ apart : SameText(q, files'[q])
    BY <1>1, <1>2, <2>1 DEF SameText
  <2>3. QED
    BY <1>2, <2>1, <2>2 DEF TruthInv, EntryTrue, SameText
<1>11. QED
  BY <1>3, <1>4, <1>5, <1>6, <1>7, <1>8, <1>9, <1>10,
     WorkspaceCacheAssumption DEF Outside

-----------------------------------------------------------------------------
(* The set of files.                                                       *)

(* What discovery has to find.                                             *)
Due == OnDisk \ hidden

(* A save is of the index that it began with, and of its completeness.     *)
SavingInv ==
  /\ save.at # "No" => scan.at \notin {"Down", "Apply"}
                       /\ save.complete = last_scan_complete
  /\ scan.at = "Down" => last_scan_complete = FALSE
  /\ index_bin # None => index_bin.mtime <= clock

(* Complete saves and caches list it, or discovery sees that it is new.    *)
ListedInv ==
  /\ save.at = "Write" /\ save.complete => Due \subseteq Entries(save.entries)
  /\ Trusted(index_bin) => Due \subseteq Entries(index_bin.entries) \cup NewerThanCache

(* A scan that is not cut short has it, from step to step.                 *)
FoundInv ==
  /\ scan.at = "Partition" /\ ~scan.truncated => Due \subseteq scan.found
  /\ scan.at \in {"Parse", "Finalize"} /\ ~scan.truncated =>
       Due \subseteq Entries(scan.texts) \cup scan.todo
  /\ last_scan_complete =>
       Due \subseteq Indexed \cup (IF scan.at = "Apply" THEN scan.todo ELSE {})

DueInv == SavingInv /\ ListedInv /\ FoundInv

LEMMA InitDue == Init => DueInv
<1> SUFFICES ASSUME Init PROVE DueInv
  OBVIOUS
<1>1. /\ index_bin = None /\ save.at = "No" /\ scan.at = "Down"
      /\ last_scan_complete = FALSE
  BY DownTyped DEF Init
<1>2. QED
  BY <1>1 DEF DueInv, SavingInv, ListedInv, FoundInv, Trusted

(* The shallowest n of a set of at most n are all of it.                   *)
LEMMA ShallowestAll ==
  ASSUME NEW S \in SUBSET Nat, IsFiniteSet(S), NEW n \in Nat, Cardinality(S) <= n
  PROVE  Shallowest(S, n) = S
<1>1. ASSUME NEW p \in S
      PROVE  p \in Shallowest(S, n)
  <2> DEFINE below == {q \in S : q < p}
  <2>1. IsFiniteSet(S \ {p}) /\ Cardinality(S \ {p}) = Cardinality(S) - 1
    BY FS_RemoveElement
  <2>2. below \in SUBSET (S \ {p})
    <3>1. \A q \in S : q < p => q # p
      OBVIOUS
    <3>2. QED
      BY <3>1
  <2>3. IsFiniteSet(below) /\ Cardinality(below) <= Cardinality(S \ {p})
    BY <2>1, <2>2, FS_Subset
  <2>4. Cardinality(below) \in Nat /\ Cardinality(S) \in Nat
    BY <2>3, FS_CardinalityType
  <2>5. Cardinality(below) < n
    BY <2>1, <2>3, <2>4
  <2>6. QED
    BY <2>5 DEF Shallowest
<1>2. QED
  BY <1>1 DEF Shallowest

(* A scan that discovers from the cache, or is not cut short, has all.     *)
LEMMA DiscoversAll ==
  ASSUME CacheInv, DueInv, NEW cache \in {index_bin, None},
         NEW all, all = IF Trusted(cache) THEN WarmFiles(cache) ELSE OnDisk,
         ~Truncated(cache, Cardinality(all))
  PROVE  Due \subseteq IF Trusted(cache) THEN all ELSE Shallowest(all, scan.max)
<1>1. CASE Trusted(cache)
  <2>1. cache = index_bin
    BY <1>1 DEF Trusted
  <2>2. Due \subseteq Entries(index_bin.entries) \cup NewerThanCache
    BY <1>1, <2>1 DEF DueInv, ListedInv
  <2>3. QED
    BY <1>1, <2>1, <2>2 DEF WarmFiles, Due
<1>2. CASE ~Trusted(cache)
  <2>1. all = OnDisk /\ ~(Cardinality(OnDisk) > scan.max)
    BY <1>2 DEF Truncated
  <2>2. OnDisk \in SUBSET Nat /\ IsFiniteSet(OnDisk)
    BY WorkspaceCacheAssumption, FS_Subset DEF OnDisk
  <2>3. scan.max \in Nat /\ Cardinality(OnDisk) \in Nat
    BY <2>2, FS_CardinalityType DEF CacheInv, LocalsTyped, ScanRecord
  <2>4. Shallowest(OnDisk, scan.max) = OnDisk
    BY <2>1, <2>2, <2>3, ShallowestAll
  <2>5. QED
    BY <1>2, <2>1, <2>4 DEF Due
<1>3. QED
  BY <1>1, <1>2

LEMMA ScanDue ==
  ASSUME ~SavesWhileApplying, CacheInv, DueInv, ScanStep
  PROVE  DueInv'
<1>1. /\ scan \in ScanRecord /\ save \in SaveRecord
      /\ files \in [Paths -> Texts \cup {None}] /\ last_scan_complete \in BOOLEAN
  BY DEF CacheInv, LocalsTyped, TypeOK
<1>2. UNCHANGED <<clock, disk, index_bin>> /\ hidden \subseteq hidden'
  BY DEF ScanStep, Start, PrepareScan, PartitionCacheHits, RunParsePhase, Parse,
     Finalize,
     FinalizeWith, ApplyFile, Applied, OutsideScan
<1>3. Due' \subseteq Due /\ NewerThanCache' = NewerThanCache
  BY <1>2 DEF Due, OnDisk, NewerThanCache, WindowStart
<1>4. StepInv /\ SavingInv /\ ListedInv /\ FoundInv
  BY DEF CacheInv, DueInv
<1>5. ASSUME save' = save
      PROVE  ListedInv'
  BY <1>2, <1>3, <1>4, <1>5 DEF ListedInv, Trusted
<1>6. ASSUME NEW max \in Caps, Start(max)
      PROVE  DueInv'
  <2>1. /\ scan'.at = "Prepare" /\ scan.at \in {"Down", "Idle"} /\ save.at = "No"
        /\ UNCHANGED <<save, files, last_scan_complete>>
    BY <1>6, DownTyped DEF Start, ScanRecord
  <2>2. FoundInv'
    BY <1>3, <1>4, <2>1 DEF FoundInv, Indexed
  <2>3. SavingInv'
    BY <1>2, <1>4, <2>1 DEF SavingInv
  <2>4. QED
    BY <1>5, <2>1, <2>2, <2>3 DEF DueInv
<1>7. CASE PrepareScan
  <2> DEFINE all(cache) == IF Trusted(cache) THEN WarmFiles(cache) ELSE OnDisk
             found(cache) == IF Trusted(cache) THEN all(cache)
                             ELSE Shallowest(all(cache), scan.max)
  <2>1. PICK cache \in {index_bin, None} :
          scan' = [scan EXCEPT !.at = "Partition", !.max = 0, !.cache = cache,
                     !.doubtful = blurred, !.found = found(cache),
                     !.truncated = Truncated(cache, Cardinality(all(cache)))]
    BY <1>7 DEF PrepareScan
  <2>2. /\ scan'.at = "Partition" /\ scan'.found = found(cache)
        /\ scan'.truncated <=> Truncated(cache, Cardinality(all(cache)))
    <3> HIDE DEF all, found
    <3>1. QED
      BY <1>1, <2>1 DEF ScanRecord
  <2>3. ~scan'.truncated => Due \subseteq scan'.found
    BY <2>1, <2>2, DiscoversAll
  <2>4. scan.at = "Prepare" /\ UNCHANGED <<save, files, last_scan_complete>>
    BY <1>7 DEF PrepareScan
  <2>5. FoundInv'
    BY <1>3, <1>4, <2>2, <2>3, <2>4 DEF FoundInv, Indexed
  <2>6. SavingInv'
    BY <1>2, <1>4, <2>2, <2>4 DEF SavingInv
  <2>7. QED
    BY <1>5, <2>4, <2>5, <2>6 DEF DueInv
<1>8. CASE PartitionCacheHits
  <2> DEFINE hits == IF scan.cache = None THEN {}
                     ELSE {p \in scan.found : IsHit(scan.cache.entries[p], p)}
  <2>1. /\ scan.at = "Partition" /\ scan'.at = "Parse"
        /\ scan'.truncated = scan.truncated /\ scan'.todo = scan.found \ hits
        /\ scan'.texts = [p \in Paths |-> IF p \in hits THEN scan.cache.entries[p].text
                                          ELSE None]
        /\ UNCHANGED <<save, files, last_scan_complete>>
    BY <1>1, <1>8 DEF PartitionCacheHits, ScanRecord
  <2>2. ASSUME NEW p \in hits
        PROVE  p \in Entries(scan'.texts)
    <3>1. /\ scan.cache \in CacheFile /\ scan.cache.entries[p] # None /\ p \in Paths
      BY <1>1, <2>2 DEF ScanRecord, IsHit
    <3>2. scan.cache.entries[p].text \in Texts
      BY <3>1 DEF CacheFile, Manifest, FileCacheEntry
    <3>3. QED
      BY <2>1, <3>1, <3>2, WorkspaceCacheAssumption DEF Entries
  <2> HIDE DEF hits
  <2>3. FoundInv'
    BY <1>3, <1>4, <2>1, <2>2 DEF FoundInv, Indexed
  <2>4. SavingInv'
    BY <1>2, <1>4, <2>1 DEF SavingInv
  <2>5. QED
    BY <1>5, <2>1, <2>3, <2>4 DEF DueInv
<1>9. CASE RunParsePhase
  <2> PICK lost \in SUBSET (scan.todo \cap OnDisk \cap Unreliable) : Parse(lost)
    BY <1>9 DEF RunParsePhase
  <2> DEFINE read == (scan.todo \cap OnDisk) \ lost
  <2>1. /\ scan.at = "Parse" /\ scan'.at = "Finalize"
        /\ scan'.truncated = scan.truncated /\ scan'.todo = {}
        /\ scan'.texts = [p \in Paths |-> IF p \notin scan.todo THEN scan.texts[p]
                                          ELSE IF p \in read THEN disk[p].text
                                          ELSE None]
        /\ UNCHANGED <<save, files, last_scan_complete>>
        /\ hidden' = hidden \cup lost
    BY <1>1, <1>9 DEF RunParsePhase, Parse, ScanRecord
  <2>2. \A p \in OnDisk : disk[p].text \in Texts /\ p \in Paths
    BY DEF CacheInv, TypeOK, OnDisk
  <2>3. ASSUME NEW p \in Due', p \in Entries(scan.texts) \cup scan.todo
        PROVE  p \in Entries(scan'.texts)
    BY <1>3, <2>1, <2>2, <2>3, WorkspaceCacheAssumption DEF Due, Entries
  <2>4. FoundInv'
    BY <1>3, <1>4, <2>1, <2>3 DEF FoundInv, Indexed
  <2>5. SavingInv'
    BY <1>2, <1>4, <2>1 DEF SavingInv
  <2>6. QED
    BY <1>5, <2>1, <2>4, <2>5 DEF DueInv
<1>10. CASE Finalize
  <2>1. /\ scan.at = "Finalize" /\ scan'.at = "Apply" /\ save.at = "No" /\ save' = save
        /\ scan'.todo = Entries(scan.texts) /\ scan'.texts = scan.texts
        /\ last_scan_complete' = ~scan.truncated
    BY <1>1, <1>10 DEF Finalize, FinalizeWith, ScanRecord
  <2>2. scan.todo = {}
    BY <1>4, <2>1 DEF StepInv
  <2>3. FoundInv'
    BY <1>3, <1>4, <2>1, <2>2 DEF FoundInv
  <2>4. SavingInv'
    BY <1>2, <1>4, <2>1 DEF SavingInv
  <2>5. QED
    BY <1>5, <2>1, <2>3, <2>4 DEF DueInv
<1>11. ASSUME NEW p \in Paths, ApplyFile(p)
       PROVE  DueInv'
  <2>1. /\ scan.at = "Apply" /\ scan'.at = "Apply" /\ p \in scan.todo
        /\ scan'.todo = scan.todo \ {p}
        /\ files' = [files EXCEPT ![p] = scan.texts[p]]
        /\ UNCHANGED <<save, last_scan_complete>>
    BY <1>1, <1>11 DEF ApplyFile, ScanRecord
  <2>2. scan.texts[p] # None
    BY <1>4, <2>1 DEF StepInv, Entries
  <2>3. Indexed \cup scan.todo \subseteq Indexed' \cup scan'.todo
    BY <1>1, <2>1, <2>2 DEF Indexed
  <2>4. FoundInv'
    BY <1>3, <1>4, <2>1, <2>3 DEF FoundInv
  <2>5. SavingInv'
    BY <1>2, <1>4, <2>1 DEF SavingInv
  <2>6. QED
    BY <1>5, <2>1, <2>4, <2>5 DEF DueInv
<1>12. CASE Applied
  <2>1. /\ scan.at = "Apply" /\ scan.todo = {} /\ save.at = "No"
        /\ save' = save \/ save' = Saving(TRUE)
        /\ scan' = Idle \/ scan' = [Idle EXCEPT !.at = "Save"]
        /\ UNCHANGED <<files, last_scan_complete>>
    BY <1>12 DEF Applied
  <2>2. scan'.at \in {"Idle", "Save"}
    BY <2>1, DownTyped DEF ScanRecord
  <2>3. save' = save \/ (save'.at = "Stat" /\ save'.complete = last_scan_complete)
    BY <2>1, DownTyped DEF Saving, SaveRecord
  <2>4. FoundInv'
    BY <1>3, <1>4, <2>1, <2>2 DEF FoundInv, Indexed
  <2>5. SavingInv'
    BY <1>2, <1>4, <2>1, <2>2, <2>3 DEF SavingInv
  <2>6. ListedInv'
    BY <1>2, <1>3, <1>4, <2>3 DEF ListedInv, Trusted
  <2>7. QED
    BY <2>4, <2>5, <2>6 DEF DueInv
<1>13. QED
  BY <1>6, <1>7, <1>8, <1>9, <1>10, <1>11, <1>12 DEF ScanStep

(* While the server is up a change makes nothing due; while it is down     *)
(* what is new has the time of the moment.                                 *)
LEMMA ChangeDue ==
  ASSUME CacheInv, DueInv, NEW p \in Paths,
         \/ Delete(p)
         \/ \E t \in Texts : Write(p, t)
         \/ \E t \in Texts, m \in Times : MoveIn(p, t, m)
  PROVE  DueInv'
<1>1. PICK version \in VersionType :
        /\ Change(p, version)
        /\ \/ version = None /\ hidden' = hidden \ {p}
           \/ hidden' = hidden \cup {p}
           \/ /\ disk[p] # None \/ ~Up
              /\ version.mtime = clock /\ hidden' = hidden
           \/ disk[p] # None /\ Listed(p) /\ hidden' = hidden
  BY ChangeKinds
<1>2. /\ disk' = [disk EXCEPT ![p] = version]
      /\ save'.at = save.at /\ save'.complete = save.complete
      /\ save'.entries = save.entries
      /\ UNCHANGED <<clock, index_bin, files, last_scan_complete, scan>>
  BY <1>1, ChangeEffect
<1>3. /\ disk \in [Paths -> [text : Texts, mtime : Times] \cup {None}]
      /\ clock \in Nat
      /\ index_bin # None => index_bin.mtime \in Nat
  BY WorkspaceCacheAssumption DEF CacheInv, TypeOK, Times
<1>4. disk'[p] = version /\ \A q \in Paths : q # p => disk'[q] = disk[q]
  BY <1>2, <1>3
<1>5. SavingInv /\ ListedInv /\ FoundInv
  BY DEF DueInv
<1>6. SavingInv'
  BY <1>2, <1>5 DEF SavingInv
<1>7. Up => Due' \subseteq Due
  BY <1>1, <1>4 DEF Due, OnDisk
<1>8. ~Up => save.at = "No" /\ last_scan_complete = FALSE /\ scan.at = "Down"
  BY <1>5 DEF SavingInv, Up
<1>9. FoundInv'
  BY <1>2, <1>5, <1>7, <1>8 DEF FoundInv, Indexed
<1>10. save'.at = "Write" /\ save'.complete => Due' \subseteq Entries(save'.entries)
  BY <1>2, <1>5, <1>7, <1>8 DEF ListedInv
<1>11. ASSUME Trusted(index_bin), NEW q \in Due'
       PROVE  q \in Entries(index_bin.entries) \cup NewerThanCache'
  <2>1. q \in Paths /\ disk'[q] # None
    BY <1>11 DEF Due, OnDisk
  <2>2. WindowStart' = WindowStart
    BY <1>2 DEF WindowStart
  <2>3. index_bin # None /\ index_bin.mtime <= clock
    BY <1>5, <1>11 DEF Trusted, SavingInv
  <2>4. WindowStart <= clock
    BY <1>3, <2>3 DEF WindowStart
  <2>5. CASE q # p
    <3>1. q \in Due /\ disk'[q] = disk[q]
      BY <1>1, <1>4, <1>11, <2>1, <2>5 DEF Due, OnDisk
    <3>2. q \in Entries(index_bin.entries) \cup NewerThanCache
      BY <1>5, <1>11, <3>1 DEF ListedInv
    <3>3. QED
      BY <2>1, <2>2, <3>1, <3>2 DEF NewerThanCache, OnDisk
  <2>6. CASE q = p
    <3>1. version # None /\ q \notin hidden'
      BY <1>4, <1>11, <2>1, <2>6 DEF Due
    <3>2. version.mtime = clock \/ Listed(p)
      BY <1>1, <2>6, <3>1
    <3>3. CASE version.mtime = clock
      BY <1>3, <1>4, <2>1, <2>2, <2>4, <2>6, <3>3 DEF NewerThanCache, OnDisk
    <3>4. CASE Listed(p)
      BY <2>6, <3>4 DEF Listed, Entries
    <3>5. QED
      BY <3>2, <3>3, <3>4
  <2>7. QED
    BY <2>5, <2>6
<1>12. ListedInv'
  BY <1>2, <1>10, <1>11 DEF ListedInv, Trusted
<1>13. QED
  BY <1>6, <1>9, <1>12 DEF DueInv

LEMMA OtherDue ==
  ASSUME ~SavesWhileApplying, CacheInv, DueInv,
         SaveStat \/ SaveWrite \/ Shutdown \/ Exit \/ Outside \/ UNCHANGED vars
  PROVE  DueInv'
<1>1. /\ scan \in ScanRecord /\ save \in SaveRecord
      /\ files \in [Paths -> Texts \cup {None}] /\ last_scan_complete \in BOOLEAN
      /\ clock \in Nat
      /\ disk \in [Paths -> [text : Texts, mtime : Times] \cup {None}]
      /\ index_bin # None => index_bin.mtime \in Nat
  BY WorkspaceCacheAssumption DEF CacheInv, LocalsTyped, TypeOK, Times
<1>2. StepInv /\ SavingInv /\ ListedInv /\ FoundInv
  BY DEF CacheInv, DueInv
<1>3. ASSUME UNCHANGED <<disk, hidden>>
      PROVE  Due' = Due
  BY <1>3 DEF Due, OnDisk
<1>4. ASSUME UNCHANGED <<disk, index_bin>>
      PROVE  NewerThanCache' = NewerThanCache
  BY <1>4 DEF NewerThanCache, OnDisk, WindowStart
<1>5. CASE SaveStat
  <2>1. /\ UNCHANGED <<clock, disk, index_bin, files, last_scan_complete,
                       scan, hidden>>
        /\ save.at = "Stat" /\ save'.at = "Write" /\ save'.complete = save.complete
        /\ save'.entries = [p \in Paths |-> EntryFor(p)]
    BY <1>1, <1>5 DEF SaveStat, OutsideScan, SaveRecord
  <2>2. Indexed \subseteq Entries(save'.entries)
    <3>1. ASSUME NEW p \in Indexed
          PROVE  EntryFor(p) # None
      <4>1. p \in Paths /\ EntryFor(p) = [mtime |-> Mtime(p), size |-> SavedSize(p),
                                          text |-> files[p]]
        BY DEF Indexed, EntryFor
      <4>2. Mtime(p) \in Times /\ SavedSize(p) \in Nat /\ files[p] \in Texts
        BY <1>1, <4>1, WorkspaceCacheAssumption
           DEF Mtime, SavedSize, Indexed, Times
      <4>3. QED
        BY <4>1, <4>2, NoneAssumption DEF FileCacheEntry
    <3>2. QED
      BY <2>1, <3>1 DEF Entries, Indexed
  <2>3. SavingInv'
    BY <1>2, <2>1 DEF SavingInv
  <2>4. FoundInv'
    BY <1>2, <1>3, <2>1 DEF FoundInv, Indexed
  <2>5. save'.complete => Due \subseteq Indexed
    BY <1>2, <2>1 DEF SavingInv, FoundInv
  <2>6. ListedInv'
    BY <1>2, <1>3, <1>4, <2>1, <2>2, <2>5 DEF ListedInv, Trusted
  <2>7. QED
    BY <2>3, <2>4, <2>6 DEF DueInv
<1>6. CASE SaveWrite
  <2>1. /\ UNCHANGED <<clock, disk, files,
                       last_scan_complete>> /\ save.at = "Write"
        /\ save' = NotSaving /\ scan' = IF scan.at = "Save" THEN Idle ELSE scan
        /\ \/ UNCHANGED <<index_bin, hidden>>
           \/ /\ hidden' = hidden \ ListedForGood
              /\ index_bin' = [complete_scan |-> save.complete, mtime |-> clock,
                               entries |-> save.entries]
    BY <1>6 DEF SaveWrite, OutsideScan
  <2>2. save'.at = "No" /\ (scan' = scan \/ scan'.at = "Idle")
    BY <2>1, DownTyped
  <2>3. Due' \subseteq Due \cup ListedForGood
    BY <2>1 DEF Due, OnDisk
  <2>4. ListedForGood \subseteq Entries(save.entries) \cap Indexed
    BY DEF ListedForGood
  <2>5. scan.at \in {"Partition", "Parse", "Finalize", "Apply"} => ListedForGood = {}
    BY DEF ListedForGood
  <2>6. scan.at = "Down" => FALSE
    BY <1>2, <2>1 DEF SavingInv
  <2>7. SavingInv'
    BY <1>1, <1>2, <2>1, <2>2, <2>6 DEF SavingInv
  <2>8. FoundInv'
    <3>1. scan'.at = "Partition" /\ ~scan'.truncated => Due' \subseteq scan'.found
      BY <1>2, <2>2, <2>3, <2>5 DEF FoundInv
    <3>2. scan'.at \in {"Parse", "Finalize"} /\ ~scan'.truncated =>
            Due' \subseteq Entries(scan'.texts) \cup scan'.todo
      BY <1>2, <2>2, <2>3, <2>5 DEF FoundInv
    <3>3. scan.at # "Apply"
      BY <1>2, <2>1 DEF SavingInv
    <3>4. last_scan_complete' => Due' \subseteq Indexed'
      BY <1>2, <2>1, <2>3, <2>4, <3>3 DEF FoundInv, Indexed
    <3>5. QED
      BY <3>1, <3>2, <3>4 DEF FoundInv
  <2>9. ListedInv'
    <3>1. CASE UNCHANGED <<index_bin, hidden>>
      BY <1>2, <1>3, <1>4, <2>1, <2>2, <3>1 DEF ListedInv, Trusted
    <3>2. CASE index_bin' = [complete_scan |-> save.complete, mtime |-> clock,
                             entries |-> save.entries]
      <4>1. save.complete => Due \subseteq Entries(save.entries)
        BY <1>2, <2>1 DEF ListedInv
      <4>2. save.complete => Due' \subseteq Entries(index_bin'.entries)
        BY <2>3, <2>4, <3>2, <4>1
      <4>3. QED
        BY <2>2, <3>2, <4>2 DEF ListedInv, Trusted
    <3>3. QED
      BY <2>1, <3>1, <3>2
  <2>10. QED
    BY <2>7, <2>8, <2>9 DEF DueInv
<1>7. CASE Shutdown
  <2>1. /\ UNCHANGED <<clock, disk, index_bin, files, last_scan_complete,
                       scan, hidden>>
        /\ scan.at \notin {"Down", "Apply"} /\ save' = Saving(FALSE)
    BY <1>7 DEF Shutdown, ShutdownSaving, OutsideScan
  <2>2. save'.at = "Stat" /\ save'.complete = last_scan_complete
    BY <2>1, DownTyped DEF Saving, SaveRecord
  <2>3. SavingInv'
    BY <1>2, <2>1, <2>2 DEF SavingInv
  <2>4. FoundInv' /\ ListedInv'
    BY <1>2, <1>3, <1>4, <2>1, <2>2 DEF FoundInv, Indexed, ListedInv, Trusted
  <2>5. QED
    BY <2>3, <2>4 DEF DueInv
<1>8. CASE Exit
  <2>1. /\ UNCHANGED <<clock, disk, index_bin, hidden>>
        /\ save'.at = "No" /\ scan'.at = "Down" /\ last_scan_complete' = FALSE
    BY <1>8, DownTyped DEF Exit, OutsideScan
  <2>2. QED
    BY <1>2, <1>3, <1>4, <2>1 DEF DueInv, SavingInv, FoundInv, ListedInv,
       Trusted
<1>9. CASE Tick \/ UNCHANGED vars
  <2>1. /\ UNCHANGED <<disk, index_bin, files, last_scan_complete, scan,
                       save, hidden>>
        /\ clock' \in {clock, clock + 1}
    BY <1>9 DEF Tick, vars
  <2>2. SavingInv'
    BY <1>1, <1>2, <2>1 DEF SavingInv
  <2>3. FoundInv' /\ ListedInv'
    BY <1>2, <1>3, <1>4, <2>1 DEF FoundInv, Indexed, ListedInv, Trusted
  <2>4. QED
    BY <2>2, <2>3 DEF DueInv
<1>10. ASSUME NEW p \in Paths, Watched(p) \/ \E t \in Texts : Edit(p, t)
       PROVE  DueInv'
  <2>1. /\ UNCHANGED <<clock, disk, index_bin, last_scan_complete, scan,
                       save, hidden>>
        /\ \/ files' = [files EXCEPT ![p] = IF disk[p] = None THEN None ELSE disk[p].text]
           \/ \E t \in Texts : files' = [files EXCEPT ![p] = t]
    BY <1>10 DEF Watched, Edit, OutsideScan
  <2>2. Indexed \cap OnDisk \subseteq Indexed'
    <3>1. disk[p] # None => disk[p].text # None
      BY <1>1, WorkspaceCacheAssumption
    <3>2. QED
      BY <1>1, <2>1, <3>1, WorkspaceCacheAssumption DEF Indexed, OnDisk
  <2>3. FoundInv'
    BY <1>2, <1>3, <2>1, <2>2 DEF FoundInv, Due
  <2>4. SavingInv' /\ ListedInv'
    BY <1>2, <1>3, <1>4, <2>1 DEF SavingInv, ListedInv, Trusted
  <2>5. QED
    BY <2>3, <2>4 DEF DueInv
<1>11. QED
  BY <1>5, <1>6, <1>7, <1>8, <1>9, <1>10, ChangeDue, WorkspaceCacheAssumption
     DEF Outside

-----------------------------------------------------------------------------
(* Every reachable state.                                                  *)

LEMMA CacheHolds == Spec => [](CacheInv /\ TruthInv)
<1>1. CacheInv /\ [Next]_vars => CacheInv'
  BY ScanCache, OtherCache DEF Next
<1>2. CacheInv /\ TruthInv /\ [Next]_vars => TruthInv'
  BY ScanTruth, OtherTruth DEF Next
<1>3. QED
  BY InitCache, InitTruth, <1>1, <1>2, PTL DEF Spec

(* The index, the scan, the save and the file keep their types; a save     *)
(* that may shrink the file is always the one its scan waits for.          *)
THEOREM WorkspaceCacheTypeCorrect == Spec => []TypeOK
<1>1. CacheInv => TypeOK
  BY DEF CacheInv
<1>2. QED
  BY <1>1, CacheHolds, PTL

(* save_cache stamps an entry with the metadata of the moment, not those   *)
(* of the text it parsed: still no entry answers for a text that it is not *)
(* of, except where the file changed between parse and save.               *)
THEOREM CacheAlwaysTellsTruth == Spec => []CacheTellsTruth
<1>1. TruthInv => CacheTellsTruth
  BY DEF TruthInv, EntryTrue, CacheTellsTruth, Entries
<1>2. QED
  BY <1>1, CacheHolds, PTL

(* A scan that trusts the cache as its manifest, takes its hits and parses *)
(* the rest leaves the index that a cold scan would, over any number of    *)
(* sessions, kills and saves of other moments, as long as no shutdown      *)
(* saves an index that is being installed; but a file that changed         *)
(* meanwhile, came where warm discovery does not look or could not be read *)
(* is excepted, the last two until a cache lists it.                       *)
THEOREM WarmScansAreCold ==
  ASSUME ~SavesWhileApplying
  PROVE  Spec => []WarmScanIsCold
<1>1. CacheInv /\ DueInv /\ [Next]_vars => DueInv'
  BY ScanDue, OtherDue DEF Next
<1>2. TruthInv /\ DueInv => WarmScanIsCold
  <2> SUFFICES ASSUME TruthInv, DueInv, scan.at = "Idle", last_scan_complete,
                      NEW p \in Paths \ (apart \cup hidden)
               PROVE  files[p] = IF disk[p] = None THEN None ELSE disk[p].text
    BY DEF WarmScanIsCold
  <2>1. SameText(p, files[p])
    BY DEF TruthInv
  <2>2. disk[p] # None => files[p] # None
    BY DEF DueInv, FoundInv, Due, OnDisk, Indexed
  <2>3. QED
    BY <2>1, <2>2 DEF SameText
<1>3. QED
  BY InitDue, CacheHolds, <1>1, <1>2, PTL DEF Spec
===============================================================================
