# Specifications of kmp-lsp

kmp-lsp is a language server for Kotlin, Java and Swift.  One process serves one
editor: a transport thread answers requests from an in-memory index, an actor
handles the events that change the workspace, and background tasks scan the
workspace, crawl JARs, re-parse edited documents and publish diagnostics.  These
modules model the part of it that is hard to test: who may change the index
when, what a superseded task may still do, and what the editor ends up seeing.

All paths below are relative to the crate, `src/src/`.

## 1. Inventory

| Component | State it keeps | Operations | Hard behaviour | What makes it correct |
|---|---|---|---|---|
| **Workspace scan coordination** (`workspace/scan_handler.rs`, `scan_queue.rs`, `actor.rs`, `indexer/scan.rs`, `workspace_root.rs`) | root, staleness generation, `pinned`, the queue's flag and its one pending request, `indexing_in_progress`, `last_scan_complete`, caches on disk, `was_ready` | `Initialize`, `Reindex`, `ChangeRoot`, root switch by an opened document, scan task, completion signal, readiness edge | requests overtake running scans; a scan tests the generation and acts afterwards; panics; restarts on whatever cache is left | one scan at a time; the newest request wins; "ready" means the index of the root; completion only for installed results |
| **JAR pipeline** (`scan_handler.rs` 341-638, `indexer/jar.rs`, `jar_phase.rs`) | `jar_indexing_in_progress`, `jar_phase`, sidecar and its mutex, manifests, JAR data, `materialized`, `materialization_failed` | spawn, gate, clear, manifest, sources, terminal phase, abandonment, on-demand materialization, promotion | crawls coalesce; the gate waits for the workspace scan while the scan is still arriving; the sidecar is shared and may die | one crawl at a time, every crawl ends, the phase never sticks in loading, `Ready` means manifested, `materialized` means data |
| **Document synchronisation** (`backend/mod.rs` 165-257, `workspace/document_handler.rs`, `file_change_handler.rs`, `indexer/live_tree_impl.rs`) | `live_lines`, `live_trees`, the file's entry and hash, diagnostic generations, debounce handles, parse permits, published diagnostics | open, change, save, close, watched file changed/deleted, debounce, index, semantic diagnostics, republish | the transport writes the same maps as the actor; aborted tasks whose blocking part runs on; timers; out-of-order completion | everything settles on the editor's text; the last edit is diagnosed; publishes stay in order |
| **Index maps** (`indexer.rs`, `indexer/apply.rs`) | files, content hashes, definitions, qualified, subtypes, bare names, importable names, library set, completion epoch and cache | `index_content`, scan reset and apply, source paths, JAR population, removal, name-cache rebuild, completion | several maps updated one key at a time by jobs, scan and requests; caches rebuilt lazily by whoever comes first | derived maps hold exactly what the files declare; a clean name cache misses nothing; no stale list is stored |
| **Background enrichment** (`indexer/enrich.rs`) | dedup map, channel, debounced refresh flag | submit, look up, index, miss, refresh, clear | check, insert and send are separate; resets clear the record under way | no symbol is refused for ever; what was found is shown |
| **Workspace and library caches** (`indexer/cache.rs`, `discover.rs`) | `index.bin`: entries with times and sizes, completeness; library chunks with a manifest | load, save, warm discovery, freshness check, restore, shutdown's save | metadata read after parsing; a manifest trusted at start, also after reads that failed; torn multi-file saves | a hit is the content; a complete cache hides no file; a committed library is one save's |
| **JAR caches** (`jar_cache.rs`, `jar_manifest_cache.rs`, `sources_jar_cache.rs`) | one file shared by all processes; per-process map, throttle, fingerprint | load, merge, throttled save, flush | processes save in turn without a lock; kills; a sidecar that dies | a kill loses at most the pending tail; entries of others survive |
| **Java sidecar** (`sidecar.rs`, `java-sidecar/`) | child process, pipes | one request per JAR under one mutex | dies mid-request, is not started again | a dead sidecar is a failure, never silence |
| **Supertype walks** (`resolver/hierarchy.rs`) | visited set, budget of one walk | depth-first and breadth-first walk, promotion of JARs | cyclic and ambiguous hierarchies; a busy sidecar; budget and depth limits | a walk finds exactly the ancestors; the nearest wins |
| **Find-references and rename** (`features/references*.rs`, `rename.rs`) | one request: candidates, I/O budget, verdicts | verify, list, edit, refuse | evidence cut short by a budget; overrides in both directions | what is kept is related, what is rejected is not; an override stops a rename |
| **Backend** (`backend/`) | sender to the actor | LSP requests, commands, git watcher, shutdown | requests race the index | read-only; answers from a consistent snapshot |
| **Name resolution and missing imports** (`resolver/`, `features/import_diagnostics.rs`) | none; reads imports, index, JARs | the chain of steps under five IO policies, the diagnostic, its quick fix | the index and the JARs move under it; rg and fd slots run out; every step has a set of candidates and a tie-break | what is flagged cannot be reached; the fix makes the name reach what it offered |
| **Argument-count diagnostic** (`features/call_arg_diagnostics.rs`, `resolver/call_signature.rs`) | `sig_cache` of one run | resolve a signature per call, judge, remember | answers reused for later calls; JARs materialized during the run; ambiguous and inaccessible declarations | a flagged call fits nothing in scope; a plain mistake is flagged |
| **Type inference** (`indexer/infer/`, `resolver/infer.rs`) | none; a walk keeps a type's text and the file that spelled it | walk a chain of members, substitute type arguments, look a class up from a file | classes of one name in many files; arguments spelled in another file than the type they fill | the next read is of the class Kotlin means |
| **Other features** (`features/`) | none of their own | pure queries over the index | heuristics | - |
| **Parser, languages, semantic tokens, inlay hints** | none | tree to `FileData`, tokens, hints | none of state | data conversion |
| **ripgrep/fd, workspace.json, stdlib** | slots | subprocesses and files | a search without a slot finds nothing | I/O |
| **Progress, CLI, editor integrations** | none that others read | notifications, one sequential scan, clients | none | - |

How they interact.  The transport sends events over a channel to the **actor**
(`actor.rs` 91-116), which also listens to `scan_done` and `jar_done`.  Event
handlers enqueue scans and spawn crawls; both read and bump one shared
**generation**, by which a running task learns that it is superseded.  A crawl's
gate reads the workspace scan's queue and index; both end by waking the actor,
which publishes diagnostics again.  The transport writes `live_lines` and drops
`live_trees` itself (`backend/mod.rs` 176-190), beside the actor.

Everything this code is exposed to and a test would hardly reach is listed, with
its line and the property that covers it, under `hazards` in `PROJECT.json`.

## 2. Modules

| Module | Models | Used by |
|---|---|---|
| `LatestRequestWins` | what scan coordination promises, without mechanism | `ScanCoordinator` (refinement) |
| `ScanCoordinator` | actor, `ScanQueue`, `WorkspaceRoot`, scan tasks, caches, restarts | `MCScanCoordinator`, `ScanCoordinatorProofs` |
| `ScanCoordinatorProofs` | proofs: types, queue and guard, readiness, completion, refinement, what index and cache hold | - |
| `JarPipeline` | crawls, gate, phase, sidecar mutex, on-demand requests | `MCJarPipeline`, `JarPipelineProofs` |
| `JarPipelineProofs` | proofs: types, one crawl, the start-up's verdict and data, the phase settles | - |
| `DocumentSync` | one document, its notifications and the tasks they leave | `MCDocumentSync` |
| `IndexMaps` | the maps derived from files, the name caches, the completion cache | `MCIndexMaps`, `IndexProofs` |
| `Enrichment` | the enrichment worker and its callers | `MCIndexMaps`, `IndexProofs` |
| `WorkspaceCache` | `index.bin` over sessions, with clocks and outside changes | `MCCaches`, `WorkspaceCacheProofs` |
| `LibraryCache` | the chunked cache of source paths | `MCCaches`, `JarCacheProofs` |
| `JarSymbolCache` | the JAR symbol file shared by processes | `MCCaches`, `JarCacheProofs` |
| `TypeHierarchy` | the two supertype walks | `References` |
| `References` | verification of references, rename | `MCReferences`, `MCQueries`, `ReferencesProofs` |
| `CallArguments` | the argument-count diagnostic with its cache | `MCCallArguments`, `MCQueries`, `QueryProofs` |
| `NameResolution` | the resolution chain, the missing-import diagnostic, its fix | `MCNameResolution`, `MCQueries`, `QueryProofs` |
| `MemberChains` | the type of a chain of member reads and its anchor | `MCMemberChains`, `MCQueries`, `QueryProofs` |
| `IndexProofs` | proofs about `IndexMaps` (types, exactness of the maps at rest, hashes, name caches, stored completions) and `Enrichment` | - |
| `JarCacheProofs` | proofs about `LibraryCache` and `JarSymbolCache` | - |
| `ReferencesProofs` | proofs about `TypeHierarchy` and `References`: exact walks, verdicts, overrides | - |
| `DocumentSyncProofs` | proofs about `DocumentSync`: lines, permits, settled text, last edit, diagnostics filled in | - |
| `WorkspaceCacheProofs`, `QueryProofs` | proofs of their modules' types and safety properties (section 4) | - |

Components that share no state are checked in one run: an MC module
(`MCIndexMaps`, `MCCaches`, `MCQueries`) picks one of them in its initial state
and runs only that one.

Most modules have a type invariant, and all of these are proved (section 4).
None is among the runs' properties.

`map` in `PROJECT.json` gives, for every definition that models code, the lines
it stands for.

### ScanCoordinator

Requests are numbered as the actor takes them: request *n* owns `args[n]`
(`ScanArgs`), its position `pc[n]` and what its task captured (`scan[n]`).
`pc` runs `Handler` (the handler before `enqueue_scan`), then `Pending` or
`Start`, `Reset` (`reset_before_scan`), `Prioritize`, `Acquire` (the
`indexing_in_progress` guard), `Parse`, `Apply`, `Save`, `Release`, the three
steps of `index_source_paths`, `Signal` (`scan_done`), `Complete`
(`completion_tx`), `Done`; or `Cancel`/`Superseded` when the generation moved.
Each step is one stretch of code between two points where another thread may act.

* `HandleInitialize`, `HandleReindex`, `HandleChangeRoot`, `SwitchWorkspaceRoot`
  do what the handlers do before awaiting `enqueue_scan`; `EnqueueScan` is
  `enqueue_scan` (queue, bump, coalesce); `OnScanCompleted` takes the signal and
  starts what is pending.  `DetectReady`, part of every actor step, is the edge
  detector of the event loop.
* The generation bump and the staleness tests are at the places the code has
  them; the tests before and after the apply step are separate steps, which is
  what makes stale applies and stale saves possible.
* Files: the sources of a root are at most two units, the shallow ones that a
  capped scan keeps and the deep ones it leaves out.  There is no cap unless
  `KMP_LSP_MAX_FILES` sets one, and then it is one for full and prioritized scans
  alike (`resolve_max_files`): `capped` are the roots it cuts short, chosen anew
  by each process.  `cache[d]` is `index.bin` of root `d`: its files and the
  completeness flag; warm discovery takes a complete cache as the manifest,
  whatever the cap.
* `TaskParse` may lose any of the files it has to parse, as `parse_work_item`
  does when the read, the path's URL or the parse fails; the scan still counts as
  complete (`build_workspace_result`).  `unread` is the history of files whose
  last attempt failed; nothing in the code remembers it.
* `Restart` is a kill at any moment: all memory is lost, what is on disk stays.
  Cache writes are atomic (temporary file and rename).
* `TaskApplyPanics`: `apply_workspace_result` runs in `spawn_blocking`, whose
  join error the scan handles; part of the files is then in the index.

### JarPipeline

Event *n* may spawn crawl *n*.  A crawl's `at` walks the phases of
`spawn_jar_indexing`: the gate (generation, index, scanning, index again),
path resolution, the generation check, `clear_jar_maps`, the sidecar lock, one
manifest per step, sources, the last check, the terminal phase, the release of
the flag, the signal; `Abandon` is `abandon_stale_jar_scan`.  The workspace scan
is visible as what the crawl reads of it: scans owed (`scans`) and whether the
index holds a JVM source (`jvm`).  `request` is one on-demand materialization,
which tries the sidecar mutex and never waits for it.  JARs come from the Gradle
cache (only for a JVM workspace) and from the root's configuration.

### DocumentSync

One URI and its text, one of two values: everything is keyed by URI, and a
change always carries the whole text.  `client` and `disk` are the outside world;
`inbox` is the actor's channel, so a `did_change` updates `live_lines` before the
actor hears of it.  A *job* is a spawned task; `at` is its asynchronous part,
`work` its blocking closure (`index_content`: hash, store hash, store data),
`tree` its live-tree update, three threads that an abort separates.
`JoinHandle::abort` ends a job where it awaits; a closure that has started runs
on.  `parse_queue` and `parse_free` are the fair semaphore `parse_sem`.

`Places` and `Withdraw` are the cancelled `acquire` of an aborted task.

Timing assumption: reading a file and sending a publish take less than the
300 ms of the debounce; blocking work may take any time.  The editor opens
the text that is on disk, except when it restores unsaved text at its start.

Two premises of the properties say where the code ends.  `Undisturbed`: with a
second permit two parses of one file may overlap (section 6), and a scan, a
deletion or a write of the open file (`WatchOpen`) puts the text of the disk into
the index of an open document; a machine of two cores has one permit
(`document_handler.rs` 193).  `OneText`: when a document is closed and opened
again without an edit, and a scan made the second opening skip its semantic
diagnostics, a tree closure of an edit before the close may have put its tree
back, and the republication is then about that tree's text.

### IndexMaps

A text is known by the names it declares; a map is the number of entries of each
name in each file, so that duplicates and leftovers can be told from the right
content.  `definitions` stands for the maps old entries are removed from by key,
`subtypes` for those that are swept.  A *job* is one `index_content` call
(hash test, `invalidate_completion_cache` in its two steps, stale removal, hash,
file, maps, `bare_names_dirty`); the *task* is the scan's apply (reset in four steps, files, name
rebuild) and `index_source_paths` after it; `populate` is JAR population,
`request` a completion request, `rebuild` `rebuild_bare_name_cache` for whoever
called it.  `overlap` remembers which writers ran beside each other since the
last reset and limits what the properties claim (section 6).

### Enrichment

`caller` walks the three steps of `submit`, `requests` is the channel,
`looking_up` what the worker has taken from it, `seen` the dedup map.  `unshown`
is a history variable: what was indexed since the last refresh.

### WorkspaceCache, LibraryCache, JarSymbolCache

`WorkspaceCache` has one root, a clock in seconds and an outside that may write,
delete or move files at any step of a scan or a save; `touched`, `apart`,
`blurred` and `hidden` record what the mechanism cannot see, so that the
properties can be exact about everything else: `hidden` are the files that came
where warm discovery does not look and those a scan failed to read or parse
(`Parse`), until a cache lists them.  `LibraryCache` has the chunk files, the
manifest written last, kills in the middle, the two-tier freshness check with its
sample, restoring, and the slow path with reads and parses that fail; `unseen`
does there what `hidden` does here.  `JarSymbolCache` has processes
that load, merge and save one file; the fingerprint of a file is the number of
the write that made it.

### TypeHierarchy, References

A hierarchy is any set of declared supertypes, cycles and shared names included;
`cold` are the types of JARs that are not materialized.  `walk` is the stack of
classes being expanded: each spelled supertype is resolved (found, promoted,
dropped, or taken for a namesake), then entered; a class whose file cannot be
read seems to have none (`NoFileData`).  `missed` and `guessed` record that a walk
dropped or mistook a supertype.  `References` verifies one candidate after the
other with such walks and ends in a list, an edit or a refusal.  The walk for a
call starts from the first declaration its receiver's type name leads to
(`receiver_type_declaration_uri`), which may be a namesake's; `DeclarationsOf`
gives all it may be.  Classes are compared by simple name, as in the code, while
the properties speak of the classes themselves.

### CallArguments

One run of the diagnostic over calls of one name in one file.  A declaration is
a place (file, container, receiver) with a set of parameter counts it may have;
`ResolveCall` is `resolve_call_signature` behind the lookup in `sig_cache`,
`Judge` the comparison, `MaterializeJar` what a request thread does beside the
run.  A JAR's file has no file data, so import reachability fails open for it
(`resolver/call_signature.rs`), which the model keeps.  The diagnostic does not
run while the phase of the JARs is loading, so neither does the model.

### NameResolution

One name in one Kotlin file.  A declaration is known by its package;
directories mirror packages.  The steps of `resolve_chain` are operators that
give the set of answers a step may give, `Resolve(policy)` runs them in the
order of one of the five IO policies; a search by rg or fd may find nothing at
any time, because its slots may be taken.  `jars` says of each JAR whether it is
listed, cached or materialized.  Not in it: platform types, supertypes, dotted
names, Swift.

### MemberChains

One name for all members, so a chain is only its length.  A file declares one
class, with at most one type parameter and one supertype; `means` says what a
simple name means in each file, and several classes share a simple name.  A type
is the sequence of its names, `<<"B", "P">>` for `B<P>`.  `current_type` and
`current_uri` are what a walk carries: the text, and the file whose imports the
next lookup uses.  `walker` is one of three: `forward_resolve_segments`
(`"receiver"`, which keeps the receiver's type when a read fails), the chain of
`infer_member_access_type` (`"expression"`) and `infer_field_chain_type`
(`"names"`, which drops type arguments).  `ReadMember` is one read:
`Candidates`, own members before inherited ones (`FoundMember`), the arguments of
the direct supertype (`WithSuperArgs`), the receiver's arguments
(`Substituted`), and the file of the answer (`AnchorOf`).

Beside it `meant` follows Kotlin's own typing of the same chain, classes instead
of names.  `doubts` collects the gaps the code documents or section 6 lists: the
parameter of an inherited field, of an ancestor further up than the direct
supertype, an argument spelled in another file than the type it fills, a read
that failed.  A doubt stands for the rest of the chain.

`ChainAssumption` says what a program is: a scope gives a name to classes of that
name (import aliases are not modelled), a supertype is a class, and no parameter
has the name of a class.  `ChainInit` adds that it compiles: every name a class
spells is in scope, a generic supertype is given its argument, and the chain's
first read finds a member.

## 3. Runs

Run names, their configurations and exact properties are in `PROJECT.json`.
Sizes are distinct states.

| Run | Instance | Shows |
|---|---|---|
| `scan_safety` | 2 roots with source paths, 3 requests, 1 restart, symmetry; 1.2 million states | one scan at a time, guard free, newest waits, completion only for applied results, readiness only for the newest request, refinement of `LatestRequestWins` |
| `scan_restart` | 1 root with files a cap cuts off, 2 requests, 1 restart with or without a cap, reads may fail, apply may panic, fair; 255 000 states | readiness means the root's index, a complete cache holds its root, both but for what failed; requests settle, readiness is reached |
| `scan_wrong_root` | 2 roots | *violated*: see section 6 |
| `jar_liveness` | every kind of event, 2 of them, sidecar may die, 1 request, fair; 343 000 states | one crawl, the phase does not stick in loading, the gate's verdict at start-up, `materialized` means data, every crawl ends, suppressed diagnostics are computed again |
| `document` | either 4 notifications (open, change, save, close, outside write of the closed file) with 1 permit, or 2 events (open, change, close, delete, request, republish, reindex) against the first scan with 2 permits; 860 000 states | lines and index settle on the editor's text, the last edit is diagnosed and no earlier one's diagnostics stand, what the scan made the opening skip is published; everything comes to rest |
| `index_maps` | maps: a workspace file and a library file, 2 texts, 2 names, 2 jobs at once, 3 operations; enrichment: 2 symbols, 2 callers, 3 submits, 2 resets; 1.4 million states | exact maps, hash answers for data, nothing lost, complete bare names, no stale list stored; nothing pending without a request, what is found is shown |
| `caches` | workspace: 2 files, one of which may fail to be read, 3 texts, clock to 2, 2 changes, 2 scans; library: 3 files (2 nested), any of which may fail, 2 versions, chunks of 1, sample of 1, 2 sessions, 2 changes; JAR symbols: 2 processes, 3 JARs, throttle of 2; 6.8 million states | a hit tells the truth, a warm scan finds what a cold one would; a committed library is one save, it comes back; a kill loses the pending tail only |
| `jar_cache_erased` | 2 processes, 3 JARs | *violated*: see section 6 |
| `queries` | references: 3 types of 4 (walks of 4), 2 sharing a name, depth 3, budgets 1 and 3, 2 candidates; arguments: 7 declarations, 3 at once, 2 calls; resolution: 7 declarations, 3 at once, 5 headers; chains: 6 classes of 4 names, 6 scopes, 2 of them with the member, 3 reads; 3.8 million states | walks are exact, verdicts are right of the classes themselves, an override stops a rename; a flagged call fits nothing in scope, a typo is flagged; the tail of the chain picks the best candidate, the quick fix leads home, what is flagged cannot be reached; a chain reads the class Kotlin means |
| `rename_splits` | references, renames only | *violated*: see section 6 |
| `call_cache` | arguments | *violated*: see section 6 |
| `chain_anchor` | chains | *violated*: see section 6 |

Why the bounds are enough to be interesting.  Coalescing needs one request
running, one parked and one replacing it: three.  A wrong root needs two roots,
a wrong reuse one restart, and a cache that a failed read left short one as well:
the failure in one process, the warm start in the next.  A crawl superseding a crawl that superseded one needs
three events.  A debounce race needs an open, two edits and one thing more
(save, close, reopen): four.  The scan scenarios of `document` were also run
with three events (14.8 million states) without a violation.  An overlap in `IndexMaps` needs two
jobs or a job and a scan, and a third operation to see its trace.  In
`WorkspaceCache` an edit during a scan matters to the next session: two scans; a
second of the clock before and after the save: three seconds.  A torn library
save matters when an older one was larger: two sessions, two changes.  Two
processes with a throttle of two, a merge and a further save need three JARs.
`References` checks every hierarchy of three types with every request; a fourth
type (`SmallEnough`) is let in for the walk of a first call, which is what a
diamond needs, and left out where it would only multiply candidates.  A cached
answer is wrong for a second call at the earliest: two calls; ambiguity needs
two declarations and accessibility a third.  A tie-break of the chain decides
between two, and needs a third to decide wrongly for the fix.  A chain goes
wrong when one read crosses into a file, a second reads what that file bound and
a third uses it: three reads, two members, two namesakes of a plain and of a
generic class.

Deadlock checking is on for the document run, where `Rest` is the only step
of a state in which nothing is left to do, so that a job waiting for a permit or
a handler that never comes would be reported.  In the other runs the system
stops when the bounded events are used up.

### Fairness

`ScanCoordinator`: weak fairness of the actor's own steps (`EnqueueScan`,
`OnScanCompleted`) and of each task: tokio polls every ready task, and the
event loop's `select!` is not biased (`actor.rs` 95-97).  No event and no
restart is ever owed.  `JarPipeline`: weak fairness of the actor's handlers, of
the scan's end, of the request thread and of each crawl, the latter without
the step in which the sidecar dies, as a death is never owed.  Diagnosing and
new requests are not owed either.  `Enrichment`: weak fairness of the worker,
which waits for nothing but rg, and of a caller inside `submit`, which never
waits; resets, scans and submits are not owed.  `DocumentSync` needs no
fairness: its behaviours are acyclic, so the deadlock check together with the
properties of quiet states says what happens in the end.  The other modules
state safety only.

### Mutants

Next to a definition that a property turns on stands the same definition with a
plausible mistake (a dropped guard, a missed reset, a captured value taken too
early), marked "Mutant".  With the definition replaced by it the property fails,
which shows that the run can tell the difference.

## 4. What is proved

For every value of the constants, checked by TLAPS:

| Theorem | States | Hypothesis |
|---|---|---|
| **`ScanCoordinatorProofs`** | | |
| `TypeCorrect` | `[]TypeOK` | |
| `OneScan` | `[]OneScanAtATime` | |
| `ResetNeverRaces` | `[]GuardIsFree` | |
| `NewestWaits` | `[]PendingIsNewest` | |
| `ReadyIsLatest` | `[]ReadyServesLatest` | apply does not panic |
| `CompletionIsHonest` | `[]CompletionMeansApplied` | apply does not panic |
| `LatestWins` | `Spec` implements `LatestRequestWins` | apply does not panic |
| `CompleteCacheIsWhole` | `[]CompleteCacheHoldsRoot` | one root |
| `ReadyIndexIsWhole` | `[]ReadyIndexIsRoot` | one root |
| **`JarPipelineProofs`** | | |
| `JarTypeCorrect` | `[]TypeOK` | |
| `OneCrawl` | `[]OneCrawlAtATime` | |
| `NegativeVerdictsAreRight` | `[]NegativeVerdictIsRight` | |
| `MaterializedHoldsData` | `[]MaterializedHasData` | |
| `NeverLeftLoading` | `[]NeverStuckLoading` | no `ChangeRoot` |
| **`IndexProofs`** | | |
| `TypeCorrect` | `[]TypeOK` | |
| `IndexAgrees` | `[]IndexIsExact` | |
| `HashAnswers` | `[]HashAnswersForData` | |
| `NothingLost` | `[]NothingIsLost` | |
| `NamesAreComplete` | `[]BareNamesAreComplete` | |
| `ListsSeeJars` | `StoresSeeJars` | |
| `EnrichmentTypeCorrect` | `[]EnrichmentTypeOK` | |
| `PendingStaysUnderway` | `[]PendingIsUnderway` | |
| `UnshownStaysDue` | `[]UnshownIsDue` | |
| **`WorkspaceCacheProofs`** | | |
| `WorkspaceCacheTypeCorrect` | `[]TypeOK` | |
| `CacheAlwaysTellsTruth` | `[]CacheTellsTruth` | |
| `WarmScansAreCold` | `[]WarmScanIsCold` | no save inside an apply |
| **`JarCacheProofs`** | | |
| `LibraryTypeCorrect` | `[]LibraryTypeOK` | |
| `CommittedStaysWhole` | `[]CommittedIsWhole` | |
| `LibraryAlwaysComesBack` | `[]LibraryComesBack` | |
| `JarCacheTypeCorrect` | `[]JarCacheTypeOK` | |
| `LostTailStaysPending` | `[]LostTailIsPending` | saves do not fail |
| **`QueryProofs`** | | |
| `FlaggedCallsFitNothing` | `[]FlaggedCallFitsNothing` | |
| `TyposAreFlagged` | `[]TypoIsFlagged` | |
| `TailAlwaysPicksTheBest` | `[]TailPicksTheBest` | |
| `FixesLeadHome` | `[]FixLeadsHome` | |
| `FlaggedStaysUnreachable` | `[]FlaggedIsUnreachable` | |
| `NextReadsAreRight` | `[]NextReadIsRight` | |
| **`ReferencesProofs`** | | |
| `ReferencesTyped` | `[]ReferencesTypeOK` | |
| `WalksAreExact` | `[]WalkIsExact` | |
| `VerdictsAreAlwaysRight` | `[]VerdictsAreRight` | |
| `OverridesAlwaysStopARename` | `[]OverridesStopARename` | |
| **`DocumentSyncProofs`** | | |
| `DocumentTyped` | `[]TypeOK` | |
| `LiveLinesFollow` | `[]LinesFollow` | |
| `NoPermitIsLost` | `[]PermitsReturned` | |
| `TheTextSettles` | `[]TextSettles` | |
| `TheLastEditIsDiagnosed` | `[]LastEditIsDiagnosed` | |
| `DiagnosticsFilledIn` | `[]SemanticsFilledIn` | |

The assumptions on constants (`RootsAssumption`, `BoundsAssumption`,
`JarAssumption`, `IndexMapsAssumption`, `EnrichmentAssumption`, `WorkspaceCacheAssumption`,
`LibraryCacheAssumption`, `JarSymbolCacheAssumption`, `ArgumentsAssumption`,
`ResolutionAssumption`, `ChainAssumption`, `HierarchyAssumption`,
`DocumentAssumption`) give them their types, make the sets of files,
declarations and types finite, and set the values that stand for "nothing" apart from
those that stand for something (`NoneAssumption`, `AbsentAssumption`).  TLC
evaluates them in every run.

The hypotheses are where the property ends, and each is met by a run or by the
code:

* *Apply does not panic* (`~MayPanic`): the scan catches a panic of the apply
  step, announces its end and is not retried, so the newest request is then not
  served.
* *One root*: with a second one the run `scan_wrong_root` refutes both
  properties.  Restarts, coalesced requests, panics, failed reads and changed caps
  are still covered.
* *No `ChangeRoot`*: see section 6; production code never sends it.  The run
  `jar_liveness` sends it and stops at two events, one short of the
  counterexample: the property is then about `handler.kind` only.
* *No save inside an apply* (`~SavesWhileApplying`): the shutdown of section 6.
* *Saves do not fail* (`~SavesMayFail`): the throttle is reset whether or not the
  file was written (`save_jar_cache` returns nothing), so what a failed
  save left out is no longer counted as pending.

**`ScanCoordinatorProofs`.**  None of the properties is inductive.  `IndInv`
ties the queue's flag to the one working task and to the signal in the channel
(`OneScanAtATime`), the requests' positions to `issued`, `actor` and `pending`
(`NumberingInv`, `PendingInv`), `indexing_in_progress` to the phases that hold
it (`GuardInv`), orders the generations a task captured (`GenerationInv`), and
follows the newest request: it was served, or it waits or works with the current
generation, so the staleness tests cannot stop it (`LatestInv`, `ServedInv`).
The argument for `ReadyServesLatest`: only a task whose captured generation is
behind the current one gives up, only an enqueued request bumps the generation
while a task works, and it parks itself with the bumped value; so the newest one
is never given up, and when no task is left it must have been served.  A panic
breaks exactly this, hence the hypothesis.  The proof has a lemma per kind of
step, and in it one step per action.  `LatestWins` then maps each step: an event
is a `Request`, the apply of a task a `Serve` (of a request newer than the one
served, by `ServedInv`), the end of a scan an `Announce` or nothing
(`CompletedIndInv`), a restart a `Restart`; everything else stutters.  `RootInv`
adds what a task carries: the files it found are those of its root, up to its cap
and to what is `unread`, and at its save they are the index.  It holds whatever
fails and whatever cap a process runs under (`MayFail` and `capped` are free).  A
scan that trusts a complete cache parses nothing the cache lacks, so a file that
the cache lacks stays `unread`; a scan that parses in earnest is one whose root
has no complete cache, and nothing is claimed of the index until it is installed.

**`JarPipelineProofs`.**  `OwnerInv` adds the types of the crawls to
`OneCrawlAtATime`; `MoveOwner` states the four ways in which a crawl may change
its step and the flag together, and every action of a crawl is one of them.
`StartInv` is the history of the first event: before its spawn nothing was
materialized and no crawl lives (`SpawnInv`), its one scan leaves the index of
its root before a gate may say no (`GateInv`), a request finds data only behind
the crawl's clear step (`DataInv`).  `CrawlEffect` summarises all steps of a
crawl for it, so that the invariants are proved from the summary.  `PhaseInv`
says that a loading phase always has a crawl that is still to settle it, or an
event in hand that is still to spawn one.

**`IndexProofs`, `IndexMaps`.**  The maps are exact only at rest; `MapsInv` says what holds
while they are written.  A library file is exact at every step (`LibraryInv`): no
job is about it, and a reset keeps it.  A workspace file whose writers do not
overlap is exact until a job has removed what is stale and absent from the maps
from then on until the job inserts all of it (`ExactInv`), which works because
the job has meanwhile stored the hash and the data of the same text (`HashInv`).
Where jobs overlap, a name that is missing still has a job that will write it
(`ReachInv`).  Jobs and the scan's reset exclude each other as long as no overlap
is recorded (`ScanInv`).  An entry's count is bounded by the operations, a scan's
entries being owed from its start (`Counted`).  For the name caches, a process
inside `rebuild_bare_name_cache` is one that its caller waits for (`CallInv`); for
stored completions, what a request has not seen was announced after its epoch
(`SeenInv`).  One lemma per action that writes the maps, one (`QuietStep`) for
all that do not.

**`IndexProofs`, `Enrichment`.**  The channel is unbounded; `CallersCounted` bounds it by what
was submitted and not yet taken.  `PendingIsUnderway` is inductive with the
types, `UnshownIsDue` is the safety half of the liveness property `FoundIsShown`.

**`WorkspaceCacheProofs`.**  `TruthInv` follows a text from the disk through a
scan into the index, through a save into the cache and back into the next scan:
at each station it is the one on disk, or the file is in the history variable of
that station.  A file that could not be read has no text and is `hidden`.  `DueInv` does the same for the set of files (`SavingInv`,
`ListedInv`, `FoundInv`): what discovery has to find is in every complete cache
or newer than it.

**`JarCacheProofs`, `LibraryCache`.**  `SaveInv` follows a save chunk by chunk: what is
written and what is to do make up the entries, and there is room for the rest in
the chunks to come (`CeilDivCounts`).  `DriftInv` says how the freshness check
can tell that a committed save has been left behind: by a directory's time, or
by an entry that is sure to be sampled; a save that a failed read left short is
left behind from the start, and its missing files are `unseen`.

**`JarCacheProofs`, `JarSymbolCache`.**  The invariants are local to a process.  Another
one's rename raises the number of the file past all this one has seen, which is
all that need be known of it (`OthersStay`).  `TailInv`: while the file is the
one a process saw last, the throttle has counted what the file lacks.

**`QueryProofs`.**  For the diagnostic, `ArgumentsInv` dates each answer by the
JARs that were in when it was given: one as old as the index is one the resolver
would still give.  For name resolution the tie-breaks are lemmas about sets of
candidates; `FlaggedIsUnreachable` compares two definitions, the diagnostic's
and navigation's, and needs no invariant.

For chains, `ReadInv` says what the type a walk carries stands for: its head is,
in the file that anchors it, the class Kotlin means, and so is every argument,
unless an argument was spelled in another file than the head it is written under
(`RightSoFar`, `Stands`, `HeadStands`).  The arguments are needed although the
property speaks of the head only: the next read may return one.  A read first
finds the same member as Kotlin does (`LevelIs`: the resolver's ancestors are the
heads of the reference's types, level by level, `SameWay`; both are recursive
functions over the depth, which `Iterated` shows to have the values their
definitions say, by induction in the way of `ReferencesProofs` below).  Then what
it returns is one of three: a type without a parameter, which stands where it was
declared (`PlainRead`); the parameter of the class that was read, which the
receiver's arguments fill (`OwnParameterRead`); the parameter of the direct
supertype a method was inherited from, which is filled in the class's own file
(`InheritedParameterRead`).

**`ReferencesProofs`.**  The reference says what an ancestor is without a walk:
the ancestors of a class are the least set that contains what it declares and is
closed under `supers`; the nearest ones of a name are those of the first level
that has any, a level being what so many declarations lead to (`Reached`).  Of a
walk that has missed and guessed nothing so far, `NothingAdded` says that all it
has entered is above its start, and `NothingLost` that what an expanded class
declares has been entered or is still owed by a frame of the stack.  Depth first
that suffices: with no frame left the visited classes are closed, so they contain
the least closed set.  Breadth first, `Levels` says that what was visited before
the current level is `Reached[Level]`, which needs `LevelIsComplete` (the next
level has all of it) and `ReachedByLevel` (a recursive function over the numbers
has the values its definition says; proved by induction, stated as a fact about
sets of numbers, `SmallestFirst`, because the library's induction theorems take
an operator).  The depth stays below the number of classes, so neither the
depth nor the stack is a bound that the proof assumes: a walk that runs into
`MaxDepth` has missed something.  `VerifyInv` then ties a walk to the candidate
and the direction it was begun for, with what a walk begun at a namesake may not
claim; `VerdictsByName` says of simple names what `VerdictsAreRight` says of the
classes themselves; and `OverridesAreProven` ties each declaration
that was kept for its class to an entry of `proven_overrides`, on which the
rename gives up.

**`DocumentSyncProofs`.**  The properties of `DocumentSync` are about quiet
states, so none of them is inductive: `DocumentInv` says what holds on the way
there.  `InboxInv` is the channel: what its last word about the text says is what
the editor holds, so the lines follow when it is handled.  `TurnsInv` keeps edits
between an opening and the next close.  `JobsInv` (`Fits`) bounds the places of a
job by its kind, `LineInv` and `PermitInv` account for the semaphore: a task
stands in the line once, leaves it when it is aborted, and a permit is free or
with a closure, aborted or not.  Every event owes room for one task (`Typed`), so
nothing depends on the bound.  `PendingInv` is the argument for the generations:
the pending edit carries the newest number of the current `Arc`, so each check
lets it pass; an earlier edit is aborted, or was already publishing, which it
finishes before the debounce of the new one fires.

For the index, `Anchor(w)` names the job of the last word that the actor has
handled: it sleeps in its debounce, or waits in the line with nothing but its own
text behind it, or its closure runs, or it is done and the index is of the
editor's text.  The line is first in first out, so whatever was queued before,
closures of aborted edits included, is parsed before it (`AnchorJobKept`).  The
fast path of an unchanged hash is safe because hash and data are of one text but
between their two stores (`HashInv`), for which no two closures may overlap
(`OneActive`, the use of `Permits = 1`).  A task that reads the file finds the
editor's text, or is followed by an edit (`DiskInv`).

For `SemanticsFilledIn`, `TreeInv` says that trees, lines and requests are of the
document's own texts, and `FillInv` that an opening that skipped its diagnostics
has a scan that is not over, a workspace about to become ready, or a republication
on its way: the flag it read is cleared before `on_became_ready`.

Attempts that failed changed the models.  The proof of `NextReadIsRight` failed
for a class that hands its parameter on below a head, `class B<E> : C<S<E>>`: the
inherited member returns `S<E>` in B's file with the receiver's argument under
it, and nothing had been doubted.  It is the gap of section 6 by another way;
`Doubts` counts it now and the instance has such a class.  `SemanticsFilledIn` had been stated
without `OneText` and had passed its run; the proof led to a behaviour of four
events beside a scan in which it fails (section 6, the tree stored after a
close), and `TextSettles` is stated for one permit, where it had only been run.  The proof of `WarmScanIsCold` showed
that the history variable `hidden` forgot a file that was deleted and written
again between a save's look at it and its write; corrected, the property holds
without the exception it had.  The proof of `TypoIsFlagged` showed that
`Visible` gave a qualified call of an unknown receiver a declaration to fit.  A
`CASE` of the parse phase had two guards that could both be true, which gives it
no defined value.

Only model-checked: the liveness properties and everything under fairness
(`ENABLED` is out of the prover's reach), and that `DocumentSync` comes to rest
(its deadlock check).  No module of the project declares a `RECURSIVE` operator.

## 5. Not modelled

* Contents: syntax trees, symbols, manifests' names.  A file, a JAR and a text
  are atoms, or sets of names.
* Panics outside the caught apply step: a panic of the scan task itself would
  never send `scan_done` and park every later request.
* Source paths against a root switch: `IndexMaps` has one root.  A library file
  has one text there: the slow path adds contributions without removing older
  ones (`apply.rs` 970-972), so a library source that changed within a session
  would leave what it declared before.
* Documents of extracted JARs and documents outside the root; several documents
  sharing permits.
* The manifest cache of JARs and the cache of sources JARs; extraction.
* Qualified names, nested classes, Swift and the platform equivalents of
  built-in types in `NameResolution`; overloads beyond their counts in
  `CallArguments`.
* Type inference beyond chains of members: literals and operators, lambdas and
  their parameters, the strategies for calls, smart casts, extensions.
* The sidecar's protocol, the request handlers, parser, semantic tokens, CLI, editor integrations: stateless or pure I/O (table above).

## 6. Disagreements found

Five runs show the code do something else than a comment of it says.

* `scan_wrong_root`: the cache is saved after the last staleness check and under
  the root of that moment (`indexer/scan.rs` 960, 1080), so a root switch in
  between stores the old root's files as the complete manifest of the new root.
* `jar_cache_erased`: a save that merges entries of another process writes them
  and does not keep them, and takes the file for seen; its next save erases them
  (`indexer/jar_cache.rs` 224-257).
* `rename_splits`: a declaration of the same member in a class proved unrelated
  is kept as a name match and edited, while the calls of that class are rejected
  (`features/references_verify.rs` 208-216, `features/rename.rs` 154).
* `call_cache`: the cache of a diagnostic run is keyed by name and qualifier,
  while the answer depends on the number of arguments of the call that asked, so
  a call that fits is flagged (`features/call_arg_diagnostics.rs` 112).
* `chain_anchor`: the type of an inherited field is returned with the arguments
  its class gives the supertype and with the file of the supertype, in which the
  next read looks them up (`resolver/infer.rs` 1265); functions are returned with
  the file of the class (2280-2284).

Others were met while choosing the bounds, and limit what the passing runs
claim.  No run is kept for them.

Scan and JARs:

* A `Reindex` clears the manifests and is then coalesced into a running crawl
  that has passed them (`scan_handler.rs` 358).
* The crawl after a root switch drops JAR data and keeps the `materialized` marks
  (`scan_handler.rs` 582); a request in flight across a `Reindex` marks a JAR
  whose data is then dropped (`indexer/jar.rs` 1240).
* `ChangeRoot` between a crawl's terminal phase and its release leaves the phase
  `Pending` (`scan_handler.rs` 475-484), and an event coalesced after it does not
  mend that; production code never sends `ChangeRoot`, and `NeverStuckLoading`
  does not speak of it.
* A sidecar mutex held by a request is taken for a running crawl
  (`scan_handler.rs` 351-352).  A `Reindex` racing the gate can turn its verdict
  negative (`indexer/jar.rs` 304).  A superseded crawl's abandonment can
  overwrite the phase of the next one (`scan_handler.rs` 621-627).

Documents:

* The actor sets `live_lines` again from an event that is already behind the
  transport, so an older text shows for a moment (`file_change_handler.rs` 73).
* The publish of an opening has no generation check and can overwrite a newer
  edit's diagnostics or a close's clearing (`document_handler.rs` 299-303).
* Tree updates of two quick edits are unordered, so `live_trees` can keep the
  older one; a tree can be stored after a close (`file_change_handler.rs` 85-95),
  and with a quick close and reopening during a scan it replaces the tree of the
  reopened text: the republication of `on_became_ready` then diagnoses the older
  text, and the one the editor shows keeps no semantic diagnostics.
* Closing without saving leaves the unsaved text in the index; a scan's apply
  puts the disk's text over an open document's.  A debounced or opening job
  that ends late puts a deleted file back.

Index maps and enrichment:

* Two overlapping parses of a file can leave the hash of one text with the data
  of the other (`indexer/apply.rs` 1005-1007), so that the same text is then
  taken for indexed.  `TextSettles` is therefore checked with one permit, and
  `IndexIsExact` and `HashAnswersForData` except overlaps.
* `remove_indexed_file` keeps the content hash and the derived maps
  (`indexer.rs` 922-924): delete and re-create with the same text leaves the file
  out of the index, although `ensure_indexed` (951) says that it indexes it.
* `invalidate_completion_cache` drops the cached list before it moves the epoch
  (`indexer.rs` 941-947), so a request between the two stores a stale list under
  the check of `features/completion.rs` 256.
* Restored library chunks extend the maps without a look for duplicates
  (`apply.rs` 586-592), so a library restored twice is counted twice.
* `index_source_paths` captures the generation after reading the paths
  (`apply.rs` 743-748), and its fast path never tests it (817-865).
* Enrichment: dropping a stale request removes the entry of a newer one of the
  same symbol; two callers may submit one symbol twice; a miss in flight across
  a reset inserts its cooldown afterwards; a file of the old root found before
  the switch is indexed after it (`enrich.rs` 9-14).

Caches:

* A shutdown during a scan's apply saves what is there with the flag
  `last_scan_complete`, set before the apply (`backend/mod.rs` 147, `scan.rs`
  940): a partial cache marked complete.  `SavesWhileApplying` is therefore
  `FALSE` in the run.
* A file whose read, URL or parse fails (`scan.rs` 611-654) drops out of the scan,
  which is complete all the same (577; `parse_errors`, 554, is only logged).  Its
  cache is the manifest of the next starts, which do not look for an older file,
  so the file stays out until a full scan, an edit or a touch brings it back.
  `ReadyIndexIsRoot`, `CompleteCacheHoldsRoot` and `WarmScanIsCold` except exactly
  such files.  The same happens to a source of the library (`apply.rs` 941-951,
  `.ok()?`): the rest is committed, its freshness check passes, and the file is
  gone until something else makes the check fail.  `LibraryComesBack` excepts it.
* `KMP_LSP_MAX_FILES` caps the scans of both kinds (`scan.rs` 112-119); without
  it there is no cap (103).  A capped scan is not complete, is announced as ready
  all the same, and a later process with a higher cap scans in full; a complete
  cache is used whole, whatever the cap.  `ReadyIndexIsRoot` therefore claims of a
  truncated scan the shallow files only.
* The content hash of an entry is called the third guard (`cache.rs` 51-53) and
  is never compared (`scan.rs` 382).  A file moved in with an old time is not
  found by warm discovery.  A change in a nested library directory passes the
  freshness check.  `CacheTellsTruth`, `WarmScanIsCold` and `LibraryComesBack`
  except exactly these.

References:

* A walk that is cut short by the budget, a busy sidecar, its depth or an
  ambiguous name answers that there is no such ancestor, and the candidate is
  rejected as proved unrelated, against `hierarchy.rs` 322-325 and
  `references_verify.rs` 9-12.  `VerdictsAreRight` excepts such walks.
* The walk for a call starts at the first of the declarations of its receiver's
  name (`references_verify.rs` 235-249; `qualified.rs` 276-333 may give several):
  the hierarchy of a namesake may be walked, and a right call rejected for it.  A
  class whose file cannot be read seems to extend nothing (`hierarchy.rs`
  184-189).  Both are excepted with the walks above.
* Classes are compared by simple name (`references_verify.rs` 122-131,
  `hierarchy.rs` 361): a call on an unrelated class of the query's name, or below
  one, is kept as proved.  `VerdictsAreRight` therefore speaks of what is kept only
  where no other class has the query's name; of what is dropped it speaks always.
* A JAR that is materialized between the resolution of a call and the look for
  candidates that are not (`call_arg_diagnostics.rs` 112-157) makes its overloads
  neither seen nor suspected, and a right call can be flagged;
  `FlaggedCallFitsNothing` excepts calls judged across such a step.
* The reverse walk is made for declarations only, and after 48 units of I/O
  override declarations are kept unverified and edited.
* Two classes that override the same member of a library class are not seen to
  be related to each other.

Names and types:

* While `p.Foo` is not indexed, `import p.Foo` is answered by `p.sub.Foo`, because
  the test admits packages beneath (`resolver/imports.rs` 221, against 145 and 183).
* A type parameter of an ancestor further up is returned as it stands
  (`resolver/infer.rs` 1226-1230) and is then taken for the receiver's parameter
  of that name.  An argument under a substituted head (`List<T>`) is looked up in
  the head's file.  `NextReadIsRight` excepts these and what follows them.
* `receiver_based_method` looks the method up from the caller's file instead of
  the one the receiver's type came from (`chain.rs` 1038-1042).

## 7. Plan

Done: `LatestRequestWins`, `ScanCoordinator` with proofs, `JarPipeline` with its
ownership proof, `DocumentSync`, `IndexMaps`, `Enrichment`, the three caches,
`TypeHierarchy`, `References`, `CallArguments`, `NameResolution`, `MemberChains`.

Proved: the safety properties of all of these (section 4).

Next, in this order:

1. Composition of `ScanCoordinator` and `JarPipeline`: the gate on the real queue
   instead of `scans` and `jvm`.
2. The strategies for calls (`chain.rs` 840-1280) as further reads of
   `MemberChains`, with extensions.
