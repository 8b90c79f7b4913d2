# asset-resolver in TLA+

asset-resolver turns a FileDataID (or a path) of an installed game build into bytes or into
an extracted file. Its core is a handful of caches shared by threads and by processes: an
in-process registry of opened installations, per-build resolution tables on disk, extracted
files on disk, and a listfile. The installation it reads is patched by somebody else while it
runs. This directory specifies those caches, model-checks them on small instances with TLC,
and proves the most important results for all instances with TLAPS.

Source references are relative to the repository (`src/casc_cache.rs:86`).

## 1. Inventory

| Component | State | Operations | Used by / interacts with |
|---|---|---|---|
| Namespace publication (`casc_cache.rs`, `casc_resolver.rs:ensure_resolution_cache`) | on disk, per product/build/schema: `encoding.bin`, `root.bin`, `resolution.sqlite`, its sidecars; a lock file; private `.staging` directories | `publish_resolution_namespace`, `resolution_cache_is_fresh`, `CascResolutionCache::open`, the build | every process that extracts (`init_casc`), and `casc_refresh`; synchronised by `flock` only |
| Extraction and registry (`casc_resolver.rs`, `lib.rs`) | `static` registry of `OnceLock<Result<CascState>>` per (cache root, build); in each state two more set-once parts; extracted files | `ensure_file_cached_checked`, `resolve_bytes`, `initialize`, `write_to_path` | reads `.build.info` up to five times per call; calls the publisher; reads the key store |
| Listfile lookup (`listfile.rs`, local half of `listfile_cache.rs`) | two maps behind a mutex per process; local SQLite table | `lookup_fdid`, `lookup_path`, `remember`, `cache_local_path` | falls back to the community table and writes back |
| Community listfile cache (`listfile_cache.rs`, `with_community_cache`) | SQLite table rebuilt from a CSV; metadata of the source; a read-only connection per process | `CommunityCache::open`, `ensure_cache`, `cache_is_fresh`, `rebuild_cache` | several processes rebuild one file; somebody else replaces the CSV |
| TACT key import (`scripts/import_dbcache_keys.py`) | `tactkeys/WoW.txt` | `merge_store`, `write_store_atomic` under a lock file | read, without the lock, by `load_tact_keys` and the frozen archive reader |
| Installed build selection (`casc_resolver.rs`, `identity.rs`) | none of its own; `.build.info` | reading the unique active row | extraction, key loading |
| Runtime mode (`runtime_mode.rs`, `lib.rs`) | set-once process mode, counter, hook; the program's environment | `configure_runtime_mode_from_env`, `effective_runtime_mode`, `guard_casc_access` | every entry point |
| Path scoping (`paths.rs`, `identity.rs`) | none (pure) | `scoped_cache_path`, `remap_to_shared_data_path`, `asset_path` | destinations of extraction |
| Resolution maps (`casc_cache.rs`) | the maps and the table under construction | `collect_*`, `insert_resolution_rows`, `resolve_content_key_from_encoding` | the build inside publication |
| Frozen archive reader (`casc_resolver.rs`) | its keys, from open on | `open`, `read_encoding_key`, refusing zero-filled chunks | runtime mode guard at both; the key store |
| BLTE decoding (vendored) | none | decode, zero-filling chunks of unknown keys | extraction |
| Command line tools (`src/bin`) | none | argument parsing | the two first components |
| cascette-formats (vendored) | none | parsers | all of the above |

What is hard here, and what makes each component correct:

* **Publication** is lock, inspect, build privately, remove what is in the way file by file,
  rename, unlock, and then open *without* the lock. Kills, failing I/O, files rewritten during
  the build and directories left by an older in-place builder must never produce a namespace
  that passes for finished and is not, nor take a finished one from its readers.
* **Extraction** decides on a label, a registry key, a state and its keyring from separate
  reads of one file that a patch rewrites in between. Bytes must be those of the label, states
  must follow the installation, the set-once cells must not deadlock, and files appear by
  rename while others test and read them.
* **Listfile** lookups release the mutex between miss, query, insertion and persisting; the
  two indexes and two tables must keep describing one relation.
* **Community cache**: the freshness test, the rebuild and the stat it records are separate
  steps, in several processes, over a CSV that is replaced meanwhile and stamped in whole
  seconds. Readers must never lose rows or get older ones back.
* **Key import**: read-modify-write of one file by several processes that may fail or be
  killed; no import may be lost, and readers without the lock must see one whole store.
* **Runtime mode**: whoever asks first fixes it, also implicitly and from an environment that
  changes; the guard, its counter, its hook and the error arms must agree on it in every order.
* **Path scoping** is pure, but applied repeatedly and from two places: to a scoped path, to one
  of another build, below roots that may lie in each other.
* **Resolution maps**: a FileDataID and a content key may occur several times, and two loops
  read one encoding file by different rules; a row must join what belongs together.

`PROJECT.json` lists every hazard with its line and the properties that cover it.

## 2. Modules

    NamespacePublisher  <--- MCNamespacePublisher (3 runs), NamespacePublisherProofs
    AssetExtraction, ScopedPath <--- MCAssetExtraction (4 runs)
    AssetExtraction     <--- AssetExtractionProofs
    ScopedPath          <--- ScopedPathProofs
    Listfile            <--- MCListfile (2 runs), ListfileProofs
    CommunityCache      <--- MCCommunityCache (1 run), CommunityCacheProofs
    KeyStore, RuntimeMode <--- FrozenArchive <--- MCFrozenArchive (1 run), FrozenArchiveProofs
    ResolutionMaps      <--- MCResolutionMaps (1 run), ResolutionMapsProofs

`A <--- B`: B extends A. Five modules state what a component promises without saying how, and
the component instantiates its own under a refinement mapping:

| Component | promises | as the property | proved as |
|---|---|---|---|
| NamespacePublisher | `ImmutableNamespace` | `Implements` | `Refinement` |
| AssetExtraction | `AssetShelf` | `ImplementsShelf` | `ShelfRefinement` |
| Listfile | `EntryBook` | `ImplementsBook` | `BookRefinement` |
| CommunityCache | `CommunityTable` | `ImplementsTable` | `TableRefinement` |
| KeyStore, in FrozenArchive | `KeyLedger` | `ImplementsLedger` | `LedgerRefinement` |

**ImmutableNamespace** - the abstract promise of the resolution cache: a complete table
directory appears in one step, never changes, and every reader holds exactly it.

**AssetShelf** - a shelf with one place per build. A call finds something in a place, files whole
bytes in one, or reads bytes, at one moment between its start and its return. Bytes and places are
of builds that were not superseded when it began; only what a call finds may also stand in the
place that its receipt names, however old. A place may be filled again but never empties, and
never holds a build older than its name.

**EntryBook** - one book of entries that never changes and answers no query in two ways; each
lookup reads it at once. What is kept on disk or in memory is part of the book; only where a table
failed may a lookup miss what is in it.

**CommunityTable** - a table imported as a whole from one version of the listfile, replaced by
no older one, and there for whoever has opened it.

**KeyLedger** - pairs of a name and a value, added all at once or not at all; no name ever has
two values, and a reader holds one moment of the ledger.

**NamespacePublisher** - `casc_cache.rs:25-61, 86-215`. `final` is the directory at
`casc_dir`, `staging[p]` the private one of a process, both records of what the freshness test
distinguishes: the mtimes of the two binary files (0: missing), the database (none,
uncommitted, torn, committed), its metadata row, a sidecar. `lock` is the flock. One action per
step that another process can observe: `AcquireLock`, `Reuse`/`Distrust` (inspection under the
lock), `CreateStaging`, `WriteEncoding`, `WriteRoot`, `InsertRows`, `InsertMetadata`, `Commit`,
`Verify`, `RemoveFile` (`remove_dir_all`, one entry at a time in any order), `Rename`, `Cleanup`
(lines 98-104), `Probe` and `Connect` (`CascResolutionCache::open`). Three operations: `load`
(`init_casc`), `refresh` (`casc_refresh`), `open` (a bare open). `Error` makes any I/O call
fail, `Rewrite` changes a private file during the build (the case of `casc_cache.rs:190`),
`Kill` ends a process between any two steps and frees its lock. `Legacy` is what an in-place
builder may have left (`casc_cache.rs:146`).

**AssetExtraction** - `ensure_cached_checked`, `resolve_bytes` and `initialize` down to
`write_to_path`. `installed` is the active row as a reader sees it now (`Unreadable` while the
installer rewrites it), `cells[p][b]` the registry cell of a build with its two set-once parts
(`InitState`, `LocalAccessState`), `files[l]` what stands at the destination of a label, `temp`
the temporary sibling. Bytes are known by their build, by whether encrypted chunks are
zero-filled and by whether they are all there. `Lookup`, `Current`, `Recheck` are the
destination decisions of `ensure_file_cached_checked_with_paths`; `GetKey`, `EnterCell` are
`get_casc`; `OpenState`, `LoadKeys`, `OpenTables` are `init_casc`; then `EnsureInitialized`,
`Warm`, `Read...`, and the three steps of `write_to_path`. Encrypted bytes are read through the
key-aware access, which `OpenLocal` opens for whoever needs it first (`ReadWithKeys`); a plain read
that fails tries it too (`ReadFallback`). `CascError` is any other failure of a state, its tables
or its archives, recorded at the level it belongs to, and `DiskError` one of a write. The registry
mutex is held for the map entry only (`casc_resolver.rs:586-591`), so it is part of a step and
threads of different keys never wait for each other in the model. `StartPatch`/`FinishPatch` are the
installer, `ImportKey` the key import, `Kill` a process with all its threads. Publishing tables
is one step here, justified by `NamespacePublisher`'s refinement.

**Listfile** - `lookup_fdid` and `lookup_path` as the steps between which the mutex is free:
`LookupMemory`, `LookupLocal`, `LookupCommunity`, `FillMemory` (`cache_local_path`), `Remember`
(`remember` up to its early return), `Persist` (the IMMEDIATE transaction of
`remember_local_cache_entry`). `Lower` is `to_ascii_lowercase` as an idempotent function;
`Replace` is `INSERT OR REPLACE` with both unique keys. `TableError` is a table that cannot be
read or written, `Kill` the end of a process. `world` is the pair of tables a behaviour starts
with; every pair with the unique keys is allowed.

**CommunityCache** - `with_community_cache` down to `rebuild_cache`, in several processes.
`version` and `mtime` are the listfile, `db` the committed tables (which version's rows, which
recorded mtime), `draft` the open transaction, `lock` SQLite's writer, `hot` a killed writer's
journal. `SourceExists`, `CacheHasEntries`, `ReadMetadata`, `CompareMtime` are the decisions of
`ensure_cache` and `cache_is_fresh`, each a separate look at the disk; `InitCacheSchema`,
`ImportRows`, `RecordMetadata`, `Commit` are `rebuild_cache`; `Connect` and `LookupRow` the
read-only connection that a process keeps. `UpgradeRefused` and `LookupFails` are what SQLite
does to a deferred transaction without tables, and to a read-only connection before a hot
journal. `Replace`, `Remove` and `Tick` are whoever maintains the listfile and the clock; a
replacement is stamped with the time or with an mtime that an earlier listfile had, as a rewrite
that keeps it or a restored copy does (`listfile.rs:422-433`). `disturbed` is a ghost: some
replacement happened that a stat in seconds after the import cannot tell - in the same second, under
an earlier mtime, or during the import (`listfile_cache.rs:293-314`). `Listfile` takes one row of its answers as given.

**KeyStore** - `merge_store` and `write_store_atomic` of `import_dbcache_keys.py`. A store is a
partial map from key names to values; an import `Harvest`s one and then goes through `Lock`,
`ReadStore` or `RefuseConflict`, `WriteTemporary`, `Replace` (`os.replace`) and `Return`.
`Abandon`, possible at every point, is an exception or a kill: either closes the lock file.
`imported` is a ghost: what the imports that returned were asked to add.

**RuntimeMode** - `runtime_mode.rs` and the entry points that ask it. `mode` is `PROCESS_MODE`
(a set with at most one mode), `forbidden` the counter, `hook` the hook. `Configure`/`Select`
are the two halves of `configure_runtime_mode_from_env`: the environment is parsed before
`get_or_init`. `ReadMode` is `effective_runtime_mode`, with its implicit choice; `Panic` an
implicit choice from an invalid value. `LookForFile`, `AskMode`, `Guard`, `Count`, `Denied`,
`ErrorArm` are the points of a call, in its order; `Access` is everything behind the guard.
`SetEnv` and `SetHook` are the program around the resolver.

**FrozenArchive** - the two modules together, as `FrozenArchiveReader` uses them: `Open` and
`Read` are calls that the runtime mode lets through or not, `LoadKeys` reads the key store
while importers write it, `OpenWithoutKeys` is an open without a key file, `OpenFails` one where
something is missing or cannot be read, `ReadBytes` needs some keys and returns all of the content or an
error. Each step is one of `KeyStore`, of `RuntimeMode`, or of the reader with `RuntimeMode`.

**ScopedPath** - `scoped_cache_path`, `remap_to_shared_data_path` and the change of build in
`read_current_asset_path`, as operators on sequences of components. `Special` is whatever is
not a name: the root, `.`, `..`. `AssetExtraction` calls the results labels.

**ResolutionMaps** - the build's loops, a step a record, an entry or a row: `LocateEntry` is
`resolve_content_key_from_encoding`, `CollectRecord` and `CollectEntry` are the two `collect_*`
loops, `InsertRow` is `insert_resolution_rows` in the order of a hash map, which is any. `outer`
and `inner` are the block or page and the place in it. The files stay in the state: the properties
say without a loop what the loops find in them, as "the last place such that".

Operators named `...` with a comment `Mutant:` are deliberately wrong variants of the
definition that follows them. They take no part in the specifications: each was substituted for
its original to see that the property named in `PROJECT.json` catches that mistake.

## 3. Model checking

| Run | Instance | Shows |
|---|---|---|
| Publish | 3 processes, 1 kill, 1 failure, 6 initial directories, fair | types, `OneBuilder`, `NeverIncomplete`, `RefreshedIsComplete`, `OnlyOwnFaultsFail`; that the publisher implements `ImmutableNamespace`; that every call returns unless its process dies |
| PublishStatError | 2 processes, `StatMayFail` | *violated*: `PublishedIsImmutable` (finding 1) |
| PublishTornLegacy | a torn COMMIT as legacy | *violated*: `LoadedIsCommitted` (finding 2) |
| ExtractSafety | 3 threads in 2 processes, 2 builds, 2 calls, 1 forward patch, 1 failure, 1 kill, symmetry | types, `NeverOlderThanLabel`, `ReadsAreCurrent`, `UndisturbedIsExact`, `QualifiedIsDecoded`, `VisibleIsWhole`, `OneInitializerPerKey`, `CellsAreFinal`; that extraction implements `AssetShelf` |
| ExtractLiveness | 2 threads of one process, 1 patch, 1 failure, fair | nobody waits forever for a registry cell |
| ExtractLabel | 1 thread, 1 patch | *violated*: `LabelMatchesBytes` (finding 3) |
| ExtractRegistry | 2 threads, 2 patches, the second back to the first build | *violated*: `UndisturbedIsExact` (finding 4) |
| Listfile | 3 threads in 2 processes, 2 FileDataIDs, 2 paths and a second spelling, 5 pairs of tables, 3 calls, 1 failure, 1 kill, symmetry | types, `AnswersHaveASource`, `KnownIsFound`, `IndexesMirror`, `RememberedIsPersisted`, `MemoryStands`; with tables that agree, that lookups implement `EntryBook` |
| ListfilePriority | 1 thread, contradicting tables | *violated*: `LocalEntriesArePreferred` (finding 5) |
| CommunityCache | 2 processes, 3 versions of the listfile, 3 seconds, 3 queries, 1 failure, 1 kill, fair | types, `FreshIsCurrent`, `OpenedIsCurrent`, `QueriesReturn`; that the cache implements `CommunityTable` |
| FrozenArchive | 2 importers, 2 threads, 2 key names, 2 values, 3 calls or imports, 1 change of environment or hook, fair importers | types; that the store implements `KeyLedger`, and `ImportsReturn`; `AccessIsLocal`, `ConfirmedIsFinal`, `DenialsAreCounted`, `ExtractedMissesReport` of the mode; `ReadersHoldImports` of both |
| ResolutionMaps | 2 FileDataIDs, 2 content and 2 encoding keys; all root files of up to 2 blocks of 2 records with an encoding file of one entry, and the reverse | `LastVisibleRecordWins`, `RowsFollowLastRecord`, `LookupsAgree` |

Three properties need a word on what they say. `OneInitializerPerKey`: one thread of a process is
in the initializer of a registry cell, a cell that is being filled has such a thread - so whoever
waits, waits for somebody - and no call is past the cell before it is filled. `CellsAreFinal`: the
outcome in a cell, and in its state the build, the keys, and the outcomes of initializing the
installation and the key-aware access, are decided once. `MemoryStands`: both indexes keep every
entry, and what a lookup answers is what memory says from then on, with one exception that the
code has: a thread that has read its own row and is overtaken by another one that remembers a
contradicting row answers with its own (`listfile.rs:126-127, 146-156`).

`ScopedPath` has no behaviours. Its properties are constant formulas, which TLC evaluates over
bounded inputs in `MCAssetExtraction`: all paths of up to four components below each root, the
shared root, `data/`, `/` and nowhere, with absolute, relative and equal roots.

A property that a checked refinement implies is not checked a second time: `ReadersShareNamespace`,
`PublishedIsImmutable`, `ReturnedFileStands`, `LocalGrows`, `EntriesNeverRegress`, `KeysNeverChange`,
`ImportsAreKept`. Each is still a theorem.

**Bounds.** The bounds `MaxKills`, `MaxFaults`, `MaxCalls`, `MaxPatches` are guards of the
actions they limit and constants of the modules. Publication needs three processes for the case
that matters - one builds, one waits that inspected nothing yet, one reads. One kill is
enough for a builder killed while it clears what a killed one left: what an in-place builder left
is in `Legacy`. The proofs are for any number of kills and failures. Extraction needs two threads
of one process for the registry and a second process for the disk; one patch already separates
any two of a call's reads, and a return to an old build (`MayRevert`) needs a second one. Two
calls let two extractions overlap, or one follow the other. The listfile needs two
FileDataIDs, two paths and one path in a second spelling for every kind of collision; three
calls let a third lookup see what two raced on. Threads of one process are interchangeable, so
they are a symmetry set where a run checks no liveness property; the refinements checked with it
are `Init /\ [][Next]` formulas that are symmetric themselves. The community cache needs
two processes for a rebuild between another's freshness test and its own, and three versions
and three seconds for a replacement in the same second as well as in a later one, before and
after a rebuild, or under the first one's mtime after the second's was imported. Three queries let one process query, another rebuild, and the first query
again. Two importers with two names and two values merge, find nothing new, or conflict;
with three calls or imports a reader opens between two imports, and a thread configures, asks
and is denied while the other one does. `MaxChanges` 1 changes the environment once, from each
of four initial values. The loops of ResolutionMaps differ only in whether something comes before,
after or in between: two blocks of two records hold each of these, across blocks and within one.

**Fairness.** `FairSpec` asks weak fairness of each process's (thread's) `Step`: the operating
system runs it, `flock` is handed to some waiter when it is free, and `OnceLock` wakes all that
wait. With finitely many calls a lock that becomes free infinitely often ends up free for good,
so weak fairness is enough. SQLite's busy handler retries until its timeout, which is an
`Error`. Calls, patches, key imports, replacements, failures and kills are never forced. In
FrozenArchive only the importers are fair: `ImportsReturn` is the only liveness property there.

**Deadlock** is not checked: a bounded instance stops when its calls are used up, and a
process that never calls is a correct one. That nobody is stuck inside a call is what the
liveness runs check.

## 4. Proofs

`NamespacePublisherProofs` holds for every set of processes and any number of kills and
failures, under `Hypotheses`: `Inert(Legacy)` (a directory found at the start matches its
metadata only if it is complete) and `StatMayFail = FALSE`. Both are needed: findings 1 and 2
are what happens without them.

* `TypeCorrect` and `MutualExclusion` need only that `Legacy` are directories. `OneBuilder` is
  not inductive; `LockInv` says that a process in a locked section is the one in `lock`.
* The invariant `IInv` adds three parts. `StagingInv`: what each builder's private directory
  holds at each of its points, so that what `Verify` lets through is complete and it refuses only
  what was rewritten. `ResultInv`: at which points a result can be present, and that an error
  of an ensuring call has a fault of its own.
  `FinalInv`: the published directory is complete or its metadata does not match, also while it
  loses its files one by one (`RemovalKeepsUnfinished`); a process that stages, builds, removes
  or renames faces one that does not match, which nobody else can complete since it holds the
  lock; whoever is past its inspection or its probe, or has a result, relies on a complete one.
* From it follow `NeverIncompleteHolds`, `ReadersShare` (with `RefreshedIsComplete`),
  `FaultsAreOwn`, `PublishedStays`, and `Refinement`: each step is a `Publish`, an `Open`, a
  `Close` or a stutter of `ImmutableNamespace`.

`ListfileProofs` holds for all threads, processes, letter foldings, bounds and all starting
tables that satisfy their two unique keys.

* `TypeCorrect`, with `LookupInv` (a lookup carries the query and the row its next step needs).
* `AnswersAreGrounded`: `SourceInv` says that every copy of an entry, in the local table, in
  either index or in transit in a thread, is an entry of a table at the start. Agreement of the
  tables is not needed.
* `MemoryIsKept`: the indexes only ever fill empty places, and the step that answers leaves in memory
  what it answers, or it was overtaken. The latter needs `SourceInv`: the row in a thread's hands is
  of the tables, so `cache_local_path` finds its keys among the indexes' own.
* With tables that agree (`Agreeing`), a row is determined by either of its keys (`OneRow`).
  `AgreeInv` adds that the indexes are inverse to each other, that local entries are kept, that
  a thread asking the community table knows the local one has nothing, and that an entry in
  memory is in the local table *or in a thread about to write it* - the part without which
  `RememberedIsPersisted` is not inductive. `CacheMirror` is the core: both keys of a row are in
  memory or none is (`BothOrNone`), so an insertion is whole or changes nothing. It gives
  `IndexesAreMirrors`, `KnownAreFound`, `RememberedArePersisted`, `LocalOnlyGrows`.
* `BookRefinement`: agreeing tables are one book. Each lookup reads it in the step that
  finds its row in memory, or puts it there, or finds that no table has one; the queries before
  that step are hidden, and the write to disk after it keeps a part of the book. It needs one more invariant, `WriteInv`: what
  a thread is about to persist is in the memory of its process, so nothing is kept that its
  process does not hold. A miss answered by tables that do have the row is only possible where
  one of them failed.

`AssetExtractionProofs` holds for all threads, processes, builds and contents, and any number
of calls, patches, failures, kills and key imports.

* `CallsHaveShape` is the inductive invariant `Inv`. `Shape` says what a call carries at each of
  its points - a destination, a key, a state it is filling or reading, bytes that fit the
  destination - and that the thread inside an initializer is the one its cell is marked busy
  for; `StatesInv` what a state holds, `FilesInv` that a file at a destination is whole and, under a
  build, decoded. The thread actions need only disturb one cell (`CellMay`) and one file, so
  each is proved against those two and `Inv` follows for the other threads.
* From it: `TypeCorrect`, `VisibleFilesAreWhole`, `QualifiedFilesAreDecoded`,
  `ReturnedFilesStand`, and the action property `CellsStayFinal`. `OneInitializer` needs `BusyInv`
  besides: only the thread in the initializer can fill a cell, it fills it when it leaves, and a
  process that dies empties its cells.
* Under `~MayRevert` (patches only go forward) `BuildsInOrder` proves a second invariant: the
  build of the destination, of the key, of the state and the active build are in the order in
  which they were read, and all the same for a call that no patch overlaps. It gives
  `LabelsAreNotNewer`, `AnswersAreCurrent`, `UndisturbedCallsAreExact`. The assumption is needed:
  finding 4 is what happens without it.
* `ShelfRefinement`, under the same assumption, puts the parts together. `StepShows` sorts the
  steps of a call: one of them shows on the shelf - it finds a file (`LookupFinds`), renames one
  into place (`RenameFiles`), reads bytes (`ReadReads`) or leaves with nothing - and all others are
  hidden. `SettledInv` is the part that neither `Inv` nor `Order` has: a call with a receipt reads
  its destination after it began, so the place that it finds or fills is of a build installed
  since; `Order` bounds the place by the bytes and both by the present build.

`CommunityCacheProofs` holds for all processes and bounds. `StampInv` says that the recorded
mtime of an undisturbed cache is that of its rows' version, also for what is about to be
committed; `OpenAt` what each point of an open may rely on. The core of `OpensAreCurrent` is the
step from "the mtime I read is not the listfile's" to a rebuild under the write lock: whoever
rebuilt in between did so from a listfile at least as new. `EntriesOnlyAdvance` needs that the
listfile is read inside the transaction (`TablesInv`). `TableRefinement` says that the five looks at
the disk, the transaction and the connection are, to a query, one table: a commit is the import
of a whole version, no older than the present one; a connection is opened only where there is a table,
and is still open when its query looks the row up (`LookupInv`). Most steps are `Quiet` (they neither commit
nor go on in a transaction nor write the listfile), and every step is `Onward`, so that each part
of the invariant is proved against the import, its stat, the commit and a replacement only.

`FrozenArchiveProofs` proves `KeyStore` and `RuntimeMode` on their own - for all importers and
stores (`StoreCorrect`, `KeysStay`, `ImportsStay`), for every finite set of threads
(`DoorCorrect`, `OnlyLocalAccess`, `ConfirmationsStand`, `DenialsCount`, `MissesAreReported`) - then
that the composition implements both (`ImplementsStore`, `ImplementsDoor`), so that everything
carries over (`ComponentsHold`), and last what only the composition says, `ReadersAreCurrent`:
keys that a reader took from the store stay in it, since the store only grows (a reader that
was opened without a key file has none). `LedgerRefinement` is
about the store and its readers as one ledger of pairs: every step adds one whole addition, confirms
one that is there, shows a reader one moment, or nothing. It rests on `WholeAdditions`: what an
importer is about to write is the store *as it is* with its own harvest, which does not conflict
with it - true only while it holds the lock. In the store's
invariant the draft of whoever holds the lock is the merge of the *present* store; in the
mode's, a thread past a test of the mode has the mode fixed, and the counter is the denials that
were told plus the threads about to tell theirs.

`ResolutionMapsProofs` holds for all pairs of files, with any number of blocks, pages, records
and entries. The loops are steps of a state machine, so no induction over the files is needed: the
invariant `IInv` says what the maps are *so far*, as a statement about the places before the cursor
(`Before`, a strict total order), and each step moves the cursor by one place. The core is
`CollectRecordKeepsMap` and `CollectEntryKeepsMap`: an assignment makes the place at the cursor the last
of its key and leaves the last places of all other keys. `LoopsAreCorrect` gives `LastRecordsWin`,
`RowsFollow` (with `LastContentIsOne`: a FileDataID has one last record) and `LookupsDoAgree`.

`ScopedPathProofs` is about paths of any length and any roots of which neither lies in the other
(`RootsApart`): scoping is idempotent, builds never meet, the installed build's asset is always
found, remapping is idempotent. With nested roots - a shared root inside the source root - a scoped path
is below the source root and is scoped a second time.

Every safety property and every refinement that a passing run checks is a theorem. Only
model-checked: the liveness properties `CallsReturn` (twice), `QueriesReturn` and `ImportsReturn`
(liveness under fairness is beyond the proof system's backends), and the five violations, which are
counterexamples.

## 5. Findings

1. `casc_cache.rs:171` - any error of `stat` on `root.bin` or `encoding.bin` counts as a missing
   file. One such error under the lock makes the builder remove and replace a complete namespace
   that readers have open, against the comments at lines 86-88 and 146-147 (PublishStatError).
2. `casc_cache.rs:149` - `remove_dir_all` removes an unfinished directory in place and in any
   order. If the hot journal of a half-written COMMIT goes first and the builder is then killed,
   the database stands without it, passes for fresh, and is loaded (PublishTornLegacy). It takes
   a directory from an in-place builder, which the comment at line 146 names.
3. `casc_resolver.rs:384` and `:583` - the destination and the state come from two reads of
   `.build.info`; a patch in between files the new build's bytes under the old build's path,
   against `README.md:26-28` (ExtractLabel). What does hold is `NeverOlderThanLabel`.
4. `casc_resolver.rs:583` and `:606` - the registry key and the state stored under it come from
   two reads. A patch in between and a later return to the old build leave a wrong state for
   every later call of the process, against `README.md:21-23` (ExtractRegistry). Without a
   return to an older build `UndisturbedIsExact` holds.
5. `listfile.rs:192` - a lookup by path remembers the community row whatever the local table
   says of its FileDataID; memory and `INSERT OR REPLACE` then prefer the community entry,
   against `docs/specs/listfile-resolution.md:12` (ListfilePriority).

`docs/specs/installed-build-selection.md:9-11, 17` still describes an older design (selection
from `.product.db`, one process-wide state); `README.md:18-23` describes the code, and the
modules follow the code.

Two comments that the code does not contradict but that promise less than they seem to:
`listfile_cache.rs:9-10` has parallel workers wait for the lock "instead of dropping the entry
with SQLITE_BUSY", and the second of two *first* rebuilds is refused at once (`UpgradeRefused`;
its query is logged as a miss, and the next one opens again); `listfile_cache.rs:293-314` stats the
listfile after importing it, so a listfile replaced during the import is taken for imported until
it changes once more (the exception `disturbed` of `FreshIsCurrent`); a listfile rewritten under an mtime that an earlier one had is in the same
exception. `casc_cache.rs:250` keeps the "first encoding key per content": the first of one
entry's keys. Of several entries for one content key the last one wins (`ResolutionMaps`).

## 6. Not modelled

* Power failure: the code does not `fsync` what it renames (the key import syncs its file, not
  the directory), and what a file system then keeps is not visible in it. Kills are of processes.
* Parsing (`.build.info`, configurations, root, encoding, BLTE, CSV, DBCache, the key store's text),
  command line handling, logging, wording of errors. A parser appears by its outcome.
* The discovery of the installation (`discover_wow_install_path`), a walk over fixed candidates whose
  result - also "none" - is kept for the life of the process; and where the data roots come
  from. In every run the directories stay where they are.
* The key derivation and decryption of chunks; AssetExtraction has a chunk's key known or not,
  FrozenArchive has the set of keys that some content needs.
* More than one FileDataID or relative path in AssetExtraction: the code treats them
  independently once the registry cell is chosen.
* In NamespacePublisher the rows themselves; a database is committed or not. In CommunityCache
  the rows are known by the version of the listfile they were imported from, and a listfile replaced
  *while* it is read is read as one of the two versions, as after a replacement by rename.
* Clock resolution of mtimes in NamespacePublisher: a rewrite is assumed to change the second,
  as the code does.
* The command line tools and the vendored `cascette-formats`: argument parsing around operations
  that are modelled, and parsers.

## 7. Plan

Done: `NamespacePublisher`, `AssetExtraction`, `Listfile`, `CommunityCache` and `KeyStore`, each
with an abstract specification that it is proved to implement; `RuntimeMode`, `FrozenArchive`,
`ResolutionMaps`, `ScopedPath`; and the proofs of every safety property that a passing run checks.

What could still be added, in order of importance:

1. `Listfile` over `CommunityCache`: a community table that changes between two lookups.
2. `AssetExtraction` over `KeyStore`: key names instead of one key.
3. The choice of the active row among several products of one `.build.info`.
