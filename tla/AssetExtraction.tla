--------------------------- MODULE AssetExtraction ---------------------------
(***************************************************************************)
(* casc_resolver.rs: how threads turn a FileDataID into bytes or into a    *)
(* file while the installation is patched under them.  A call reads the    *)
(* active row of .build.info up to five times: for the destination, for    *)
(* the key of the process-wide registry of CASC states, and - in the one   *)
(* thread that creates a state - for the state itself, for its keyring     *)
(* and, if the resolution tables must be built, for the keyring again.     *)
(*                                                                         *)
(* One FileDataID and one relative path are modelled.  Builds are numbered *)
(* in the order of their release; 0 labels the unqualified destination and *)
(* also stands for an installation whose metadata cannot be read.  Bytes   *)
(* are known by the build they come from.  Publishing tables is one step   *)
(* here: NamespacePublisher shows that it behaves as one.                  *)
(***************************************************************************)
EXTENDS Naturals

CONSTANTS
    Threads, Procs,
    ProcOf,         \* the process of each thread
    LastBuild,
    Content,        \* what each build holds for the FileDataID
    MayRevert,      \* whether an older build may be installed again
    MaxCalls, MaxPatches, MaxFaults, MaxKills

ASSUME ConstantsAssumption ==
    /\ ProcOf \in [Threads -> Procs]
    /\ LastBuild \in Nat \ {0}
    /\ Content \in [1..LastBuild -> {"plain", "encrypted", "absent"}]
    /\ MayRevert \in BOOLEAN
    /\ MaxCalls \in Nat /\ MaxPatches \in Nat /\ MaxFaults \in Nat /\ MaxKills \in Nat

-----------------------------------------------------------------------------
Builds == 1..LastBuild
Unreadable == 0     \* no unique active row, or no build config
Unqualified == 0    \* the destination of a resolver without an identity
Labels == {Unqualified} \cup Builds

\* Decoded bytes: the build they come from, whether encrypted chunks were
\* zero-filled, whether all of them are there.
Bytes == [build : Builds, zeroed : BOOLEAN, whole : BOOLEAN]
NoBytes == [build |-> 0, zeroed |-> FALSE, whole |-> FALSE]

\* A registry cell: OnceLock<Result<CascState>> with the state's build, whether
\* its key store knows the key of the encrypted chunks, and its two lazily
\* initialized parts.
CellStates == [st : {"empty", "busy", "ok", "err"}, build : Labels, keys : BOOLEAN,
               init : {"no", "ok", "failed"}, local : {"no", "ok", "failed"}]
EmptyCell == [st |-> "empty", build |-> 0, keys |-> FALSE, init |-> "no", local |-> "no"]

VARIABLES
    installed,  \* the build of the active row, as a reader sees it now
    released,   \* the build last installed
    tables,     \* builds whose resolution namespace is published
    keyKnown,   \* whether tactkeys/WoW.txt holds the missing key
    files,      \* what stands at products/<product>/<build>/..., per label
    cells,      \* the registry of each process
    pc, op,
    want,       \* the build of the caller's receipt, or Unqualified
    dest,       \* the label the bytes will be filed under
    key,        \* the registry key of the call
    seen,       \* the build that the state being created belongs to
    got,        \* the bytes read
    temp,       \* the temporary sibling being written
    result,
    start,      \* ghost: the build installed when the call began
    disturbed,  \* ghost: a patch ran during the call
    calls, patches, faults, kills

disk == <<installed, released, tables, keyKnown, files>>
call == <<op, want, start, disturbed, calls>>
bounds == <<patches, faults, kills>>
vars == <<disk, cells, pc, dest, key, seen, got, temp, result, call, bounds>>

Init ==
    /\ installed = 1
    /\ released = 1
    /\ tables = {}
    /\ keyKnown = FALSE
    /\ files = [l \in Labels |-> NoBytes]
    /\ cells = [p \in Procs |-> [b \in Builds |-> EmptyCell]]
    /\ pc = [t \in Threads |-> "idle"]
    /\ op = [t \in Threads |-> "bytes"]
    /\ want = [t \in Threads |-> 0]
    /\ dest = [t \in Threads |-> 0]
    /\ key = [t \in Threads |-> 0]
    /\ seen = [t \in Threads |-> 0]
    /\ got = [t \in Threads |-> NoBytes]
    /\ temp = [t \in Threads |-> NoBytes]
    /\ result = [t \in Threads |-> "none"]
    /\ start = [t \in Threads |-> 0]
    /\ disturbed = [t \in Threads |-> FALSE]
    /\ calls = 0 /\ patches = 0 /\ faults = 0 /\ kills = 0

Set(f, t, value) == [f EXCEPT ![t] = value]
Goto(t, point) == pc' = Set(pc, t, point) /\ UNCHANGED result
Return(t, outcome) == pc' = Set(pc, t, "done") /\ result' = Set(result, t, outcome)
Cell(t) == cells[ProcOf[t]][key[t]]
SetCell(t, c) == cells' = [cells EXCEPT ![ProcOf[t]][key[t]] = c]
Exists(label) == files[label] # NoBytes

-----------------------------------------------------------------------------
(* The calls: ensure_cached_checked ("ensure"), resolve_bytes ("bytes") and *)
(* initialize ("warm").                                                     *)

Call(t) ==
    /\ pc[t] \in {"idle", "done"}
    /\ calls < MaxCalls
    /\ calls' = calls + 1
    /\ \E o \in {"ensure", "bytes", "warm"}, w \in Labels :
        /\ o # "ensure" => w = Unqualified
        /\ op' = Set(op, t, o)
        /\ want' = Set(want, t, w)
        /\ dest' = Set(dest, t, w)
        /\ pc' = Set(pc, t, IF o = "ensure" THEN "lookup" ELSE "key")
    /\ result' = Set(result, t, "none")
    /\ got' = Set(got, t, NoBytes)
    /\ start' = Set(start, t, released)
    /\ disturbed' = Set(disturbed, t, installed = Unreadable)
    /\ UNCHANGED <<disk, cells, key, seen, temp, bounds>>

\* ensure_file_cached_checked_with_paths: the receipt's own file first.
Lookup(t) ==
    /\ pc[t] = "lookup"
    /\ IF Exists(want[t]) THEN Return(t, "ok") ELSE Goto(t, "current")
    /\ UNCHANGED <<disk, cells, dest, key, seen, got, temp, call, bounds>>

\* Mutant: the bytes go to the receipt's own path.
CurrentReceipt(t) ==
    /\ pc[t] = "current"
    /\ Goto(t, "recheck")
    /\ UNCHANGED <<disk, cells, dest, key, seen, got, temp, call, bounds>>

\* read_current_asset_path: with a receipt, file the bytes under the installed
\* build instead.
Current(t) ==
    /\ pc[t] = "current"
    /\ \/ want[t] = Unqualified /\ Goto(t, "recheck") /\ UNCHANGED dest
       \/ /\ want[t] # Unqualified /\ installed # Unreadable
          /\ dest' = Set(dest, t, installed)
          /\ Goto(t, "recheck")
       \/ /\ want[t] # Unqualified /\ installed = Unreadable
          /\ Return(t, "err")
          /\ UNCHANGED dest
    /\ UNCHANGED <<disk, cells, key, seen, got, temp, call, bounds>>

Recheck(t) ==
    /\ pc[t] = "recheck"
    /\ IF Exists(dest[t]) THEN Return(t, "ok") ELSE Goto(t, "key")
    /\ UNCHANGED <<disk, cells, dest, key, seen, got, temp, call, bounds>>

-----------------------------------------------------------------------------
(* get_casc and init_casc *)

\* Mutant: a process keeps the state it opened first.
GetKeyOnce(t) ==
    /\ pc[t] = "key"
    /\ IF installed = Unreadable
       THEN Return(t, "err") /\ UNCHANGED key
       ELSE /\ LET opened == {b \in Builds : cells[ProcOf[t]][b].st = "ok"}
               IN  key' = Set(key, t, IF opened = {} THEN installed
                                      ELSE CHOOSE b \in opened : TRUE)
            /\ Goto(t, "cell")
    /\ UNCHANGED <<disk, cells, dest, seen, got, temp, call, bounds>>

GetKey(t) ==
    /\ pc[t] = "key"
    /\ IF installed = Unreadable
       THEN Return(t, "err") /\ UNCHANGED key
       ELSE key' = Set(key, t, installed) /\ Goto(t, "cell")
    /\ UNCHANGED <<disk, cells, dest, seen, got, temp, call, bounds>>

\* Mutant: a check of the cell and a later store instead of a OnceLock.
EnterCellUnmarked(t) ==
    /\ pc[t] = "cell"
    /\ \/ Cell(t).st = "empty" /\ Goto(t, "open")
       \/ Cell(t).st = "ok" /\ Goto(t, "init")
       \/ Cell(t).st = "err" /\ Return(t, "err")
    /\ UNCHANGED <<disk, cells, dest, key, seen, got, temp, call, bounds>>

\* OnceLock::get_or_init: the first thread creates the state, others wait.
EnterCell(t) ==
    /\ pc[t] = "cell"
    /\ Cell(t).st # "busy"
    /\ \/ /\ Cell(t).st = "empty"
          /\ SetCell(t, [Cell(t) EXCEPT !.st = "busy"])
          /\ Goto(t, "open")
       \/ Cell(t).st = "ok" /\ Goto(t, "init") /\ UNCHANGED cells
       \/ Cell(t).st = "err" /\ Return(t, "err") /\ UNCHANGED cells
    /\ UNCHANGED <<disk, dest, key, seen, got, temp, call, bounds>>

\* Mutant: the initializer returns without filling the cell.
LeaveCellBusy(t) == Return(t, "err") /\ UNCHANGED cells

\* An error of init_casc is stored in the cell for good.
FailCell(t) == SetCell(t, [Cell(t) EXCEPT !.st = "err"]) /\ Return(t, "err")

\* Mutant: unreadable build metadata is not noticed.
OpenAnyState(t) ==
    /\ pc[t] = "open"
    /\ seen' = Set(seen, t, installed)
    /\ Goto(t, "keys")
    /\ UNCHANGED <<disk, cells, dest, key, got, temp, call, bounds>>

OpenState(t) ==
    /\ pc[t] = "open"
    /\ IF installed = Unreadable
       THEN FailCell(t) /\ UNCHANGED seen
       ELSE seen' = Set(seen, t, installed) /\ Goto(t, "keys") /\ UNCHANGED cells
    /\ UNCHANGED <<disk, dest, key, got, temp, call, bounds>>

\* load_tact_keys: the keyring comes from an active row of the same build.
LoadKeys(t) ==
    /\ pc[t] = "keys"
    /\ IF installed # seen[t]
       THEN FailCell(t)
       ELSE /\ SetCell(t, [Cell(t) EXCEPT !.keys = keyKnown])
            /\ Goto(t, "tables")
    /\ UNCHANGED <<disk, dest, key, seen, got, temp, call, bounds>>

\* ensure_resolution_cache and open; a builder loads the keyring once more.
OpenTables(t) ==
    /\ pc[t] = "tables"
    /\ IF seen[t] \notin tables /\ installed # seen[t]
       THEN FailCell(t) /\ UNCHANGED tables
       ELSE /\ tables' = tables \cup {seen[t]}
            /\ SetCell(t, [Cell(t) EXCEPT !.st = "ok", !.build = seen[t]])
            /\ Goto(t, "init")
    /\ UNCHANGED <<installed, released, keyKnown, files, dest, key, seen, got, temp, call, bounds>>

-----------------------------------------------------------------------------
(* CascState: the installation and the key-aware archive access *)

\* Mutant: an installation that could not be initialized is tried again.
EnsureInitializedAgain(t) ==
    /\ pc[t] = "init"
    /\ SetCell(t, [Cell(t) EXCEPT !.init = "ok"])
    /\ Goto(t, IF op[t] = "warm" THEN "warm" ELSE "read")
    /\ UNCHANGED <<disk, dest, key, seen, got, temp, call, bounds>>

EnsureInitialized(t) ==
    /\ pc[t] = "init"
    /\ IF Cell(t).init = "failed"
       THEN Return(t, "err") /\ UNCHANGED cells
       ELSE /\ SetCell(t, [Cell(t) EXCEPT !.init = "ok"])
            /\ Goto(t, IF op[t] = "warm" THEN "warm" ELSE "read")
    /\ UNCHANGED <<disk, dest, key, seen, got, temp, call, bounds>>

\* ensure_local_access: whoever needs the key-aware access first opens it.
OpenLocal(t) == SetCell(t, [Cell(t) EXCEPT !.local = IF @ = "no" THEN "ok" ELSE @])

\* initialize() warms the key-aware access; its failure is only logged.
Warm(t) ==
    /\ pc[t] = "warm"
    /\ OpenLocal(t)
    /\ Return(t, "ok")
    /\ UNCHANGED <<disk, dest, key, seen, got, temp, call, bounds>>

\* What the tables of the state's build give: plain bytes by encoding key; for
\* encrypted ones the key-aware access, which zero-fills what it cannot decrypt.
Decoded(c) ==
    [build |-> c.build, whole |-> TRUE,
     zeroed |-> Content[c.build] = "encrypted" /\ ~c.keys]

\* Mutant: the file is written whatever it misses.
AcceptZeroed(t, bytes) ==
    IF op[t] = "bytes" THEN Return(t, "ok") ELSE Goto(t, "write")

\* With an identity, a zero-filled file is an error instead (line 476).
Accept(t, bytes) ==
    IF op[t] = "bytes" THEN Return(t, "ok")
    ELSE IF want[t] # Unqualified /\ bytes.zeroed THEN Return(t, "err")
    ELSE Goto(t, "write")

ReadPlain(t) ==
    /\ pc[t] = "read"
    /\ Content[Cell(t).build] = "plain"
    /\ got' = Set(got, t, Decoded(Cell(t)))
    /\ Accept(t, Decoded(Cell(t)))
    /\ UNCHANGED <<disk, cells, dest, key, seen, temp, call, bounds>>

\* read_file_by_encoding_key_with_keys
ReadWithKeys(t) ==
    IF Cell(t).local = "failed"
    THEN Return(t, "err") /\ UNCHANGED <<cells, got>>
    ELSE /\ OpenLocal(t)
         /\ got' = Set(got, t, Decoded(Cell(t)))
         /\ Accept(t, Decoded(Cell(t)))

ReadEncrypted(t) ==
    /\ pc[t] = "read"
    /\ Content[Cell(t).build] = "encrypted"
    /\ ReadWithKeys(t)
    /\ UNCHANGED <<disk, dest, key, seen, temp, call, bounds>>

\* "FDID absent from <product> build <key>": no listfile fallback.
ReadAbsent(t) ==
    /\ pc[t] = "read"
    /\ Content[Cell(t).build] = "absent"
    /\ Return(t, "err")
    /\ UNCHANGED <<disk, cells, dest, key, seen, got, temp, call, bounds>>

-----------------------------------------------------------------------------
(* write_to_path *)

\* Mutant: the destination itself is created and filled.
StartWriteInPlace(t) ==
    /\ pc[t] = "write"
    /\ temp' = Set(temp, t, [got[t] EXCEPT !.whole = FALSE])
    /\ files' = Set(files, dest[t], [got[t] EXCEPT !.whole = FALSE])
    /\ Goto(t, "flush")
    /\ UNCHANGED <<installed, released, tables, keyKnown, cells, dest, key, seen, got, call, bounds>>

StartWrite(t) ==
    /\ pc[t] = "write"
    /\ temp' = Set(temp, t, [got[t] EXCEPT !.whole = FALSE])
    /\ Goto(t, "flush")
    /\ UNCHANGED <<disk, cells, dest, key, seen, got, call, bounds>>

FinishWrite(t) ==
    /\ pc[t] = "flush"
    /\ temp' = Set(temp, t, got[t])
    /\ Goto(t, "rename")
    /\ UNCHANGED <<disk, cells, dest, key, seen, got, call, bounds>>

\* Mutant: the active build is read again for the path to write.
RenameToActive(t) ==
    /\ pc[t] = "rename"
    /\ files' = Set(files, installed, temp[t])
    /\ temp' = Set(temp, t, NoBytes)
    /\ Return(t, "ok")
    /\ UNCHANGED <<installed, released, tables, keyKnown, cells, dest, key, seen, got, call, bounds>>

Rename(t) ==
    /\ pc[t] = "rename"
    /\ files' = Set(files, dest[t], temp[t])
    /\ temp' = Set(temp, t, NoBytes)
    /\ Return(t, "ok")
    /\ UNCHANGED <<installed, released, tables, keyKnown, cells, dest, key, seen, got, call, bounds>>

-----------------------------------------------------------------------------
(* Failures *)

Fault ==
    /\ faults < MaxFaults
    /\ faults' = faults + 1
    /\ UNCHANGED <<disk, dest, key, seen, call, patches, kills>>

\* Opening a state, its tables or its archives fails; the outcome is cached at
\* the level it belongs to: the cell, the installation, the key-aware access.
\* A read fails after it has tried the latter.
CascError(t) ==
    /\ Fault
    /\ \/ pc[t] \in {"open", "keys", "tables"} /\ FailCell(t)
       \/ /\ pc[t] = "init" /\ Cell(t).init = "no"
          /\ SetCell(t, [Cell(t) EXCEPT !.init = "failed"])
          /\ Return(t, "err")
       \/ /\ pc[t] = "warm" /\ Cell(t).local = "no"
          /\ SetCell(t, [Cell(t) EXCEPT !.local = "failed"])
          /\ Return(t, "ok")
       \/ /\ pc[t] = "read" /\ Content[Cell(t).build] # "absent"
          /\ \/ OpenLocal(t)
             \/ Cell(t).local = "no" /\ SetCell(t, [Cell(t) EXCEPT !.local = "failed"])
          /\ Return(t, "err")
    /\ UNCHANGED <<got, temp>>

\* read_file_by_encoding_key: what the installation cannot read by encoding key
\* is read through the key-aware access, with the same bytes.
ReadFallback(t) ==
    /\ Fault
    /\ pc[t] = "read"
    /\ Content[Cell(t).build] = "plain"
    /\ ReadWithKeys(t)
    /\ UNCHANGED temp

\* Mutant: a failed write removes what stands at the destination.
DiskErrorRemoves(t) ==
    /\ faults < MaxFaults
    /\ faults' = faults + 1
    /\ pc[t] \in {"write", "flush", "rename"}
    /\ temp' = Set(temp, t, NoBytes)
    /\ files' = Set(files, dest[t], NoBytes)
    /\ Return(t, "err")
    /\ UNCHANGED <<installed, released, tables, keyKnown, cells, dest, key, seen, got, call, patches, kills>>

\* A write or a rename fails; only the failed rename removes its
\* temporary file, and no later call reads one that stays behind.
DiskError(t) ==
    /\ Fault
    /\ pc[t] \in {"write", "flush", "rename"}
    /\ temp' = Set(temp, t, NoBytes)
    /\ Return(t, "err")
    /\ UNCHANGED <<cells, got>>

Failure(t) == CascError(t) \/ ReadFallback(t) \/ DiskError(t)

\* A process dies with all its threads and its registry.
Kill(p) ==
    LET Reset(f, value) == [t \in Threads |-> IF ProcOf[t] = p THEN value ELSE f[t]]
    IN  /\ kills < MaxKills
        /\ kills' = kills + 1
        /\ cells' = [cells EXCEPT ![p] = [b \in Builds |-> EmptyCell]]
        /\ pc' = Reset(pc, "idle")
        /\ result' = Reset(result, "none")
        /\ got' = Reset(got, NoBytes)
        /\ temp' = Reset(temp, NoBytes)
        /\ UNCHANGED <<disk, dest, key, seen, call, patches, faults>>

-----------------------------------------------------------------------------
(* The world outside: the installer, and the import of a key *)

StartPatch ==
    /\ patches < MaxPatches
    /\ installed # Unreadable
    /\ patches' = patches + 1
    /\ installed' = Unreadable
    /\ disturbed' = [t \in Threads |-> disturbed[t] \/ pc[t] \notin {"idle", "done"}]
    /\ UNCHANGED <<released, tables, keyKnown, files, cells, pc, dest, key, seen, got,
                   temp, result, op, want, start, calls, faults, kills>>

FinishPatch ==
    /\ installed = Unreadable
    /\ \E b \in Builds :
        /\ MayRevert \/ b >= released
        /\ installed' = b
        /\ released' = b
    /\ UNCHANGED <<tables, keyKnown, files, cells, pc, dest, key, seen, got, temp,
                   result, call, bounds>>

ImportKey ==
    /\ ~keyKnown
    /\ keyKnown' = TRUE
    /\ UNCHANGED <<installed, released, tables, files, cells, pc, dest, key, seen, got,
                   temp, result, call, bounds>>

Step(t) ==
    \/ Lookup(t) \/ Current(t) \/ Recheck(t) \/ GetKey(t) \/ EnterCell(t)
    \/ OpenState(t) \/ LoadKeys(t) \/ OpenTables(t) \/ EnsureInitialized(t) \/ Warm(t)
    \/ ReadPlain(t) \/ ReadEncrypted(t) \/ ReadAbsent(t)
    \/ StartWrite(t) \/ FinishWrite(t) \/ Rename(t)

Next ==
    \/ \E t \in Threads : Call(t) \/ Step(t) \/ Failure(t)
    \/ \E p \in Procs : Kill(p)
    \/ StartPatch \/ FinishPatch \/ ImportKey

Spec == Init /\ [][Next]_vars

\* The scheduler runs every thread; a OnceLock wakes those that wait for it.
FairSpec == Spec /\ \A t \in Threads : WF_vars(Step(t))

-----------------------------------------------------------------------------
(* Properties *)

Returned(t) == pc[t] = "done" /\ result[t] = "ok"

\* Thread t is inside the closure of get_or_init for a cell.
Creates(t, p, b) == pc[t] \in {"open", "keys", "tables"} /\ ProcOf[t] = p /\ key[t] = b

\* What a filled cell keeps; its two lazily initialized parts are set once.
Stands(old, new) ==
    /\ new.st = old.st /\ new.build = old.build /\ new.keys = old.keys
    /\ old.init # "no" => new.init = old.init
    /\ old.local # "no" => new.local = old.local

\* Every variable has its type (casc_resolver.rs:57-61, 150-174, 235-239).
TypeOK ==
    /\ installed \in Builds \cup {Unreadable}
    /\ released \in Builds
    /\ tables \in SUBSET Builds
    /\ keyKnown \in BOOLEAN
    /\ files \in [Labels -> Bytes \cup {NoBytes}]
    /\ cells \in [Procs -> [Builds -> CellStates]]
    /\ pc \in [Threads ->
              {"idle", "lookup", "current", "recheck", "key", "cell", "open", "keys",
               "tables", "init", "warm", "read", "write", "flush", "rename", "done"}]
    /\ op \in [Threads -> {"ensure", "bytes", "warm"}]
    /\ want \in [Threads -> Labels]
    /\ dest \in [Threads -> Labels]
    /\ key \in [Threads -> Labels]
    /\ seen \in [Threads -> Labels]
    /\ got \in [Threads -> Bytes \cup {NoBytes}]
    /\ temp \in [Threads -> Bytes \cup {NoBytes}]
    /\ result \in [Threads -> {"none", "ok", "err"}]
    /\ start \in [Threads -> Labels]
    /\ disturbed \in [Threads -> BOOLEAN]
    /\ calls \in 0..MaxCalls
    /\ patches \in 0..MaxPatches
    /\ faults \in 0..MaxFaults
    /\ kills \in 0..MaxKills

\* While builds only go forward, bytes are never filed under a build newer than
\* their own, whatever patches overlap the call: the destination is read before
\* the registry key and the key before the state's build
\* (casc_resolver.rs:384, 583, 606; README.md:27-28).
NeverOlderThanLabel ==
    \A l \in Builds : Exists(l) => files[l].build >= l

\* A patch opens a new state, even within one process: no call is answered from
\* a build older than the one installed when it began (README.md:22-23).
ReadsAreCurrent ==
    \A t \in Threads : pc[t] = "done" /\ got[t] # NoBytes =>
        got[t].build >= start[t] /\ got[t].build <= released

\* A call that no patch overlaps reads the installed build and files its bytes
\* under that build, though the state it uses may have been created by another
\* thread during a patch (README.md:21-23, 26-28).
UndisturbedIsExact ==
    \A t \in Threads : pc[t] = "done" /\ ~disturbed[t] /\ got[t] # NoBytes =>
        /\ got[t].build = start[t]
        /\ want[t] # Unqualified => dest[t] = start[t]

\* No qualified file holds zero-filled chunks, whichever threads raced on it and
\* whenever the missing key was imported (casc_resolver.rs:476).
QualifiedIsDecoded == \A l \in Builds : ~files[l].zeroed

\* Whoever finds a file at its destination reads all of it: not half of it
\* while it is written, nor after a kill in between (casc_resolver.rs:552-578).
VisibleIsWhole == \A l \in Labels : Exists(l) => files[l].whole

\* A path that was returned stays readable, even when another extractor of the
\* same file fails after it (casc_resolver.rs:570-577).
ReturnedFileStands ==
    \A t \in Threads : Returned(t) /\ op[t] = "ensure" => Exists(dest[t])

\* One thread of a process creates the state of a registry key; others that come
\* for it wait only while such a thread is at work on it, whichever of its steps
\* fails, and nobody uses a state before it is ready (casc_resolver.rs:585-592).
OneInitializerPerKey ==
    /\ \A t, u \in Threads :
        Creates(t, ProcOf[t], key[t]) /\ Creates(u, ProcOf[t], key[t]) => t = u
    /\ \A p \in Procs, b \in Builds :
        cells[p][b].st = "busy" => \E t \in Threads : Creates(t, p, b)
    /\ \A t \in Threads : pc[t] \in {"init", "warm", "read"} => Cell(t).st = "ok"

\* Whether initialization worked is decided once, at each of its levels: a cell
\* that failed or a state that exists is not replaced while its process lives,
\* its build and its keys stay, and the outcome of initializing the installation
\* or the key-aware access, a failure too, is the one every later call meets,
\* whichever threads race for it (casc_resolver.rs:159-169, 242-259, 315-346, 592).
CellsAreFinal ==
    [][\A p \in Procs, b \in Builds :
          cells[p][b].st \in {"ok", "err"} =>
              \/ Stands(cells[p][b], cells'[p][b])
              \/ cells'[p] = [c \in Builds |-> EmptyCell]]_vars

\* "Never labels newly extracted bytes with the old receipt key": every
\* qualified file holds the bytes of the build that names it (README.md:27-28).
LabelMatchesBytes == \A l \in Builds : Exists(l) => files[l].build = l

\* Every call returns unless its process dies: whoever creates a state also
\* fills its cell, on every error path (casc_resolver.rs:592, 595-628).
CallsReturn ==
    \A t \in Threads : pc[t] \notin {"idle", "done"} ~> pc[t] \in {"idle", "done"}
-----------------------------------------------------------------------------
(* Extraction implements a shelf *)

Shelf == INSTANCE AssetShelf WITH
    Places <- Labels,
    NoBuild <- Unqualified,
    Bytes <- {bytes \in Bytes : bytes.whole},
    Nothing <- NoBytes,
    latest <- released,
    shelf <- files,
    asking <- {t \in Threads : pc[t] \notin {"idle", "done"}},
    since <- start,
    wanted <- want,
    found <- [t \in Threads |-> IF Returned(t) /\ op[t] = "ensure" THEN {dest[t]} ELSE {}],
    read <- [t \in Threads |-> IF Returned(t) /\ op[t] = "bytes" THEN {got[t]} ELSE {}]

\* While builds only go forward, five reads of .build.info, a registry of states
\* that other threads created and a file written beside its destination behave
\* as if each call took effect at one moment.  The bytes it reads or files are of
\* a build installed since its start, and so is the place it files them at; a
\* file that it finds may also stand at the place its receipt names, however old
\* the build of that receipt is (README.md:21-28).
ImplementsShelf == Shelf!Spec
=============================================================================
