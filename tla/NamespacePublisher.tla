------------------------- MODULE NamespacePublisher -------------------------
(***************************************************************************)
(* casc_cache.rs: how processes that share a cache root build, publish and *)
(* open the resolution tables of one installed build.  One directory,      *)
(* casc/<product>/<build-key>/schema-2, holds encoding.bin, root.bin and   *)
(* resolution.sqlite.  A process that needs it takes a lock file beside    *)
(* it, inspects the directory, builds a private one if it is not fresh,    *)
(* removes what stands in the way file by file, renames, and only then     *)
(* opens what it published - without the lock.                             *)
(*                                                                         *)
(* A process may be killed between any two steps (the OS frees its lock,   *)
(* its private directory is never looked at again) and any I/O call may    *)
(* fail.  The directory found at the start may be one that an older,       *)
(* in-place builder left unfinished (casc_cache.rs:146).                   *)
(***************************************************************************)
EXTENDS Naturals

CONSTANTS
    Procs,          \* processes that use the namespace
    Legacy,         \* directories an earlier version may have left there
    MaxKills,       \* bound on kills and restarts
    MaxFaults,      \* bound on failed I/O calls and foreign rewrites
    StatMayFail     \* whether stat of an existing file may fail

ASSUME ConstantsAssumption ==
    /\ MaxKills \in Nat
    /\ MaxFaults \in Nat
    /\ StatMayFail \in BOOLEAN

-----------------------------------------------------------------------------
(* A directory: the seconds-granular mtimes of the two binary files (0: no *)
(* file), the state of the database file, the mtimes in its metadata row   *)
(* (<<0, 0>>: no row) and whether a transaction sidecar lies beside it.    *)
Dirs ==
    [enc : Nat, root : Nat,
     db : {"none", "uncommitted", "torn", "committed"},
     meta : Nat \X Nat, sidecar : BOOLEAN]

NoFiles ==
    [enc |-> 0, root |-> 0, db |-> "none", meta |-> <<0, 0>>, sidecar |-> FALSE]

\* The metadata row against the mtimes of the two files.  A torn database - a
\* COMMIT cut short - shows its row and lacks other pages.
MetadataMatches(d) ==
    /\ d.db \in {"torn", "committed"}
    /\ d.root # 0
    /\ d.enc # 0
    /\ d.meta = <<d.root, d.enc>>

\* SQLite refuses a read-only connection a database with a hot journal.
CacheIsFresh(d) ==
    IF d.sidecar THEN "error"
    ELSE IF MetadataMatches(d) THEN "fresh" ELSE "stale"

\* Mutant: only the database decides.
InspectionByDatabase(d) == IF d.db = "none" THEN "stale" ELSE CacheIsFresh(d)

\* resolution_cache_is_fresh: missing files and sidecars are told apart from
\* an unreadable database before SQLite is asked.
Inspection(d) ==
    IF d.db = "none" \/ d.sidecar \/ d.root = 0 \/ d.enc = 0
    THEN "stale"
    ELSE CacheIsFresh(d)

\* Every row of the two files it was built from, committed.
Complete(d) == d.db = "committed" /\ ~d.sidecar /\ MetadataMatches(d)

\* What an earlier builder left passes for finished only if it is.
Inert(dirs) ==
    /\ dirs \subseteq Dirs
    /\ \A d \in dirs : MetadataMatches(d) => Complete(d)

VARIABLES
    final,      \* the directory at casc_dir
    staging,    \* each process's private directory
    lock,       \* the process holding the flock, if any
    pc,         \* where each process is
    api,        \* the operation it runs
    result,     \* its outcome
    handle,     \* the directory its open database lies in
    faulted,    \* ghost: the running call met a failure of its own
    kills, faults

vars == <<final, staging, lock, pc, api, result, handle, faulted, kills, faults>>
world == <<api, handle, faulted, kills, faults>>

\* The steps between create_dir of the private directory and its cleanup.
Building == {"encoding", "root", "index", "metadata", "commit", "verify",
             "clear", "rename"}
Locked == {"inspect", "stage", "cleanup"} \cup Building
Points == {"idle", "lock", "probe", "connect", "done"} \cup Locked

\* "load": ensure_resolution_cache, then CascResolutionCache::open (init_casc);
\* "refresh": casc_refresh, which only ensures; "open": a bare open.
Operations == {"load", "refresh", "open"}

Init ==
    /\ final \in {NoFiles} \cup Legacy
    /\ staging = [p \in Procs |-> NoFiles]
    /\ lock = {}
    /\ pc = [p \in Procs |-> "idle"]
    /\ api = [p \in Procs |-> "load"]
    /\ result = [p \in Procs |-> "none"]
    /\ handle = [p \in Procs |-> NoFiles]
    /\ faulted = [p \in Procs |-> FALSE]
    /\ kills = 0
    /\ faults = 0

Goto(p, point) == pc' = [pc EXCEPT ![p] = point]

-----------------------------------------------------------------------------
(* publish_resolution_namespace *)

Call(p) ==
    /\ pc[p] = "idle"
    /\ \E op \in Operations :
        /\ api' = [api EXCEPT ![p] = op]
        /\ Goto(p, IF op = "open" THEN "probe" ELSE "lock")
    /\ UNCHANGED <<final, staging, lock, result, handle, faulted, kills, faults>>

\* Mutant: the lock is taken shared.
AcquireSharedLock(p) ==
    /\ pc[p] = "lock"
    /\ lock' = lock \cup {p}
    /\ Goto(p, "inspect")
    /\ UNCHANGED <<final, staging, result, world>>

AcquireLock(p) ==
    /\ pc[p] = "lock"
    /\ lock = {}
    /\ lock' = {p}
    /\ Goto(p, "inspect")
    /\ UNCHANGED <<final, staging, result, world>>

\* The lock is dropped and Ok returned; init_casc goes on to open the tables.
Ensured(p) ==
    /\ lock' = lock \ {p}
    /\ IF api[p] = "refresh"
       THEN Goto(p, "done") /\ result' = [result EXCEPT ![p] = "ok"]
       ELSE Goto(p, "probe") /\ UNCHANGED result

Reuse(p) ==
    /\ pc[p] = "inspect"
    /\ Inspection(final) = "fresh"
    /\ Ensured(p)
    /\ UNCHANGED <<final, staging, world>>

\* A failing stat of root.bin or encoding.bin reads as a missing file.
Distrust(p) ==
    /\ pc[p] = "inspect"
    /\ Inspection(final) # "fresh" \/ StatMayFail
    /\ IF Inspection(final) = "error"
       THEN /\ Goto(p, "done")
            /\ lock' = lock \ {p}
            /\ result' = [result EXCEPT ![p] = "err"]
       ELSE Goto(p, "stage") /\ UNCHANGED <<lock, result>>
    /\ UNCHANGED <<final, staging, world>>

CreateStaging(p) ==
    /\ pc[p] = "stage"
    /\ staging' = [staging EXCEPT ![p] = NoFiles]
    /\ Goto(p, "encoding")
    /\ UNCHANGED <<final, lock, result, world>>

WriteEncoding(p) ==
    /\ pc[p] = "encoding"
    /\ staging' = [staging EXCEPT ![p].enc = 1]
    /\ Goto(p, "root")
    /\ UNCHANGED <<final, lock, result, world>>

WriteRoot(p) ==
    /\ pc[p] = "root"
    /\ staging' = [staging EXCEPT ![p].root = 1]
    /\ Goto(p, "index")
    /\ UNCHANGED <<final, lock, result, world>>

\* Parse both files, open the database, BEGIN, create the tables, insert.
InsertRows(p) ==
    /\ pc[p] = "index"
    /\ staging' = [staging EXCEPT ![p].db = "uncommitted", ![p].sidecar = TRUE]
    /\ Goto(p, "metadata")
    /\ UNCHANGED <<final, lock, result, world>>

\* Mutant: one mtime for both files.
InsertOneMtime(p) ==
    /\ pc[p] = "metadata"
    /\ staging' = [staging EXCEPT ![p].meta = <<staging[p].root>>]
    /\ Goto(p, "commit")
    /\ UNCHANGED <<final, lock, result, world>>

InsertMetadata(p) ==
    /\ pc[p] = "metadata"
    /\ staging' = [staging EXCEPT ![p].meta = <<staging[p].root, staging[p].enc>>]
    /\ Goto(p, "commit")
    /\ UNCHANGED <<final, lock, result, world>>

\* Mutant: published before every page is written.
CommitHalf(p) ==
    /\ pc[p] = "commit"
    /\ staging' = [staging EXCEPT ![p].db = "torn", ![p].sidecar = FALSE]
    /\ Goto(p, "verify")
    /\ UNCHANGED <<final, lock, result, world>>

Commit(p) ==
    /\ pc[p] = "commit"
    /\ staging' = [staging EXCEPT ![p].db = "committed", ![p].sidecar = FALSE]
    /\ Goto(p, "verify")
    /\ UNCHANGED <<final, lock, result, world>>

Verify(p) ==
    /\ pc[p] = "verify"
    /\ IF Inspection(staging[p]) = "fresh"
       THEN /\ Goto(p, IF final = NoFiles THEN "rename" ELSE "clear")
            /\ UNCHANGED result
       ELSE /\ Goto(p, "cleanup")
            /\ result' = [result EXCEPT ![p] = "err"]
    /\ UNCHANGED <<final, staging, lock, world>>

\* remove_dir_all(casc_dir): one directory entry at a time, in any order.
RemoveFile(p) ==
    /\ pc[p] = "clear"
    /\ \/ final.enc # 0 /\ final' = [final EXCEPT !.enc = 0]
       \/ final.root # 0 /\ final' = [final EXCEPT !.root = 0]
       \/ final.sidecar /\ final' = [final EXCEPT !.sidecar = FALSE]
       \/ final.db # "none" /\ final' = [final EXCEPT !.db = "none", !.meta = <<0, 0>>]
    /\ Goto(p, IF final' = NoFiles THEN "rename" ELSE "clear")
    /\ UNCHANGED <<staging, lock, result, world>>

Rename(p) ==
    /\ pc[p] = "rename"
    /\ final' = staging[p]
    /\ staging' = [staging EXCEPT ![p] = NoFiles]
    /\ Goto(p, "cleanup")
    /\ UNCHANGED <<lock, result, world>>

\* Mutant: the error of the build is lost.
CleanupAsSuccess(p) ==
    /\ pc[p] = "cleanup"
    /\ staging' = [staging EXCEPT ![p] = NoFiles]
    /\ Ensured(p)
    /\ UNCHANGED <<final, world>>

\* Mutant: a failed build keeps the lock.
CleanupKeepingLock(p) ==
    /\ pc[p] = "cleanup"
    /\ staging' = [staging EXCEPT ![p] = NoFiles]
    /\ IF result[p] = "err"
       THEN Goto(p, "done") /\ UNCHANGED <<lock, result>>
       ELSE Ensured(p)
    /\ UNCHANGED <<final, world>>

\* Remove the private directory if it is still there; drop the lock; return.
Cleanup(p) ==
    /\ pc[p] = "cleanup"
    /\ staging' = [staging EXCEPT ![p] = NoFiles]
    /\ IF result[p] = "err"
       THEN lock' = lock \ {p} /\ Goto(p, "done") /\ UNCHANGED result
       ELSE Ensured(p)
    /\ UNCHANGED <<final, world>>

-----------------------------------------------------------------------------
(* CascResolutionCache::open, which takes no lock and looks at no sidecar *)

\* Mutant: opened without looking at the metadata.
ProbeNothing(p) ==
    /\ pc[p] = "probe"
    /\ Goto(p, "connect")
    /\ UNCHANGED <<final, staging, lock, result, world>>

Probe(p) ==
    /\ pc[p] = "probe"
    /\ IF CacheIsFresh(final) = "fresh"
       THEN Goto(p, "connect") /\ UNCHANGED result
       ELSE Goto(p, "done") /\ result' = [result EXCEPT ![p] = "err"]
    /\ UNCHANGED <<final, staging, lock, world>>

\* Open read-only and count the rows.
Connect(p) ==
    /\ pc[p] = "connect"
    /\ IF final.db \in {"torn", "committed"} /\ ~final.sidecar
       THEN /\ handle' = [handle EXCEPT ![p] = final]
            /\ result' = [result EXCEPT ![p] = "ok"]
       ELSE /\ result' = [result EXCEPT ![p] = "err"]
            /\ UNCHANGED handle
    /\ Goto(p, "done")
    /\ UNCHANGED <<final, staging, lock, api, faulted, kills, faults>>

-----------------------------------------------------------------------------
(* Failures *)

Fault(p) ==
    /\ faults < MaxFaults
    /\ faults' = faults + 1
    /\ faulted' = [faulted EXCEPT ![p] = TRUE]

\* Any call returns an error: `?` before the private directory exists and in
\* open; the cleanup of lines 100-104 once it does.
Error(p) ==
    /\ Fault(p)
    /\ \/ /\ pc[p] \in {"lock", "inspect", "stage", "probe", "connect"}
          /\ lock' = lock \ {p}
          /\ Goto(p, "done")
       \/ /\ pc[p] \in Building
          /\ Goto(p, "cleanup")
          /\ UNCHANGED lock
    /\ result' = [result EXCEPT ![p] = "err"]
    /\ UNCHANGED <<final, staging, api, handle, kills>>

\* "Some upstream code may rewrite root.bin/encoding.bin partway through the
\* build" (casc_cache.rs:190).
Rewrite(p) ==
    /\ Fault(p)
    /\ pc[p] \in {"index", "metadata", "commit"}
    /\ \/ staging' = [staging EXCEPT ![p].enc = @ + 1]
       \/ staging' = [staging EXCEPT ![p].root = @ + 1]
    /\ UNCHANGED <<final, lock, pc, result, api, handle, kills>>

\* The process dies and a new one takes its place.
Kill(p) ==
    /\ kills < MaxKills
    /\ pc[p] # "idle"
    /\ kills' = kills + 1
    /\ lock' = lock \ {p}
    /\ Goto(p, "idle")
    /\ staging' = [staging EXCEPT ![p] = NoFiles]
    /\ result' = [result EXCEPT ![p] = "none"]
    /\ handle' = [handle EXCEPT ![p] = NoFiles]
    /\ faulted' = [faulted EXCEPT ![p] = FALSE]
    /\ UNCHANGED <<final, api, faults>>

-----------------------------------------------------------------------------
Build(p) ==
    \/ CreateStaging(p) \/ WriteEncoding(p) \/ WriteRoot(p) \/ InsertRows(p)
    \/ InsertMetadata(p) \/ Commit(p) \/ Verify(p) \/ RemoveFile(p)
    \/ Rename(p) \/ Cleanup(p)

\* What a scheduled process does when nothing goes wrong.
Step(p) ==
    AcquireLock(p) \/ Reuse(p) \/ Distrust(p) \/ Build(p) \/ Probe(p) \/ Connect(p)

Next == \E p \in Procs : Call(p) \/ Step(p) \/ Error(p) \/ Rewrite(p) \/ Kill(p)

Spec == Init /\ [][Next]_vars

\* The scheduler runs every process, and the kernel hands a free flock to a
\* waiter; nothing obliges a process to call, to fail or to die.
FairSpec == Spec /\ \A p \in Procs : WF_vars(Step(p))

-----------------------------------------------------------------------------
(* Properties *)

\* Every variable has its type: the stamps are natural numbers, every process
\* is at a point of the operation it runs (casc_cache.rs:89-153, 25-61).
TypeOK ==
    /\ final \in Dirs
    /\ staging \in [Procs -> Dirs]
    /\ lock \in SUBSET Procs
    /\ pc \in [Procs -> Points]
    /\ api \in [Procs -> Operations]
    /\ result \in [Procs -> {"none", "ok", "err"}]
    /\ handle \in [Procs -> Dirs]
    /\ faulted \in [Procs -> BOOLEAN]
    /\ kills \in 0..MaxKills
    /\ faults \in 0..MaxFaults

\* Serialized by the flock: a process that inspects, builds, removes or
\* renames holds the lock alone, so no two builders ever overlap, whatever
\* was killed in between (casc_cache.rs:86-93).
OneBuilder ==
    \A p, q \in Procs : pc[p] \in Locked /\ pc[q] \in Locked => p = q

\* No incomplete namespace passes for a finished one, at any moment: not while
\* a builder removes an old directory file by file, not after it was killed
\* half way, not for a reader that opens without the lock and ignores the
\* sidecars (casc_cache.rs:25-61, 142-153).
NeverIncomplete == CacheIsFresh(final) = "fresh" => Complete(final)

\* Whoever opened the tables of a build, when and through which operation
\* ever, holds the very directory that stands published: nobody reads tables
\* that were since removed or replaced (casc_cache.rs:94-96, 146-153).
ReadersShareNamespace ==
    \A p \in Procs : result[p] = "ok" /\ api[p] # "refresh" =>
        Complete(final) /\ handle[p] = final

\* The tables a process loads through init_casc are never those of a COMMIT
\* that was cut short ("Serialize bootstrap with a sibling flock and publish
\* only complete namespaces", casc_cache.rs:86).
LoadedIsCommitted ==
    \A p \in Procs : result[p] = "ok" /\ api[p] = "load" =>
        handle[p].db = "committed"

\* A refresh that reports success leaves a complete namespace behind, whether it
\* built it or another process did, and it still stands (casc_cache.rs:94-105).
RefreshedIsComplete ==
    \A p \in Procs : result[p] = "ok" /\ api[p] = "refresh" => Complete(final)

\* A call that ensures the namespace fails only for an I/O error of its own:
\* neither the death nor the failure of another builder, nor what either left
\* behind, fails it (atomic-resolution-cache.md, "waiting callers reuse the
\* complete namespace").
OnlyOwnFaultsFail ==
    \A p \in Procs : result[p] = "err" /\ api[p] # "open" => faulted[p]

\* A complete namespace is never changed, removed or replaced again
\* (casc_cache.rs:87, "Complete build-key namespaces are immutable").
PublishedIsImmutable == [][Complete(final) => final' = final]_vars

\* Every call returns unless its process is killed: the lock is handed on by
\* every builder, also by those that fail or die (casc_cache.rs:87-88).
CallsReturn ==
    \A p \in Procs : pc[p] \in Points \ {"idle"} ~> pc[p] \in {"done", "idle"}

-----------------------------------------------------------------------------
(* The namespace implements its abstract specification *)

Abstract == INSTANCE ImmutableNamespace WITH
    Tables <- {d \in Dirs : Complete(d)},
    Nothing <- NoFiles,
    namespace <- IF Complete(final) THEN final ELSE NoFiles,
    view <- handle

\* Building under the lock, removing file by file, renaming and opening without
\* the lock together behave as one atomic publication that readers share.
Implements == Abstract!Spec
=============================================================================
