---------------------------- MODULE CommunityCache ----------------------------
(***************************************************************************)
(* listfile_cache.rs and Listfile::with_community_cache: the SQLite cache  *)
(* of one community listfile, which several processes open and, when it    *)
(* does not carry the listfile's mtime, rebuild from it.  Somebody else    *)
(* replaces the listfile meanwhile.                                        *)
(*                                                                         *)
(* A process opens the cache on its first query and keeps a read-only      *)
(* connection; one mutex makes its queries follow each other.  Contents    *)
(* are known by their version, and so are the rows imported from them.     *)
(* What SQLite does is external: a rollback journal, one writer at a time, *)
(* the old pages for everybody else until COMMIT.                          *)
(***************************************************************************)
EXTENDS Naturals

CONSTANTS
    Procs,
    LastVersion,    \* bounds on the versions of the listfile,
    LastSecond,     \* the clock,
    MaxCalls, MaxFaults, MaxKills

ASSUME ConstantsAssumption ==
    /\ LastVersion \in Nat /\ LastSecond \in Nat \ {0}
    /\ MaxCalls \in Nat /\ MaxFaults \in Nat /\ MaxKills \in Nat

VARIABLES
    exists,     \* source_path.exists()
    version,    \* of the listfile, 0: there never was one
    mtime,      \* of each version, in seconds
    now,
    db,         \* the committed tables
    draft,      \* the tables in the open transaction
    lock,       \* the writer: a set with at most one process
    hot,        \* a killed writer's journal has pages to roll back
    pc,
    seen,       \* the source_mtime each process read from metadata
    cached,     \* Listfile.community_cache is Some
    asked,      \* ghost: the version there was when the open began
    answer,     \* the version a query was answered from, 0: an error
    disturbed,  \* ghost: a replacement that the mtime cannot tell
    calls, faults, kills

source == <<exists, version, mtime, now, disturbed>>
tables == <<db, draft, lock, hot>>
bounds == <<calls, faults, kills>>
vars == <<source, tables, pc, seen, cached, asked, answer, bounds>>

Versions == 1..LastVersion
Tables == [entries : 0..LastVersion, source_mtime : 0..LastSecond]

\* No tables, or none yet: 0 is no entry and no metadata.
NoTables == [entries |-> 0, source_mtime |-> 0]

Init ==
    /\ exists = FALSE /\ version = 0
    /\ mtime = [v \in Versions |-> 0]
    /\ now = 1
    /\ db = NoTables /\ draft = NoTables
    /\ lock = {} /\ hot = FALSE
    /\ pc = [p \in Procs |-> "idle"]
    /\ seen = [p \in Procs |-> 0]
    /\ cached = [p \in Procs |-> FALSE]
    /\ asked = [p \in Procs |-> 0]
    /\ answer = [p \in Procs |-> 0]
    /\ disturbed = FALSE
    /\ calls = 0 /\ faults = 0 /\ kills = 0

\* Inside BEGIN ... COMMIT.
Building == {"import", "stat", "commit"}
Opening == {"exists", "entries", "metadata", "compare", "begin", "connect"} \cup Building
Points == {"idle", "lookup", "done"} \cup Opening

Goto(p, point) == pc' = [pc EXCEPT ![p] = point]

\* The transaction is over, committed or rolled back.
EndTransaction(p) ==
    /\ lock' = lock \ {p}
    /\ draft' = IF p \in lock THEN NoTables ELSE draft

\* An error drops the connection, which rolls its transaction back.
Fail(p) ==
    /\ Goto(p, "done")
    /\ EndTransaction(p)
    /\ answer' = [answer EXCEPT ![p] = 0]

-----------------------------------------------------------------------------
(* with_community_cache *)

Query(p) ==
    /\ pc[p] \in {"idle", "done"}
    /\ calls < MaxCalls
    /\ calls' = calls + 1
    /\ answer' = [answer EXCEPT ![p] = 0]
    /\ Goto(p, IF cached[p] THEN "lookup" ELSE "exists")
    /\ UNCHANGED <<source, tables, seen, cached, asked, faults, kills>>

(* ensure_cache *)

SourceExists(p) ==
    /\ pc[p] = "exists"
    /\ asked' = [asked EXCEPT ![p] = IF exists THEN version ELSE 0]
    /\ Goto(p, IF exists THEN "metadata" ELSE "entries")
    /\ UNCHANGED <<source, tables, seen, cached, answer, bounds>>

\* Rolls a hot journal back: the connection is writable.
CacheHasEntries(p) ==
    /\ pc[p] = "entries"
    /\ hot' = FALSE
    /\ IF db.entries # 0 THEN Goto(p, "connect") /\ UNCHANGED <<draft, lock, answer>>
                         ELSE Fail(p)
    /\ UNCHANGED <<source, db, seen, cached, asked, bounds>>

ReadMetadata(p) ==
    /\ pc[p] = "metadata"
    /\ hot' = FALSE
    /\ seen' = [seen EXCEPT ![p] = db.source_mtime]
    /\ Goto(p, IF db.source_mtime = 0 THEN "begin" ELSE "compare")
    /\ UNCHANGED <<source, db, draft, lock, cached, asked, answer, bounds>>

\* Mutant: whatever was imported from this path is fresh.
CompareNothing(p) ==
    /\ pc[p] = "compare"
    /\ IF exists THEN Goto(p, "connect") /\ UNCHANGED <<draft, lock, answer>> ELSE Fail(p)
    /\ seen' = [seen EXCEPT ![p] = 0]
    /\ UNCHANGED <<source, db, hot, cached, asked, bounds>>

CompareMtime(p) ==
    /\ pc[p] = "compare"
    /\ IF exists
       THEN /\ Goto(p, IF seen[p] = mtime[version] THEN "connect" ELSE "begin")
            /\ UNCHANGED <<draft, lock, answer>>
       ELSE Fail(p)
    /\ seen' = [seen EXCEPT ![p] = 0]
    /\ UNCHANGED <<source, db, hot, cached, asked, bounds>>

-----------------------------------------------------------------------------
(* rebuild_cache *)

\* Mutant: without BEGIN every statement is its own transaction.
DropTables(p) ==
    /\ pc[p] = "begin"
    /\ lock = {}
    /\ lock' = {p}
    /\ draft' = NoTables
    /\ hot' = FALSE
    /\ db' = NoTables
    /\ Goto(p, "import")
    /\ UNCHANGED <<source, seen, cached, asked, answer, bounds>>

\* Mutant: the write lock excludes nobody.
InitSchemaUnlocked(p) ==
    /\ pc[p] = "begin"
    /\ lock' = lock \cup {p}
    /\ draft' = NoTables
    /\ hot' = FALSE
    /\ Goto(p, "import")
    /\ UNCHANGED <<source, db, seen, cached, asked, answer, bounds>>

\* DROP TABLE takes the write lock, waiting for the writer before it; the first
\* access of a writable connection rolls a hot journal back.
InitCacheSchema(p) ==
    /\ pc[p] = "begin"
    /\ lock = {}
    /\ lock' = {p}
    /\ draft' = NoTables
    /\ hot' = FALSE
    /\ Goto(p, "import")
    /\ UNCHANGED <<source, db, seen, cached, asked, answer, bounds>>

\* With no table to drop, DROP TABLE IF EXISTS only reads: CREATE TABLE must
\* upgrade the read lock, and fails at once if somebody writes.
UpgradeRefused(p) ==
    /\ pc[p] = "begin"
    /\ lock # {}
    /\ db.entries = 0
    /\ Fail(p)
    /\ UNCHANGED <<source, db, hot, seen, cached, asked, bounds>>

ImportRows(p) ==
    /\ pc[p] = "import"
    /\ IF exists
       THEN /\ draft' = [draft EXCEPT !.entries = version]
            /\ Goto(p, "stat")
            /\ UNCHANGED <<lock, answer>>
       ELSE Fail(p)
    /\ UNCHANGED <<source, db, hot, seen, cached, asked, bounds>>

\* Mutant: the time of the import.
RecordNow(p) ==
    /\ pc[p] = "stat"
    /\ draft' = [draft EXCEPT !.source_mtime = now]
    /\ Goto(p, "commit")
    /\ UNCHANGED <<source, db, lock, hot, seen, cached, asked, answer, bounds>>

RecordMetadata(p) ==
    /\ pc[p] = "stat"
    /\ IF exists
       THEN /\ draft' = [draft EXCEPT !.source_mtime = mtime[version]]
            /\ Goto(p, "commit")
            /\ UNCHANGED <<lock, answer>>
       ELSE Fail(p)
    /\ UNCHANGED <<source, db, hot, seen, cached, asked, bounds>>

\* Mutant: the transaction stays open.
CommitKeepingLock(p) ==
    /\ pc[p] = "commit"
    /\ db' = draft
    /\ Goto(p, "connect")
    /\ UNCHANGED <<source, draft, lock, hot, seen, cached, asked, answer, bounds>>

Commit(p) ==
    /\ pc[p] = "commit"
    /\ db' = draft
    /\ EndTransaction(p)
    /\ Goto(p, "connect")
    /\ UNCHANGED <<source, hot, seen, cached, asked, answer, bounds>>

-----------------------------------------------------------------------------
(* The read-only connection *)

Connect(p) ==
    /\ pc[p] = "connect"
    /\ cached' = [cached EXCEPT ![p] = TRUE]
    /\ Goto(p, "lookup")
    /\ UNCHANGED <<source, tables, seen, asked, answer, bounds>>

LookupRow(p) ==
    /\ pc[p] = "lookup"
    /\ ~hot
    /\ answer' = [answer EXCEPT ![p] = db.entries]
    /\ Goto(p, "done")
    /\ UNCHANGED <<source, tables, seen, cached, asked, bounds>>

\* A read-only connection cannot roll a hot journal back; and a writer whose
\* pages spilled from its cache into the file keeps readers out until COMMIT.
LookupFails(p) ==
    /\ pc[p] = "lookup"
    /\ hot \/ lock # {}
    /\ Fail(p)
    /\ UNCHANGED <<source, db, hot, seen, cached, asked, bounds>>

-----------------------------------------------------------------------------
(* Failures, kills, and whoever maintains the listfile *)

\* A statement, the file or the busy timeout of 30 seconds.
Error(p) ==
    /\ pc[p] \in (Opening \ {"exists"}) \cup {"lookup"}
    /\ faults < MaxFaults
    /\ faults' = faults + 1
    /\ Fail(p)
    /\ UNCHANGED <<source, db, hot, seen, cached, asked, calls, kills>>

Kill(p) ==
    /\ pc[p] \notin {"idle", "done"} \/ cached[p]
    /\ kills < MaxKills
    /\ kills' = kills + 1
    /\ EndTransaction(p)
    /\ hot' \in IF p \in lock THEN BOOLEAN ELSE {hot}
    /\ Goto(p, "idle")
    /\ cached' = [cached EXCEPT ![p] = FALSE]
    /\ seen' = [seen EXCEPT ![p] = 0]
    /\ asked' = [asked EXCEPT ![p] = 0]
    /\ answer' = [answer EXCEPT ![p] = 0]
    /\ UNCHANGED <<source, db, calls, faults>>

\* New contents, renamed over the old ones, stamped with the time or with an mtime
\* that earlier contents had: kept by a rewrite, or restored with a copy.  The
\* mtime cannot tell them from those contents, nor, in the same second, from the
\* ones before; and what an import has just read gets the mtime of the new ones.
Replace ==
    LET earlier == {mtime[v] : v \in 1..version}
    IN  /\ version < LastVersion
        /\ version' = version + 1
        /\ exists' = TRUE
        /\ \E time \in {now} \cup earlier :
              /\ mtime' = [mtime EXCEPT ![version + 1] = time]
              /\ disturbed' = (\/ disturbed
                               \/ time \in earlier
                               \/ \E p \in Procs : pc[p] = "stat")
        /\ UNCHANGED <<now, tables, pc, seen, cached, asked, answer, bounds>>

Remove ==
    /\ exists
    /\ exists' = FALSE
    /\ UNCHANGED <<version, mtime, now, disturbed, tables, pc, seen, cached, asked,
                   answer, bounds>>

Tick ==
    /\ now < LastSecond
    /\ now' = now + 1
    /\ UNCHANGED <<exists, version, mtime, disturbed, tables, pc, seen, cached, asked,
                   answer, bounds>>

-----------------------------------------------------------------------------

Step(p) ==
    \/ SourceExists(p) \/ CacheHasEntries(p) \/ ReadMetadata(p) \/ CompareMtime(p)
    \/ InitCacheSchema(p) \/ UpgradeRefused(p) \/ ImportRows(p) \/ RecordMetadata(p)
    \/ Commit(p) \/ Connect(p) \/ LookupRow(p) \/ LookupFails(p)

Next ==
    \/ \E p \in Procs : Query(p) \/ Step(p) \/ Error(p) \/ Kill(p)
    \/ Replace \/ Remove \/ Tick

Spec == Init /\ [][Next]_vars

\* The operating system runs every process, and the busy handler of SQLite
\* retries until the lock is free.
FairSpec == Spec /\ \A p \in Procs : WF_vars(Step(p))

-----------------------------------------------------------------------------
(* Properties *)

\* The types of all variables; SQLite has one writer.
TypeOK ==
    /\ exists \in BOOLEAN /\ disturbed \in BOOLEAN /\ hot \in BOOLEAN
    /\ version \in 0..LastVersion /\ (exists => version # 0)
    /\ mtime \in [Versions -> 0..LastSecond]
    /\ now \in 1..LastSecond
    /\ db \in Tables /\ draft \in Tables
    /\ lock \in SUBSET Procs /\ \A p, q \in lock : p = q
    /\ pc \in [Procs -> Points]
    /\ seen \in [Procs -> 0..LastSecond]
    /\ cached \in [Procs -> BOOLEAN]
    /\ asked \in [Procs -> 0..LastVersion]
    /\ answer \in [Procs -> 0..LastVersion]
    /\ calls \in 0..MaxCalls /\ faults \in 0..MaxFaults /\ kills \in 0..MaxKills

\* A cache that cache_is_fresh accepts has the rows of the listfile that is
\* there, unless the listfile was replaced where a stat in whole seconds after
\* the import (record_metadata) cannot tell: within one second, by a listfile
\* that carries an mtime an earlier one had, as a rewrite that keeps the mtime
\* does (listfile.rs:422-433), or between the import's reading and its stat.
FreshIsCurrent ==
    exists /\ db.source_mtime = mtime[version] /\ ~disturbed => db.entries = version

\* A process that opened the cache reads a table, and its rows are at least as
\* new as the listfile it found when it began to open it, also when others
\* rebuilt the cache between its freshness test and its own rebuild, with the
\* exceptions of FreshIsCurrent.
OpenedIsCurrent ==
    \A p \in Procs :
        cached[p] => db.entries # 0 /\ (disturbed \/ db.entries >= asked[p])

\* No interleaving of rebuilds, failures and kills takes rows away from the
\* readers or brings older rows back: the listfile is read under the write
\* lock, and the tables are dropped and filled in one transaction.
EntriesNeverRegress == [][db'.entries >= db.entries]_vars

\* Every query returns, with a row or an error, unless its process is killed.
QueriesReturn ==
    \A p \in Procs : pc[p] \in Opening \cup {"lookup"} ~> pc[p] \in {"idle", "done"}
-----------------------------------------------------------------------------
(* The cache implements a table *)

Table == INSTANCE CommunityTable WITH
    published <- version,
    rows <- db.entries,
    open <- {p \in Procs : cached[p]}

\* Testing for freshness without the lock, dropping and filling the tables in a
\* transaction that may fail or be killed, and reading beside it behave as a
\* table that is imported at once and never goes back, with rows for whoever has
\* it open (listfile_cache.rs:217-256).
ImplementsTable == Table!Spec
=============================================================================
