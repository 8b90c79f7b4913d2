------------------------------- MODULE Listfile -------------------------------
(***************************************************************************)
(* listfile.rs and the local half of listfile_cache.rs: how the threads of *)
(* several processes translate FileDataIDs to paths and paths to           *)
(* FileDataIDs.  Each process has two in-memory indexes behind one mutex;  *)
(* all of them share a SQLite table of local entries, unique by FileDataID *)
(* and by lowercase path, that a lookup asks next; and the community       *)
(* table, which only answers what both do not know.  What it answers is    *)
(* remembered: in memory, and with INSERT OR REPLACE in the local table.   *)
(*                                                                         *)
(* The mutex is taken anew for every access, so a lookup is several steps. *)
(* The community table is opened on first use and does not change here.    *)
(***************************************************************************)
EXTENDS Naturals

CONSTANTS
    Threads, Procs,
    ProcOf,         \* the process of each thread
    Fdids, Paths,
    Lower,          \* to_ascii_lowercase
    None,
    Worlds,         \* the tables a behaviour may start with
    MaxCalls, MaxFaults, MaxKills

Rows == Fdids \X Paths
Keys == {Lower[p] : p \in Paths}

\* The primary key and the unique index of both tables.
Unique(rows) ==
    \A r, s \in rows : r[1] = s[1] \/ Lower[r[2]] = Lower[s[2]] => r = s

ASSUME ConstantsAssumption ==
    /\ ProcOf \in [Threads -> Procs]
    /\ Lower \in [Paths -> Paths]
    /\ \A p \in Paths : Lower[Lower[p]] = Lower[p]
    /\ Fdids \cap Paths = {}
    /\ None \notin Fdids \cup Paths \cup Rows
    /\ Worlds \subseteq [local : SUBSET Rows, community : SUBSET Rows]
    /\ \A w \in Worlds : Unique(w.local) /\ Unique(w.community)
    /\ MaxCalls \in Nat /\ MaxFaults \in Nat /\ MaxKills \in Nat

VARIABLES
    world,      \* the two tables at the start
    local,      \* local_listfile_entries
    by_fdid,    \* the indexes of each process
    by_path,
    pc,
    query,      \* what each thread looks up: a FileDataID or a path
    row,        \* the table row it found
    answer,
    faulted,    \* ghost: a table could not be read or written in this process
    calls, faults, kills

memory == <<by_fdid, by_path>>
bounds == <<calls, faults, kills>>
vars == <<world, local, memory, pc, query, row, answer, faulted, bounds>>

Init ==
    /\ world \in Worlds
    /\ local = world.local
    /\ by_fdid = [p \in Procs |-> [f \in Fdids |-> None]]
    /\ by_path = [p \in Procs |-> [k \in Keys |-> None]]
    /\ pc = [t \in Threads |-> "idle"]
    /\ query = [t \in Threads |-> None]
    /\ row = [t \in Threads |-> None]
    /\ answer = [t \in Threads |-> None]
    /\ faulted = [p \in Procs |-> FALSE]
    /\ calls = 0 /\ faults = 0 /\ kills = 0

Goto(t, point) == pc' = [pc EXCEPT ![t] = point]
Answer(t, a) == answer' = [answer EXCEPT ![t] = a]
Return(t, a) == Goto(t, "done") /\ Answer(t, a)

\* WHERE fdid = ?1, WHERE lower_path = ?1
Matching(rows, q) ==
    {r \in rows : q = r[1] \/ (q \in Paths /\ Lower[r[2]] = Lower[q])}

Remembered(p, q) == IF q \in Fdids THEN by_fdid[p][q] ELSE by_path[p][Lower[q]]

-----------------------------------------------------------------------------
(* lookup_fdid and lookup_path *)

Call(t) ==
    /\ pc[t] \in {"idle", "done"}
    /\ calls < MaxCalls
    /\ calls' = calls + 1
    /\ \E q \in Fdids \cup Paths : query' = [query EXCEPT ![t] = q]
    /\ row' = [row EXCEPT ![t] = None]
    /\ Answer(t, None)
    /\ Goto(t, "memory")
    /\ UNCHANGED <<world, local, memory, faulted, faults, kills>>

LookupMemory(t) ==
    /\ pc[t] = "memory"
    /\ LET a == Remembered(ProcOf[t], query[t])
       IN  IF a # None THEN Return(t, a) ELSE Goto(t, "local") /\ UNCHANGED answer
    /\ UNCHANGED <<world, local, memory, query, row, faulted, bounds>>

\* Mutant: a local miss ends the lookup.
LookupLocalOnly(t) ==
    /\ pc[t] = "local"
    /\ \/ /\ Matching(local, query[t]) = {}
          /\ Return(t, None)
          /\ UNCHANGED row
       \/ \E r \in Matching(local, query[t]) :
             /\ row' = [row EXCEPT ![t] = r]
             /\ Goto(t, "fill")
             /\ UNCHANGED answer
    /\ UNCHANGED <<world, local, memory, query, faulted, bounds>>

LookupLocal(t) ==
    /\ pc[t] = "local"
    /\ \/ /\ Matching(local, query[t]) = {}
          /\ Goto(t, "community")
          /\ UNCHANGED row
       \/ \E r \in Matching(local, query[t]) :
             /\ row' = [row EXCEPT ![t] = r]
             /\ Goto(t, "fill")
    /\ UNCHANGED <<world, local, memory, query, answer, faulted, bounds>>

\* Mutant: the path is remembered as the caller spelled it.
LookupCommunityAsAsked(t) ==
    /\ pc[t] = "community"
    /\ \/ /\ Matching(world.community, query[t]) = {}
          /\ Return(t, None)
          /\ UNCHANGED row
       \/ \E r \in Matching(world.community, query[t]) :
             /\ row' = [row EXCEPT ![t] =
                           IF query[t] \in Paths THEN <<r[1], query[t]>> ELSE r]
             /\ Goto(t, "remember")
             /\ UNCHANGED answer
    /\ UNCHANGED <<world, local, memory, query, faulted, bounds>>

LookupCommunity(t) ==
    /\ pc[t] = "community"
    /\ \/ /\ Matching(world.community, query[t]) = {}
          /\ Return(t, None)
          /\ UNCHANGED row
       \/ \E r \in Matching(world.community, query[t]) :
             /\ row' = [row EXCEPT ![t] = r]
             /\ Goto(t, "remember")
             /\ UNCHANGED answer
    /\ UNCHANGED <<world, local, memory, query, faulted, bounds>>

-----------------------------------------------------------------------------
(* cache_in_memory: an entry that is there stands *)

\* Mutant: HashMap::insert.
Insert(old, new) == new

OrInsert(old, new) == IF old = None THEN new ELSE old

\* Mutant: the path is not folded.
CacheUnfolded(p, r) ==
    /\ by_fdid' = [by_fdid EXCEPT ![p][r[1]] = OrInsert(@, r[2])]
    /\ by_path' = IF r[2] \in Keys
                  THEN [by_path EXCEPT ![p][r[2]] = OrInsert(@, r[1])]
                  ELSE by_path

CacheInMemory(p, r) ==
    /\ by_fdid' = [by_fdid EXCEPT ![p][r[1]] = OrInsert(@, r[2])]
    /\ by_path' = [by_path EXCEPT ![p][Lower[r[2]]] = OrInsert(@, r[1])]

\* Mutant: asked after the insertion.
AlreadyCachedNow(p, r) == TRUE

\* Before the insertion, though not with these very values.
AlreadyCached(p, r) == by_fdid[p][r[1]] # None /\ by_path[p][Lower[r[2]]] # None

\* Mutant: the row as it was read is the answer.
FillMemoryRow(t) ==
    /\ pc[t] = "fill"
    /\ CacheInMemory(ProcOf[t], row[t])
    /\ Return(t, row[t])
    /\ UNCHANGED <<world, local, query, row, faulted, bounds>>

\* cache_local_path: the answer for a FileDataID is the path now in memory.
FillMemory(t) ==
    /\ pc[t] = "fill"
    /\ LET p == ProcOf[t] IN
        /\ CacheInMemory(p, row[t])
        /\ Return(t, IF query[t] \in Fdids THEN by_fdid'[p][row[t][1]] ELSE row[t][1])
    /\ UNCHANGED <<world, local, query, row, faulted, bounds>>

\* remember, up to its early return: the answer is the community's own.
Remember(t) ==
    /\ pc[t] = "remember"
    /\ CacheInMemory(ProcOf[t], row[t])
    /\ Goto(t, IF AlreadyCached(ProcOf[t], row[t]) THEN "done" ELSE "persist")
    /\ Answer(t, IF query[t] \in Fdids THEN row[t][2] ELSE row[t][1])
    /\ UNCHANGED <<world, local, query, row, faulted, bounds>>

\* Mutant: the table is dropped and created anew.
ReplaceTable(rows, r) == {r}

\* INSERT OR REPLACE drops every row that either unique key collides with.
Replace(rows, r) ==
    {s \in rows : s[1] # r[1] /\ Lower[s[2]] # Lower[r[2]]} \cup {r}

\* remember_local_cache_entry, one IMMEDIATE transaction.
Persist(t) ==
    /\ pc[t] = "persist"
    /\ local' = Replace(local, row[t])
    /\ Goto(t, "done")
    /\ UNCHANGED <<world, memory, query, row, answer, faulted, bounds>>

-----------------------------------------------------------------------------
(* Failures *)

\* A table cannot be read or written.  A local one reads as a miss, a community
\* one as no answer; an entry that cannot be persisted is not tried again.
TableError(t) ==
    /\ faults < MaxFaults
    /\ faults' = faults + 1
    /\ faulted' = [faulted EXCEPT ![ProcOf[t]] = TRUE]
    /\ \/ pc[t] = "local" /\ Goto(t, "community")
       \/ pc[t] \in {"community", "persist"} /\ Goto(t, "done")
    /\ UNCHANGED <<world, local, memory, query, row, answer, calls, kills>>

\* A process dies with its indexes and starts again.
Kill(p) ==
    LET Reset(f, value) == [t \in Threads |-> IF ProcOf[t] = p THEN value ELSE f[t]]
    IN  /\ kills < MaxKills
        /\ kills' = kills + 1
        /\ by_fdid' = [by_fdid EXCEPT ![p] = [f \in Fdids |-> None]]
        /\ by_path' = [by_path EXCEPT ![p] = [k \in Keys |-> None]]
        /\ pc' = Reset(pc, "idle")
        /\ query' = Reset(query, None)
        /\ row' = Reset(row, None)
        /\ answer' = Reset(answer, None)
        /\ faulted' = [faulted EXCEPT ![p] = FALSE]
        /\ UNCHANGED <<world, local, calls, faults>>

Step(t) ==
    \/ LookupMemory(t) \/ LookupLocal(t) \/ LookupCommunity(t)
    \/ FillMemory(t) \/ Remember(t) \/ Persist(t)

Next ==
    \/ \E t \in Threads : Call(t) \/ Step(t) \/ TableError(t)
    \/ \E p \in Procs : Kill(p)

Spec == Init /\ [][Next]_vars

-----------------------------------------------------------------------------
(* Properties *)

Sources == world.local \cup world.community

\* The two tables contradict each other nowhere: one path per FileDataID and one
\* FileDataID per path.
Agreeing == Unique(Sources)

\* Every variable has its type (listfile.rs:10-24).
TypeOK ==
    /\ world \in Worlds
    /\ local \in SUBSET Rows
    /\ by_fdid \in [Procs -> [Fdids -> Paths \cup {None}]]
    /\ by_path \in [Procs -> [Keys -> Fdids \cup {None}]]
    /\ pc \in [Threads ->
              {"idle", "memory", "local", "fill", "community", "remember", "persist", "done"}]
    /\ query \in [Threads -> Fdids \cup Paths \cup {None}]
    /\ row \in [Threads -> Rows \cup {None}]
    /\ answer \in [Threads -> Fdids \cup Paths \cup {None}]
    /\ faulted \in [Procs -> BOOLEAN]
    /\ calls \in 0..MaxCalls /\ faults \in 0..MaxFaults /\ kills \in 0..MaxKills

\* No lookup invents an entry: through whatever copies - memory, the local table,
\* another process - an answer came, one of the two tables had it at the start,
\* in that spelling (listfile.rs:99-156).
AnswersHaveASource ==
    \A t \in Threads : pc[t] = "done" /\ answer[t] # None =>
        \E r \in Sources :
            \/ query[t] = r[1] /\ answer[t] = r[2]
            \/ query[t] \in Paths /\ Lower[query[t]] = Lower[r[2]] /\ answer[t] = r[1]

\* Where the tables agree, a lookup misses only what neither of them holds,
\* whatever others look up, remember or replace meanwhile (listfile.rs:89-97).
KnownIsFound ==
    Agreeing =>
        \A t \in Threads : pc[t] = "done" /\ answer[t] = None /\ ~faulted[ProcOf[t]] =>
            Matching(Sources, query[t]) = {}

\* Where the tables agree, the two indexes of a process mirror each other
\* between any two of its steps (listfile-resolution.md:10-11).
IndexesMirror ==
    Agreeing =>
        \A p \in Procs, f \in Fdids, k \in Keys :
            by_path[p][k] = f <=> by_fdid[p][f] # None /\ Lower[by_fdid[p][f]] = k

\* Where the tables agree, what a process without failures keeps in memory is in
\* the local table once its lookups are over: no two of them each leave the
\* writing to the other (listfile.rs:186-196; listfile-resolution.md:18).
RememberedIsPersisted ==
    Agreeing =>
        \A p \in Procs, f \in Fdids :
            /\ by_fdid[p][f] # None
            /\ ~faulted[p]
            /\ \A t \in Threads : ProcOf[t] = p => pc[t] \in {"idle", "done"}
            => <<f, by_fdid[p][f]>> \in local

\* Where the tables agree, no entry ever leaves the local table
\* (listfile_cache.rs:73-76).
LocalGrows == [][Agreeing => local \subseteq local']_vars

\* A lookup missed in memory and is about to answer from its own row, and
\* another thread has remembered an entry for the same query since.  The local
\* path of a FileDataID is not answered that way: it is read from the index.
Overtaken(t) ==
    /\ pc[t] = "remember" \/ (pc[t] = "fill" /\ query[t] \in Paths)
    /\ Remembered(ProcOf[t], query[t]) # None

\* An entry of either index stands until the process ends, also when the tables
\* contradict it, and what a lookup answers is what memory says from that step
\* on, unless the lookup was overtaken, whose row may differ from the entry that
\* stands (listfile.rs:99-133, 146-156, 203-204).
MemoryStands ==
    [][/\ \A p \in Procs :
           \/ /\ by_fdid'[p] = [f \in Fdids |-> None]
              /\ by_path'[p] = [k \in Keys |-> None]
           \/ /\ \A f \in Fdids : by_fdid[p][f] \in {None, by_fdid'[p][f]}
              /\ \A k \in Keys : by_path[p][k] \in {None, by_path'[p][k]}
       /\ \A t \in Threads :
           \/ answer'[t] \in {None, answer[t]}
           \/ answer'[t] = Remembered(ProcOf[t], query[t])'
           \/ Overtaken(t)]_vars

\* "Prefer local SQLite entries over conflicting community listfile entries":
\* a FileDataID with a local entry is answered with it
\* (listfile-resolution.md:12).
LocalEntriesArePreferred ==
    \A t \in Threads, r \in world.local :
        pc[t] = "done" /\ query[t] = r[1] /\ ~faulted[ProcOf[t]] => answer[t] = r[2]
-----------------------------------------------------------------------------
(* Where the tables agree, lookups implement a book *)

\* What a row says of a FileDataID, or of a path in any spelling.
RowReply == [r \in Rows |-> [q \in Fdids \cup Paths |->
    IF q = r[1] THEN r[2]
    ELSE IF q \in Paths /\ Lower[q] = Lower[r[2]] THEN r[1] ELSE None]]

Looking == {"memory", "local", "fill", "community", "remember"}

Book == INSTANCE EntryBook WITH
    Queries <- Fdids \cup Paths,
    Reply <- RowReply,
    book <- Sources,
    kept <- local,
    memory <- [p \in Procs |-> {r \in Rows : by_fdid[p][r[1]] = r[2]}],
    failing <- {p \in Procs : faulted[p]},
    waiting <- {t \in Threads : pc[t] \in Looking},
    asked <- query

\* Two indexes that are asked and filled in steps of their own, a table that
\* other processes write and another one beside it behave as one book that each
\* lookup reads at once: which copy answered, and who else was looking, cannot
\* be told (listfile.rs:89-196).
ImplementsBook ==
    /\ Agreeing => Book!Init
    /\ [][Agreeing => Book!Next]_(Book!vars)
=============================================================================
