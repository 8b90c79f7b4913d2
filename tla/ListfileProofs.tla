---------------------------- MODULE ListfileProofs ----------------------------
(***************************************************************************)
(* Proofs about Listfile, for all threads and processes, all tables with   *)
(* the two unique keys, and any number of calls, failures and kills.       *)
(***************************************************************************)
EXTENDS Listfile, TLAPS

\* The parts of a row.
LEMMA RowParts ==
  ASSUME NEW r \in Rows
  PROVE  /\ r[1] \in Fdids /\ r[2] \in Paths /\ r = <<r[1], r[2]>>
         /\ Lower[r[2]] \in Keys
         /\ r[1] # None /\ r[2] # None /\ r[1] \notin Paths /\ r[2] \notin Fdids
<1>1. r[1] \in Fdids /\ r[2] \in Paths /\ r = <<r[1], r[2]>>
  BY DEF Rows
<1>2. Lower[r[2]] \in Keys
  BY <1>1 DEF Keys
<1> QED
  BY <1>1, <1>2, ConstantsAssumption

\* A lookup carries what its next step needs: the query, and the row to put into
\* memory; it has no answer before it found one.
LookupInv ==
  \A t \in Threads :
    /\ pc[t] # "idle" => query[t] \in Fdids \cup Paths
    /\ pc[t] \in {"fill", "remember", "persist"} => row[t] \in Rows
    /\ pc[t] \in {"memory", "local", "fill", "community", "remember"} => answer[t] = None

-----------------------------------------------------------------------------
(* Types *)

\* The types hold initially.
LEMMA TypeInit == Init => TypeOK /\ LookupInv
<1>1. \A w \in Worlds : w.local \in SUBSET Rows
  BY ConstantsAssumption
<1> QED
  BY <1>1, ConstantsAssumption DEF Init, TypeOK, LookupInv

\* What CacheInMemory does to the indexes of the process.
LEMMA CacheTypes ==
  ASSUME TypeOK, NEW p \in Procs, NEW r \in Rows, CacheInMemory(p, r)
  PROVE  /\ by_fdid' \in [Procs -> [Fdids -> Paths \cup {None}]]
         /\ by_path' \in [Procs -> [Keys -> Fdids \cup {None}]]
         /\ by_fdid'[p][r[1]] \in Paths
<1>1. OrInsert(by_fdid[p][r[1]], r[2]) \in Paths
  BY RowParts DEF TypeOK, OrInsert
<1>2. OrInsert(by_path[p][Lower[r[2]]], r[1]) \in Fdids
  BY RowParts DEF TypeOK, OrInsert
<1>3. by_fdid' = [by_fdid EXCEPT ![p] =
                    [by_fdid[p] EXCEPT ![r[1]] = OrInsert(by_fdid[p][r[1]], r[2])]]
  BY DEF CacheInMemory
<1>4. by_path' = [by_path EXCEPT ![p] =
                    [by_path[p] EXCEPT ![Lower[r[2]]] = OrInsert(by_path[p][Lower[r[2]]], r[1])]]
  BY DEF CacheInMemory
<1> QED
  BY <1>1, <1>2, <1>3, <1>4, RowParts DEF TypeOK

\* Every step keeps the types and what a lookup carries.
LEMMA TypeNext == TypeOK /\ LookupInv /\ [Next]_vars => TypeOK' /\ LookupInv'
<1> USE DEF TypeOK, LookupInv, Goto, Return, Answer, memory, bounds
<1> SUFFICES ASSUME TypeOK, LookupInv, [Next]_vars PROVE TypeOK' /\ LookupInv'
  OBVIOUS
<1>p. \A t \in Threads : ProcOf[t] \in Procs
  BY ConstantsAssumption
<1>0. CASE UNCHANGED vars
  BY <1>0 DEF vars
<1>1. ASSUME NEW t \in Threads, Call(t) PROVE TypeOK' /\ LookupInv'
  BY <1>1, ConstantsAssumption DEF Call
<1>2. ASSUME NEW t \in Threads, LookupMemory(t) PROVE TypeOK' /\ LookupInv'
  <2>1. Remembered(ProcOf[t], query[t]) \in Fdids \cup Paths \cup {None}
    <3>1. query[t] \in Fdids \cup Paths
      BY <1>2 DEF LookupMemory
    <3>2. query[t] \in Paths => Lower[query[t]] \in Keys
      BY DEF Keys
    <3> QED
      BY <3>1, <3>2, <1>p DEF Remembered
  <2> QED
    BY <1>2, <2>1 DEF LookupMemory
<1>3. ASSUME NEW t \in Threads, LookupLocal(t) PROVE TypeOK' /\ LookupInv'
  BY <1>3 DEF LookupLocal, Matching
<1>4. ASSUME NEW t \in Threads, LookupCommunity(t) PROVE TypeOK' /\ LookupInv'
  <2>1. world.community \subseteq Rows
    BY ConstantsAssumption
  <2> QED
    BY <1>4, <2>1 DEF LookupCommunity, Matching
<1>5. ASSUME NEW t \in Threads, FillMemory(t) PROVE TypeOK' /\ LookupInv'
  <2>1. row[t] \in Rows /\ CacheInMemory(ProcOf[t], row[t])
    BY <1>5 DEF FillMemory
  <2>2. /\ by_fdid' \in [Procs -> [Fdids -> Paths \cup {None}]]
        /\ by_path' \in [Procs -> [Keys -> Fdids \cup {None}]]
        /\ by_fdid'[ProcOf[t]][row[t][1]] \in Paths
    BY <2>1, <1>p, CacheTypes
  <2> QED
    BY <1>5, <2>1, <2>2, RowParts DEF FillMemory
<1>6. ASSUME NEW t \in Threads, Remember(t) PROVE TypeOK' /\ LookupInv'
  <2>1. row[t] \in Rows /\ CacheInMemory(ProcOf[t], row[t])
    BY <1>6 DEF Remember
  <2>2. /\ by_fdid' \in [Procs -> [Fdids -> Paths \cup {None}]]
        /\ by_path' \in [Procs -> [Keys -> Fdids \cup {None}]]
    BY <2>1, <1>p, CacheTypes
  <2> QED
    BY <1>6, <2>1, <2>2, RowParts DEF Remember
<1>7. ASSUME NEW t \in Threads, Persist(t) PROVE TypeOK' /\ LookupInv'
  BY <1>7 DEF Persist, Replace
<1>8. ASSUME NEW t \in Threads, TableError(t) PROVE TypeOK' /\ LookupInv'
  <2>1. faults' \in 0..MaxFaults /\ faulted' \in [Procs -> BOOLEAN]
    BY <1>8, <1>p, ConstantsAssumption DEF TableError
  <2>2. /\ UNCHANGED <<world, local, by_fdid, by_path, query, row, answer, calls, kills>>
        /\ pc' \in [Threads -> {"idle", "memory", "local", "fill", "community",
                               "remember", "persist", "done"}]
    BY <1>8 DEF TableError
  <2>3. LookupInv'
    BY <1>8 DEF TableError
  <2> QED
    BY <2>1, <2>2, <2>3
<1>9. ASSUME NEW p \in Procs, Kill(p) PROVE TypeOK' /\ LookupInv'
  BY <1>9, ConstantsAssumption DEF Kill
<1> QED
  BY <1>0, <1>1, <1>2, <1>3, <1>4, <1>5, <1>6, <1>7, <1>8, <1>9 DEF Next, Step

\* Every variable keeps its type (listfile.rs:10-24).
THEOREM TypeCorrect == Spec => []TypeOK
<1>1. Spec => [](TypeOK /\ LookupInv)
  BY TypeInit, TypeNext, PTL DEF Spec
<1> QED
  BY <1>1, PTL

-----------------------------------------------------------------------------
(* Where answers come from *)

Grounded(q, a) ==
  \E r \in Sources :
    \/ q = r[1] /\ a = r[2]
    \/ q \in Paths /\ Lower[q] = Lower[r[2]] /\ a = r[1]

\* Every copy of an entry - in the local table, in either index, on its way into
\* one of them, or in an answer - is an entry of the tables at the start.
LocalInv == local \subseteq Sources
FdidInv ==
  \A p \in Procs, f \in Fdids :
    by_fdid[p][f] # None => <<f, by_fdid[p][f]>> \in Sources
PathInv ==
  \A p \in Procs, k \in Keys :
    by_path[p][k] # None => \E r \in Sources : r[1] = by_path[p][k] /\ Lower[r[2]] = k
RowInv ==
  \A t \in Threads :
    pc[t] \in {"fill", "remember", "persist"} => row[t] \in Matching(Sources, query[t])
AnswerInv ==
  \A t \in Threads :
    pc[t] \in {"persist", "done"} /\ answer[t] # None => Grounded(query[t], answer[t])
SourceInv == LocalInv /\ FdidInv /\ PathInv /\ RowInv /\ AnswerInv

\* What the tables hold are rows.
LEMMA SourcesAreRows == TypeOK => Sources \subseteq Rows
  BY ConstantsAssumption DEF TypeOK, Sources

\* Initially nothing is remembered.
LEMMA SourceInit == Init => SourceInv
<1> SUFFICES ASSUME Init PROVE SourceInv
  OBVIOUS
<1>1. LocalInv /\ RowInv /\ AnswerInv
  BY DEF Init, LocalInv, RowInv, AnswerInv, Sources
<1>2. FdidInv /\ PathInv
  BY DEF Init, FdidInv, PathInv
<1> QED
  BY <1>1, <1>2 DEF SourceInv

\* A row of the tables that goes into memory keeps both indexes grounded.
LEMMA CacheSources ==
  ASSUME TypeOK, SourceInv, UNCHANGED world,
         NEW p \in Procs, NEW r \in Sources, CacheInMemory(p, r)
  PROVE  FdidInv' /\ PathInv'
<1>r. r \in Rows
  BY SourcesAreRows
<1>s. Sources' = Sources
  BY DEF Sources
<1>1. FdidInv'
  <2> SUFFICES ASSUME NEW q \in Procs, NEW f \in Fdids, by_fdid'[q][f] # None
               PROVE  <<f, by_fdid'[q][f]>> \in Sources
    BY <1>s DEF FdidInv
  <2>1. CASE by_fdid'[q][f] = by_fdid[q][f]
    BY <2>1 DEF SourceInv, FdidInv
  <2>2. CASE by_fdid'[q][f] # by_fdid[q][f]
    <3>1. f = r[1] /\ by_fdid'[q][f] = r[2]
      BY <2>2, <1>r, RowParts DEF CacheInMemory, OrInsert, TypeOK
    <3> QED
      BY <3>1, <1>r, RowParts
  <2> QED
    BY <2>1, <2>2
<1>2. PathInv'
  <2> SUFFICES ASSUME NEW q \in Procs, NEW k \in Keys, by_path'[q][k] # None
               PROVE  \E s \in Sources : s[1] = by_path'[q][k] /\ Lower[s[2]] = k
    BY <1>s DEF PathInv
  <2>1. CASE by_path'[q][k] = by_path[q][k]
    BY <2>1 DEF SourceInv, PathInv
  <2>2. CASE by_path'[q][k] # by_path[q][k]
    <3>1. k = Lower[r[2]] /\ by_path'[q][k] = r[1]
      BY <2>2, <1>r, RowParts DEF CacheInMemory, OrInsert, TypeOK
    <3> QED
      BY <3>1
  <2> QED
    BY <2>1, <2>2
<1> QED
  BY <1>1, <1>2

\* What a lookup by FileDataID or by path gets from a matching row.
LEMMA RowIsGrounded ==
  ASSUME TypeOK, NEW q \in Fdids \cup Paths, NEW r \in Matching(Sources, q)
  PROVE  /\ q \in Fdids => q = r[1] /\ Grounded(q, r[2])
         /\ q \notin Fdids => Grounded(q, r[1])
<1>1. r \in Sources /\ (q = r[1] \/ (q \in Paths /\ Lower[r[2]] = Lower[q]))
  BY DEF Matching
<1>2. r \in Rows
  BY <1>1, SourcesAreRows
<1>3. q \in Fdids => q = r[1]
  BY <1>1, ConstantsAssumption
<1>4. q \notin Fdids => q \in Paths /\ Lower[q] = Lower[r[2]]
  BY <1>1, <1>2, RowParts
<1> QED
  BY <1>1, <1>3, <1>4 DEF Grounded

\* Every step only remembers rows that a table has.
LEMMA SourceNext ==
  TypeOK /\ LookupInv /\ SourceInv /\ [Next]_vars => SourceInv'
<1> SUFFICES ASSUME TypeOK, LookupInv, SourceInv, [Next]_vars PROVE SourceInv'
  OBVIOUS
<1>p. \A t \in Threads : ProcOf[t] \in Procs
  BY ConstantsAssumption
<1>w. world' = world /\ Sources' = Sources
  BY DEF Next, Step, vars, Call, LookupMemory, LookupLocal, LookupCommunity, FillMemory,
         Remember, Persist, TableError, Kill, Sources
<1>g. \A q, a : Grounded(q, a)' <=> Grounded(q, a)
  BY <1>w DEF Grounded
<1>m. \A q : Matching(Sources, q)' = Matching(Sources, q)
  BY <1>w DEF Matching
<1>0. CASE UNCHANGED vars
  BY <1>0, <1>w, <1>g, <1>m DEF vars, memory, bounds, SourceInv, LocalInv, FdidInv, PathInv, RowInv, AnswerInv
<1>1. ASSUME NEW t \in Threads, Call(t) PROVE SourceInv'
  <2>1. LocalInv' /\ FdidInv' /\ PathInv'
    BY <1>1, <1>w DEF Call, memory, SourceInv, LocalInv, FdidInv, PathInv
  <2>2. RowInv' /\ AnswerInv'
    BY <1>1, <1>w, <1>g, <1>m DEF Call, Goto, Answer, SourceInv, RowInv, AnswerInv, TypeOK
  <2> QED
    BY <2>1, <2>2 DEF SourceInv
<1>2. ASSUME NEW t \in Threads, LookupMemory(t) PROVE SourceInv'
  <2>1. LocalInv' /\ FdidInv' /\ PathInv'
    BY <1>2, <1>w DEF LookupMemory, memory, SourceInv, LocalInv, FdidInv, PathInv
  <2>2. RowInv'
    BY <1>2, <1>w, <1>m DEF LookupMemory, Goto, Return, SourceInv, RowInv, TypeOK
  <2>3. query[t] \in Fdids \cup Paths
    BY <1>2 DEF LookupMemory, LookupInv
  <2>4. Remembered(ProcOf[t], query[t]) # None => Grounded(query[t], Remembered(ProcOf[t], query[t]))
    <3>1. CASE query[t] \in Fdids
      <4> DEFINE a == by_fdid[ProcOf[t]][query[t]]
      <4>1. a # None => <<query[t], a>> \in Sources
        BY <3>1, <1>p DEF SourceInv, FdidInv
      <4>2. a # None => Grounded(query[t], a)
        BY <4>1 DEF Grounded
      <4> QED
        BY <3>1, <4>2 DEF Remembered
    <3>2. CASE query[t] \in Paths
      <4> DEFINE a == by_path[ProcOf[t]][Lower[query[t]]]
      <4>1. Lower[query[t]] \in Keys
        BY <3>2 DEF Keys
      <4>2. a # None => \E r \in Sources : r[1] = a /\ Lower[r[2]] = Lower[query[t]]
        BY <4>1, <1>p DEF SourceInv, PathInv
      <4>3. a # None => Grounded(query[t], a)
        BY <3>2, <4>2 DEF Grounded
      <4> QED
        BY <3>2, <4>3, ConstantsAssumption DEF Remembered
    <3> QED
      BY <2>3, <3>1, <3>2
  <2>5. AnswerInv'
    BY <1>2, <1>g, <2>4 DEF LookupMemory, Goto, Return, Answer, SourceInv, AnswerInv, TypeOK
  <2> QED
    BY <2>1, <2>2, <2>5 DEF SourceInv
<1>3. ASSUME NEW t \in Threads, LookupLocal(t) PROVE SourceInv'
  <2>1. LocalInv' /\ FdidInv' /\ PathInv'
    BY <1>3, <1>w DEF LookupLocal, memory, SourceInv, LocalInv, FdidInv, PathInv
  <2>2. Matching(local, query[t]) \subseteq Matching(Sources, query[t])
    BY DEF Matching, SourceInv, LocalInv
  <2>3. RowInv'
    BY <1>3, <1>m, <2>2 DEF LookupLocal, Goto, SourceInv, RowInv, TypeOK
  <2>4. AnswerInv'
    BY <1>3, <1>g DEF LookupLocal, Goto, SourceInv, AnswerInv, TypeOK
  <2> QED
    BY <2>1, <2>3, <2>4 DEF SourceInv
<1>4. ASSUME NEW t \in Threads, LookupCommunity(t) PROVE SourceInv'
  <2>1. LocalInv' /\ FdidInv' /\ PathInv'
    BY <1>4, <1>w DEF LookupCommunity, memory, SourceInv, LocalInv, FdidInv, PathInv
  <2>2. Matching(world.community, query[t]) \subseteq Matching(Sources, query[t])
    BY DEF Matching, Sources
  <2>3. RowInv'
    BY <1>4, <1>m, <2>2 DEF LookupCommunity, Goto, Return, SourceInv, RowInv, TypeOK
  <2>4. AnswerInv'
    BY <1>4, <1>g DEF LookupCommunity, Goto, Return, Answer, SourceInv, AnswerInv, TypeOK
  <2> QED
    BY <2>1, <2>3, <2>4 DEF SourceInv
<1>5. ASSUME NEW t \in Threads, FillMemory(t) PROVE SourceInv'
  <2>1. /\ row[t] \in Matching(Sources, query[t]) /\ row[t] \in Sources
        /\ row[t] \in Rows /\ query[t] \in Fdids \cup Paths
        /\ CacheInMemory(ProcOf[t], row[t])
    BY <1>5 DEF FillMemory, SourceInv, RowInv, LookupInv, Matching
  <2>2. FdidInv' /\ PathInv'
    BY <2>1, <1>p, <1>w, CacheSources
  <2>3. LocalInv'
    BY <1>5, <1>w DEF FillMemory, SourceInv, LocalInv
  <2>4. RowInv'
    BY <1>5, <1>m DEF FillMemory, Goto, Return, SourceInv, RowInv, TypeOK
  <2>5. by_fdid'[ProcOf[t]][row[t][1]] \in Paths /\ row[t][1] \in Fdids
    BY <2>1, <1>p, CacheTypes, RowParts
  <2>6. by_fdid'[ProcOf[t]][row[t][1]] # None
    BY <2>5, ConstantsAssumption
  <2>7. <<row[t][1], by_fdid'[ProcOf[t]][row[t][1]]>> \in Sources
    BY <2>2, <2>5, <2>6, <1>p, <1>w DEF FdidInv
  <2>8. /\ query[t] \in Fdids => Grounded(query[t], by_fdid'[ProcOf[t]][row[t][1]])
        /\ query[t] \notin Fdids => Grounded(query[t], row[t][1])
    BY <2>1, <2>7, RowIsGrounded DEF Grounded
  <2>9. AnswerInv'
    BY <1>5, <1>g, <2>8 DEF FillMemory, Goto, Return, Answer, SourceInv, AnswerInv, TypeOK
  <2> QED
    BY <2>2, <2>3, <2>4, <2>9 DEF SourceInv
<1>6. ASSUME NEW t \in Threads, Remember(t) PROVE SourceInv'
  <2>1. /\ row[t] \in Matching(Sources, query[t]) /\ row[t] \in Sources
        /\ row[t] \in Rows /\ query[t] \in Fdids \cup Paths
        /\ CacheInMemory(ProcOf[t], row[t])
    BY <1>6 DEF Remember, SourceInv, RowInv, LookupInv, Matching
  <2>2. FdidInv' /\ PathInv'
    BY <2>1, <1>p, <1>w, CacheSources
  <2>3. LocalInv'
    BY <1>6, <1>w DEF Remember, SourceInv, LocalInv
  <2>4. RowInv'
    BY <1>6, <1>m, <2>1 DEF Remember, Goto, SourceInv, RowInv, TypeOK
  <2>5. AnswerInv'
    BY <1>6, <1>g, <2>1, RowIsGrounded DEF Remember, Goto, Answer, SourceInv, AnswerInv, TypeOK
  <2> QED
    BY <2>2, <2>3, <2>4, <2>5 DEF SourceInv
<1>7. ASSUME NEW t \in Threads, Persist(t) PROVE SourceInv'
  <2>1. row[t] \in Sources
    BY <1>7 DEF Persist, SourceInv, RowInv, Matching
  <2>2. LocalInv'
    BY <1>7, <1>w, <2>1 DEF Persist, Replace, SourceInv, LocalInv
  <2>3. FdidInv' /\ PathInv'
    BY <1>7, <1>w DEF Persist, memory, SourceInv, FdidInv, PathInv
  <2>4. RowInv' /\ AnswerInv'
    BY <1>7, <1>m, <1>g DEF Persist, Goto, SourceInv, RowInv, AnswerInv, TypeOK
  <2> QED
    BY <2>2, <2>3, <2>4 DEF SourceInv
<1>8. ASSUME NEW t \in Threads, TableError(t) PROVE SourceInv'
  <2>1. LocalInv' /\ FdidInv' /\ PathInv'
    BY <1>8, <1>w DEF TableError, memory, SourceInv, LocalInv, FdidInv, PathInv
  <2>2. RowInv' /\ AnswerInv'
    BY <1>8, <1>m, <1>g DEF TableError, Goto, SourceInv, RowInv, AnswerInv, TypeOK, LookupInv
  <2> QED
    BY <2>1, <2>2 DEF SourceInv
<1>9. ASSUME NEW p \in Procs, Kill(p) PROVE SourceInv'
  <2>1. LocalInv'
    BY <1>9, <1>w DEF Kill, SourceInv, LocalInv
  <2>2. FdidInv' /\ PathInv'
    BY <1>9, <1>w DEF Kill, SourceInv, FdidInv, PathInv, TypeOK
  <2>3. RowInv' /\ AnswerInv'
    BY <1>9, <1>m, <1>g DEF Kill, SourceInv, RowInv, AnswerInv
  <2> QED
    BY <2>1, <2>2, <2>3 DEF SourceInv
<1> QED
  BY <1>0, <1>1, <1>2, <1>3, <1>4, <1>5, <1>6, <1>7, <1>8, <1>9 DEF Next, Step

\* Every answer is an entry of one of the two tables at the start, whichever
\* thread, process, index or table it went through (listfile.rs:99-156).
THEOREM AnswersAreGrounded == Spec => []AnswersHaveASource
<1>1. Init => TypeOK /\ LookupInv /\ SourceInv
  BY TypeInit, SourceInit
<1>2. TypeOK /\ LookupInv /\ SourceInv /\ [Next]_vars => (TypeOK /\ LookupInv /\ SourceInv)'
  BY TypeNext, SourceNext
<1>3. SourceInv => AnswersHaveASource
  BY DEF SourceInv, AnswerInv, Grounded, AnswersHaveASource
<1> QED
  BY <1>1, <1>2, <1>3, PTL DEF Spec

-----------------------------------------------------------------------------
(* What a process keeps in memory *)

\* A row that goes into memory changes no entry of either index, and memory says
\* what the row says unless it said something before.
LEMMA CacheStands ==
  ASSUME TypeOK, NEW p \in Procs, NEW r \in Rows, CacheInMemory(p, r)
  PROVE  /\ \A q \in Procs :
              /\ \A f \in Fdids : by_fdid[q][f] \in {None, by_fdid'[q][f]}
              /\ \A k \in Keys : by_path[q][k] \in {None, by_path'[q][k]}
         /\ by_fdid[p][r[1]] = None => by_fdid'[p][r[1]] = r[2]
         /\ by_path[p][Lower[r[2]]] = None => by_path'[p][Lower[r[2]]] = r[1]
<1>1. by_fdid' = [by_fdid EXCEPT ![p] =
                    [by_fdid[p] EXCEPT ![r[1]] = OrInsert(by_fdid[p][r[1]], r[2])]]
  BY DEF CacheInMemory
<1>2. by_path' = [by_path EXCEPT ![p] =
                    [by_path[p] EXCEPT ![Lower[r[2]]] = OrInsert(by_path[p][Lower[r[2]]], r[1])]]
  BY DEF CacheInMemory
<1>3. \A q \in Procs, f \in Fdids : by_fdid[q][f] \in {None, by_fdid'[q][f]}
  BY <1>1 DEF OrInsert, TypeOK
<1>4. \A q \in Procs, k \in Keys : by_path[q][k] \in {None, by_path'[q][k]}
  BY <1>2 DEF OrInsert, TypeOK
<1>5. by_fdid[p][r[1]] = None => by_fdid'[p][r[1]] = r[2]
  BY <1>1, RowParts DEF OrInsert, TypeOK
<1>6. by_path[p][Lower[r[2]]] = None => by_path'[p][Lower[r[2]]] = r[1]
  BY <1>2, RowParts DEF OrInsert, TypeOK
<1> QED
  BY <1>3, <1>4, <1>5, <1>6

\* What MemoryStands says of one process, and of one thread.
EntriesStand(p) ==
  \/ /\ by_fdid'[p] = [f \in Fdids |-> None]
     /\ by_path'[p] = [k \in Keys |-> None]
  \/ /\ \A f \in Fdids : by_fdid[p][f] \in {None, by_fdid'[p][f]}
     /\ \A k \in Keys : by_path[p][k] \in {None, by_path'[p][k]}
AnswerIsMemory(t) ==
  \/ answer'[t] \in {None, answer[t]}
  \/ answer'[t] = Remembered(ProcOf[t], query[t])'
  \/ Overtaken(t)

\* A thread that puts its row into memory answers with what is there after, or
\* was overtaken.
LEMMA CachingAnswers ==
  ASSUME TypeOK, LookupInv, SourceInv, NEW t \in Threads, FillMemory(t) \/ Remember(t)
  PROVE  /\ \A p \in Procs : EntriesStand(p)
         /\ AnswerIsMemory(t)
<1> DEFINE p == ProcOf[t]
           q == query[t]
           r == row[t]
<1>p. p \in Procs
  BY ConstantsAssumption
<1>1. /\ r \in Rows /\ r \in Matching(Sources, q) /\ q \in Fdids \cup Paths
      /\ CacheInMemory(p, r) /\ query' = query
      /\ pc[t] \in {"fill", "remember"}
  BY DEF FillMemory, Remember, LookupInv, SourceInv, RowInv
<1>2. \A s \in Procs : EntriesStand(s)
  BY <1>1, <1>p, CacheStands DEF EntriesStand
<1>3. ASSUME q \in Fdids PROVE AnswerIsMemory(t)
  <2>1. q = r[1]
    BY <1>1, <1>3, RowIsGrounded
  <2>2. Remembered(p, q) = by_fdid[p][q] /\ Remembered(p, q)' = by_fdid'[p][q]
    BY <1>1, <1>3 DEF Remembered
  <2>3. CASE FillMemory(t)
    BY <1>1, <1>3, <2>1, <2>3 DEF Remembered, FillMemory, Return, Answer, AnswerIsMemory, TypeOK
  <2>4. CASE Remember(t)
    <3>1. answer'[t] = r[2] /\ pc[t] = "remember"
      BY <1>3, <2>4 DEF Remember, Answer, TypeOK
    <3>2. by_fdid[p][q] = None => by_fdid'[p][q] = r[2]
      BY <1>1, <1>p, <2>1, CacheStands
    <3> QED
      BY <1>1, <1>3, <2>2, <3>1, <3>2 DEF Remembered, AnswerIsMemory, Overtaken
  <2> QED
    BY <2>3, <2>4
<1>4. ASSUME q \notin Fdids PROVE AnswerIsMemory(t)
  <2>1. q \in Paths /\ Lower[q] = Lower[r[2]]
    BY <1>1, <1>4, RowParts DEF Matching
  <2>2. /\ Remembered(p, q) = by_path[p][Lower[r[2]]]
        /\ Remembered(p, q)' = by_path'[p][Lower[r[2]]]
    BY <1>1, <1>4, <2>1 DEF Remembered
  <2>3. answer'[t] = r[1]
    BY <1>4 DEF FillMemory, Remember, Return, Answer, TypeOK
  <2>4. by_path[p][Lower[r[2]]] = None => by_path'[p][Lower[r[2]]] = r[1]
    BY <1>1, <1>p, CacheStands
  <2> QED
    BY <1>1, <1>4, <2>1, <2>2, <2>3, <2>4 DEF Remembered, AnswerIsMemory, Overtaken
<1> QED
  BY <1>2, <1>3, <1>4

\* An entry of either index stands until the process ends, also where the tables
\* contradict it, and a lookup that was not overtaken answers what memory says
\* from then on (listfile.rs:99-133, 146-156, 203-204).
THEOREM MemoryIsKept == Spec => MemoryStands
<1>1. Init => TypeOK /\ LookupInv /\ SourceInv
  BY TypeInit, SourceInit
<1>2. TypeOK /\ LookupInv /\ SourceInv /\ [Next]_vars => (TypeOK /\ LookupInv /\ SourceInv)'
  BY TypeNext, SourceNext
<1>3. TypeOK /\ LookupInv /\ SourceInv /\ [Next]_vars =>
        [/\ \A p \in Procs : EntriesStand(p)
         /\ \A t \in Threads : AnswerIsMemory(t)]_vars
  <2> SUFFICES ASSUME TypeOK, LookupInv, SourceInv, Next
               PROVE  /\ \A p \in Procs : EntriesStand(p)
                      /\ \A t \in Threads : AnswerIsMemory(t)
    OBVIOUS
  <2>1. ASSUME NEW t \in Threads,
               \/ Call(t) \/ LookupLocal(t) \/ LookupCommunity(t)
               \/ Persist(t) \/ TableError(t)
        PROVE  /\ UNCHANGED memory
               /\ \A u \in Threads : answer'[u] \in {None, answer[u]}
    BY <2>1 DEF Call, LookupLocal, LookupCommunity, Persist, TableError,
                Return, Answer, TypeOK
  <2>2. ASSUME NEW t \in Threads, LookupMemory(t)
        PROVE  /\ UNCHANGED memory
               /\ AnswerIsMemory(t)
               /\ \A u \in Threads \ {t} : answer'[u] = answer[u]
    <3>1. Remembered(ProcOf[t], query[t])' = Remembered(ProcOf[t], query[t])
      BY <2>2 DEF LookupMemory, memory, Remembered
    <3> QED
      BY <2>2, <3>1 DEF LookupMemory, Return, Answer, AnswerIsMemory, TypeOK
  <2>3. ASSUME NEW t \in Threads, FillMemory(t) \/ Remember(t)
        PROVE  /\ \A p \in Procs : EntriesStand(p)
               /\ AnswerIsMemory(t)
               /\ \A u \in Threads \ {t} : answer'[u] = answer[u]
    <3>1. \A u \in Threads \ {t} : answer'[u] = answer[u]
      BY <2>3 DEF FillMemory, Remember, Return, Answer, TypeOK
    <3> QED
      BY <2>3, <3>1, CachingAnswers
  <2>4. ASSUME NEW q \in Procs, Kill(q)
        PROVE  /\ \A p \in Procs : EntriesStand(p)
               /\ \A u \in Threads : answer'[u] \in {None, answer[u]}
    BY <2>4 DEF Kill, EntriesStand, TypeOK
  <2>5. UNCHANGED memory => \A p \in Procs : EntriesStand(p)
    BY DEF memory, EntriesStand
  <2>6. \A u \in Threads : answer'[u] \in {None, answer[u]} => AnswerIsMemory(u)
    BY DEF AnswerIsMemory
  <2> QED
    BY <2>1, <2>2, <2>3, <2>4, <2>5, <2>6 DEF Next, Step
<1>4. Spec => [][/\ \A p \in Procs : EntriesStand(p)
                 /\ \A t \in Threads : AnswerIsMemory(t)]_vars
  BY <1>1, <1>2, <1>3, PTL DEF Spec
<1> QED
  BY <1>4 DEF MemoryStands, EntriesStand, AnswerIsMemory

-----------------------------------------------------------------------------
(* Tables that agree *)

\* A FileDataID has one path and a path has one FileDataID.
LEMMA OneRow ==
  ASSUME Agreeing, NEW r \in Sources, NEW s \in Sources,
         r[1] = s[1] \/ Lower[r[2]] = Lower[s[2]]
  PROVE  r = s
  BY DEF Agreeing, Unique

Mirror ==
  \A p \in Procs, f \in Fdids, k \in Keys :
    by_path[p][k] = f <=> by_fdid[p][f] # None /\ Lower[by_fdid[p][f]] = k

\* No local entry of the start is lost.
Kept == world.local \subseteq local

\* What a lookup found in the local table is still there.
FoundInv == \A t \in Threads : pc[t] = "fill" => row[t] \in local

\* Who asks the community table knows that the local one has nothing.
AskedInv ==
  \A t \in Threads :
    pc[t] = "community" /\ ~faulted[ProcOf[t]] => Matching(world.local, query[t]) = {}

MissInv ==
  \A t \in Threads : pc[t] = "done" /\ answer[t] = None /\ ~faulted[ProcOf[t]] =>
    Matching(Sources, query[t]) = {}

\* What is in memory is persisted, or some thread of the process is about to.
Persisted(p, f) ==
  by_fdid[p][f] # None /\ ~faulted[p] =>
    \/ <<f, by_fdid[p][f]>> \in local
    \/ \E t \in Threads :
         ProcOf[t] = p /\ pc[t] = "persist" /\ row[t] = <<f, by_fdid[p][f]>>
PersistInv == \A p \in Procs, f \in Fdids : Persisted(p, f)

HaveAnswer == \A t \in Threads : pc[t] = "persist" => answer[t] # None

AgreeInv ==
  Agreeing => Mirror /\ Kept /\ FoundInv /\ AskedInv /\ MissInv /\ PersistInv /\ HaveAnswer

\* Memory and disk agree initially ...
LEMMA AgreeInit == Init => AgreeInv
<1> SUFFICES ASSUME Init PROVE AgreeInv
  OBVIOUS
<1>1. Mirror
  BY ConstantsAssumption DEF Init, Mirror
<1>2. Kept /\ FoundInv /\ AskedInv /\ MissInv /\ HaveAnswer
  BY DEF Init, Kept, FoundInv, AskedInv, MissInv, HaveAnswer
<1>3. PersistInv
  BY DEF Init, PersistInv, Persisted
<1> QED
  BY <1>1, <1>2, <1>3 DEF AgreeInv

\* Both keys of a row are in memory, or none is.
LEMMA BothOrNone ==
  ASSUME TypeOK, SourceInv, Agreeing, Mirror, NEW p \in Procs, NEW r \in Sources
  PROVE  \/ by_fdid[p][r[1]] = None /\ by_path[p][Lower[r[2]]] = None
         \/ by_fdid[p][r[1]] = r[2] /\ by_path[p][Lower[r[2]]] = r[1]
<1>r. r \in Rows /\ r[1] \in Fdids /\ r[2] \in Paths /\ r = <<r[1], r[2]>> /\ Lower[r[2]] \in Keys
  BY SourcesAreRows, RowParts
<1>1. by_fdid[p][r[1]] # None => by_fdid[p][r[1]] = r[2]
  <2> DEFINE s == <<r[1], by_fdid[p][r[1]]>>
  <2> SUFFICES ASSUME by_fdid[p][r[1]] # None PROVE by_fdid[p][r[1]] = r[2]
    OBVIOUS
  <2>1. s \in Sources
    BY <1>r DEF SourceInv, FdidInv
  <2>2. s = r
    BY <2>1, OneRow
  <2> QED
    BY <2>2
<1>2. by_path[p][Lower[r[2]]] # None => by_path[p][Lower[r[2]]] = r[1]
  <2> SUFFICES ASSUME by_path[p][Lower[r[2]]] # None PROVE by_path[p][Lower[r[2]]] = r[1]
    OBVIOUS
  <2>1. PICK s \in Sources : s[1] = by_path[p][Lower[r[2]]] /\ Lower[s[2]] = Lower[r[2]]
    BY <1>r DEF SourceInv, PathInv
  <2>2. s = r
    BY <2>1, OneRow
  <2> QED
    BY <2>1, <2>2
<1>3. by_path[p][Lower[r[2]]] = r[1] <=> by_fdid[p][r[1]] # None /\ Lower[by_fdid[p][r[1]]] = Lower[r[2]]
  BY <1>r DEF Mirror
<1>4. r[1] # None
  BY <1>r, ConstantsAssumption
<1> QED
  BY <1>1, <1>2, <1>3, <1>4

\* Inserting a row of agreeing tables keeps the indexes mirrored; an insertion
\* that was not needed changes nothing.
LEMMA CacheMirror ==
  ASSUME TypeOK, SourceInv, Agreeing, Mirror, NEW p \in Procs, NEW r \in Sources,
         CacheInMemory(p, r)
  PROVE  /\ Mirror'
         /\ AlreadyCached(p, r) => UNCHANGED by_fdid
         /\ \A q \in Procs, f \in Fdids :
              by_fdid'[q][f] # by_fdid[q][f] => q = p /\ f = r[1] /\ by_fdid'[q][f] = r[2]
<1>r. r \in Rows /\ r[1] \in Fdids /\ r[2] \in Paths /\ r = <<r[1], r[2]>> /\ Lower[r[2]] \in Keys
  BY SourcesAreRows, RowParts
<1>n. r[1] # None /\ r[2] # None
  BY <1>r, RowParts
<1>1. CASE by_fdid[p][r[1]] = None /\ by_path[p][Lower[r[2]]] = None
  <2>1. by_fdid' = [by_fdid EXCEPT ![p] = [by_fdid[p] EXCEPT ![r[1]] = r[2]]]
    BY <1>1 DEF CacheInMemory, OrInsert
  <2>2. by_path' = [by_path EXCEPT ![p] = [by_path[p] EXCEPT ![Lower[r[2]]] = r[1]]]
    BY <1>1 DEF CacheInMemory, OrInsert
  <2>3. ASSUME NEW q \in Procs, NEW f \in Fdids, NEW k \in Keys
        PROVE  by_path'[q][k] = f <=> by_fdid'[q][f] # None /\ Lower[by_fdid'[q][f]] = k
    <3>0. by_path[q][k] = f <=> by_fdid[q][f] # None /\ Lower[by_fdid[q][f]] = k
      BY DEF Mirror
    <3>1. CASE q # p
      BY <3>0, <3>1, <2>1, <2>2 DEF TypeOK
    <3>2. CASE q = p /\ f = r[1]
      <4>1. by_fdid'[q][f] = r[2]
        BY <3>2, <2>1, <1>r DEF TypeOK
      <4>2. k # Lower[r[2]] => by_path'[q][k] = by_path[q][k] /\ by_path[q][k] # f
        BY <3>0, <3>2, <2>2, <1>1 DEF TypeOK
      <4>3. k = Lower[r[2]] => by_path'[q][k] = f
        BY <3>2, <2>2, <1>r DEF TypeOK
      <4> QED
        BY <4>1, <4>2, <4>3, <1>n
    <3>3. CASE q = p /\ f # r[1]
      <4>1. by_fdid'[q][f] = by_fdid[q][f]
        BY <3>3, <2>1 DEF TypeOK
      <4>2. k # Lower[r[2]] => by_path'[q][k] = by_path[q][k]
        BY <3>3, <2>2 DEF TypeOK
      <4>3. k = Lower[r[2]] => by_path'[q][k] = r[1] /\ by_path[q][k] = None
        BY <3>3, <2>2, <1>1, <1>r DEF TypeOK
      <4>4. f # None
        BY ConstantsAssumption
      <4> QED
        BY <3>0, <3>3, <4>1, <4>2, <4>3, <4>4
    <3> QED
      BY <3>1, <3>2, <3>3
  <2>4. Mirror'
    BY <2>3 DEF Mirror
  <2>5. ~AlreadyCached(p, r)
    BY <1>1 DEF AlreadyCached
  <2>6. \A q \in Procs, f \in Fdids :
          by_fdid'[q][f] # by_fdid[q][f] => q = p /\ f = r[1] /\ by_fdid'[q][f] = r[2]
    BY <2>1, <1>r DEF TypeOK
  <2> QED
    BY <2>4, <2>5, <2>6
<1>2. CASE by_fdid[p][r[1]] = r[2] /\ by_path[p][Lower[r[2]]] = r[1]
  <2>1. OrInsert(by_fdid[p][r[1]], r[2]) = by_fdid[p][r[1]]
    BY <1>2 DEF OrInsert
  <2>2. OrInsert(by_path[p][Lower[r[2]]], r[1]) = by_path[p][Lower[r[2]]]
    BY <1>2 DEF OrInsert
  <2>3. by_fdid' = by_fdid
    BY <2>1, <1>r DEF CacheInMemory, TypeOK
  <2>4. by_path' = by_path
    BY <2>2, <1>r DEF CacheInMemory, TypeOK
  <2> QED
    BY <2>3, <2>4 DEF Mirror
<1> QED
  BY <1>1, <1>2, BothOrNone

\* An entry stays persisted, or about to be, in a step that leaves it in memory
\* and lets no thread drop what it is about to write.
LEMMA PersistStays ==
  ASSUME NEW p \in Procs, NEW f \in Fdids, Persisted(p, f),
         by_fdid'[p][f] = by_fdid[p][f],
         local \subseteq local',
         ~faulted'[p] => ~faulted[p],
         \A u \in Threads : ProcOf[u] = p /\ pc[u] = "persist" =>
            \/ pc'[u] = "persist" /\ row'[u] = row[u]
            \/ row[u] \in local'
            \/ faulted'[p]
  PROVE  Persisted(p, f)'
  BY DEF Persisted

\* ... and after every step.
LEMMA AgreeNext ==
  TypeOK /\ LookupInv /\ SourceInv /\ AgreeInv /\ [Next]_vars => AgreeInv'
<1> SUFFICES ASSUME TypeOK, LookupInv, SourceInv, AgreeInv, [Next]_vars, Agreeing' PROVE AgreeInv'
  BY DEF AgreeInv
<1>p. \A t \in Threads : ProcOf[t] \in Procs
  BY ConstantsAssumption
<1>w. world' = world
  BY DEF Next, Step, vars, Call, LookupMemory, LookupLocal, LookupCommunity, FillMemory,
         Remember, Persist, TableError, Kill
<1>s. Sources' = Sources /\ Agreeing
  BY <1>w DEF Sources, Agreeing
<1>a. Mirror /\ Kept /\ FoundInv /\ AskedInv /\ MissInv /\ PersistInv /\ HaveAnswer
  BY <1>s DEF AgreeInv
<1>m. /\ \A q : Matching(Sources, q)' = Matching(Sources, q)
      /\ \A q : Matching(world.local, q)' = Matching(world.local, q)
  BY <1>w, <1>s DEF Matching
<1> DEFINE Goal == /\ Mirror' /\ Kept' /\ FoundInv' /\ AskedInv' /\ MissInv'
                   /\ PersistInv' /\ HaveAnswer'
<1> SUFFICES Goal
  BY DEF AgreeInv
<1>0. CASE UNCHANGED vars
  <2>1. Mirror' /\ Kept' /\ FoundInv' /\ AskedInv' /\ MissInv' /\ HaveAnswer'
    BY <1>0, <1>a, <1>m DEF vars, memory, bounds, Mirror, Kept, FoundInv, AskedInv, MissInv,
                           HaveAnswer
  <2>2. PersistInv'
    BY <1>0, <1>a, PersistStays DEF vars, memory, PersistInv
  <2> QED
    BY <2>1, <2>2
\* The steps that touch neither the indexes nor the local table.
<1>u. ASSUME UNCHANGED <<by_fdid, by_path, local>> PROVE Mirror' /\ Kept'
  BY <1>u, <1>a, <1>w DEF Mirror, Kept
<1>1. ASSUME NEW t \in Threads, Call(t) PROVE Goal
  <2>1. UNCHANGED <<by_fdid, by_path, local, faulted>> /\ pc[t] # "persist"
    BY <1>1 DEF Call, memory
  <2>2. FoundInv' /\ AskedInv' /\ MissInv' /\ HaveAnswer'
    BY <1>1, <1>a, <1>m DEF Call, Goto, Answer, FoundInv, AskedInv, MissInv, HaveAnswer, TypeOK
  <2>3. PersistInv'
    BY <1>1, <2>1, <1>a, PersistStays DEF Call, Goto, PersistInv, TypeOK
  <2> QED
    BY <1>u, <2>1, <2>2, <2>3
<1>2. ASSUME NEW t \in Threads, LookupMemory(t) PROVE Goal
  <2>1. UNCHANGED <<by_fdid, by_path, local, faulted>> /\ pc[t] # "persist"
    BY <1>2 DEF LookupMemory, memory
  <2>2. FoundInv' /\ AskedInv' /\ MissInv' /\ HaveAnswer'
    BY <1>2, <1>a, <1>m DEF LookupMemory, Goto, Return, Answer, FoundInv, AskedInv, MissInv,
                           HaveAnswer, TypeOK
  <2>3. PersistInv'
    BY <1>2, <2>1, <1>a, PersistStays DEF LookupMemory, Goto, Return, PersistInv, TypeOK
  <2> QED
    BY <1>u, <2>1, <2>2, <2>3
<1>3. ASSUME NEW t \in Threads, LookupLocal(t) PROVE Goal
  <2>1. UNCHANGED <<by_fdid, by_path, local, faulted, query, answer>> /\ pc[t] = "local"
    BY <1>3 DEF LookupLocal, memory
  <2>2. Matching(local, query[t]) = {} => Matching(world.local, query[t]) = {}
    BY <1>a DEF Kept, Matching
  <2>3. \A r \in Matching(local, query[t]) : r \in local
    BY DEF Matching
  <2>4. FoundInv'
    BY <1>3, <1>a, <2>3 DEF LookupLocal, Goto, FoundInv, TypeOK
  <2>5. AskedInv'
    BY <1>3, <1>a, <1>m, <2>2 DEF LookupLocal, Goto, AskedInv, TypeOK
  <2>6. MissInv' /\ HaveAnswer'
    BY <1>3, <1>a, <1>m DEF LookupLocal, Goto, MissInv, HaveAnswer, TypeOK
  <2>7. PersistInv'
    BY <1>3, <2>1, <1>a, PersistStays DEF LookupLocal, Goto, PersistInv, TypeOK
  <2> QED
    BY <1>u, <2>1, <2>4, <2>5, <2>6, <2>7
<1>4. ASSUME NEW t \in Threads, LookupCommunity(t) PROVE Goal
  <2>1. UNCHANGED <<by_fdid, by_path, local, faulted, query>> /\ pc[t] = "community"
    BY <1>4 DEF LookupCommunity, memory
  <2>2. /\ ~faulted[ProcOf[t]] /\ Matching(world.community, query[t]) = {}
           => Matching(Sources, query[t]) = {}
    BY <1>a, <2>1 DEF AskedInv, Matching, Sources
  <2>3. FoundInv' /\ AskedInv' /\ HaveAnswer'
    BY <1>4, <1>a, <1>m DEF LookupCommunity, Goto, Return, Answer, FoundInv, AskedInv,
                           HaveAnswer, TypeOK
  <2>4. MissInv'
    BY <1>4, <1>a, <1>m, <2>2 DEF LookupCommunity, Goto, Return, Answer, MissInv, TypeOK
  <2>5. PersistInv'
    BY <1>4, <2>1, <1>a, PersistStays DEF LookupCommunity, Goto, Return, PersistInv, TypeOK
  <2> QED
    BY <1>u, <2>1, <2>3, <2>4, <2>5
<1>5. ASSUME NEW t \in Threads, FillMemory(t) PROVE Goal
  <2>1. /\ row[t] \in local /\ row[t] \in Sources /\ row[t] \in Rows
        /\ CacheInMemory(ProcOf[t], row[t])
    BY <1>5, <1>a DEF FillMemory, FoundInv, LookupInv, SourceInv, LocalInv
  <2>2. /\ Mirror'
        /\ \A q \in Procs, f \in Fdids :
             by_fdid'[q][f] # by_fdid[q][f] =>
               q = ProcOf[t] /\ f = row[t][1] /\ by_fdid'[q][f] = row[t][2]
    BY <2>1, <1>p, <1>s, <1>a, CacheMirror
  <2>3. /\ by_fdid'[ProcOf[t]][row[t][1]] # None /\ row[t][1] # None
        /\ row[t] = <<row[t][1], row[t][2]>>
    BY <2>1, <1>p, CacheTypes, RowParts, ConstantsAssumption
  <2>4. UNCHANGED <<world, local, faulted, query, row>> /\ pc[t] = "fill"
    BY <1>5 DEF FillMemory
  <2>5. Kept' /\ FoundInv' /\ AskedInv'
    BY <1>5, <1>a, <1>m, <2>4 DEF FillMemory, Goto, Return, Kept, FoundInv, AskedInv, TypeOK
  <2>6. MissInv' /\ HaveAnswer'
    BY <1>5, <1>a, <1>m, <2>3 DEF FillMemory, Goto, Return, Answer, MissInv, HaveAnswer, TypeOK
  <2>7. ASSUME NEW p \in Procs, NEW f \in Fdids PROVE Persisted(p, f)'
    <3>1. CASE by_fdid'[p][f] = by_fdid[p][f]
      BY <3>1, <1>5, <1>a, <2>4, PersistStays DEF FillMemory, Goto, Return, PersistInv, TypeOK
    <3>2. CASE by_fdid'[p][f] # by_fdid[p][f]
      BY <3>2, <2>1, <2>2, <2>3, <2>4 DEF Persisted
    <3> QED
      BY <3>1, <3>2
  <2>8. PersistInv'
    BY <2>7 DEF PersistInv
  <2> QED
    BY <2>2, <2>5, <2>6, <2>8
<1>6. ASSUME NEW t \in Threads, Remember(t) PROVE Goal
  <2>1. /\ row[t] \in Sources /\ row[t] \in Rows
        /\ CacheInMemory(ProcOf[t], row[t])
    BY <1>6 DEF Remember, SourceInv, RowInv, LookupInv, Matching
  <2>2. /\ Mirror'
        /\ AlreadyCached(ProcOf[t], row[t]) => UNCHANGED by_fdid
        /\ \A q \in Procs, f \in Fdids :
             by_fdid'[q][f] # by_fdid[q][f] =>
               q = ProcOf[t] /\ f = row[t][1] /\ by_fdid'[q][f] = row[t][2]
    BY <2>1, <1>p, <1>s, <1>a, CacheMirror
  <2>3. row[t][1] # None /\ row[t][2] # None /\ row[t] = <<row[t][1], row[t][2]>>
    BY <2>1, RowParts
  <2>4. UNCHANGED <<world, local, faulted, query, row>> /\ pc[t] = "remember"
    BY <1>6 DEF Remember
  <2>5. Kept' /\ FoundInv' /\ AskedInv'
    BY <1>6, <1>a, <1>m, <2>4 DEF Remember, Goto, Kept, FoundInv, AskedInv, TypeOK
  <2>6. MissInv' /\ HaveAnswer'
    BY <1>6, <1>a, <1>m, <2>3 DEF Remember, Goto, Answer, MissInv, HaveAnswer, TypeOK
  <2>7. ASSUME NEW p \in Procs, NEW f \in Fdids PROVE Persisted(p, f)'
    <3>1. CASE by_fdid'[p][f] = by_fdid[p][f]
      BY <3>1, <1>6, <1>a, <2>4, PersistStays DEF Remember, Goto, PersistInv, TypeOK
    <3>2. CASE by_fdid'[p][f] # by_fdid[p][f]
      <4>1. p = ProcOf[t] /\ row[t] = <<f, by_fdid'[p][f]>>
        BY <3>2, <2>2, <2>3
      <4>2. ~AlreadyCached(ProcOf[t], row[t])
        BY <3>2, <2>2
      <4>3. pc'[t] = "persist"
        BY <4>2, <1>6 DEF Remember, Goto, TypeOK
      <4> QED
        BY <4>1, <4>3, <2>4 DEF Persisted
    <3> QED
      BY <3>1, <3>2
  <2>8. PersistInv'
    BY <2>7 DEF PersistInv
  <2> QED
    BY <2>2, <2>5, <2>6, <2>8
<1>7. ASSUME NEW t \in Threads, Persist(t) PROVE Goal
  <2>1. UNCHANGED <<world, by_fdid, by_path, faulted, query, row, answer>> /\ pc[t] = "persist"
    BY <1>7 DEF Persist, memory
  <2>2. row[t] \in Sources
    BY <2>1 DEF SourceInv, RowInv, Matching
  <2>3. local' = local \cup {row[t]}
    <3>1. \A r \in local : r[1] = row[t][1] \/ Lower[r[2]] = Lower[row[t][2]] => r = row[t]
      BY <2>2, <1>s, OneRow DEF SourceInv, LocalInv
    <3> QED
      BY <3>1, <1>7 DEF Persist, Replace
  <2>4. Mirror' /\ Kept' /\ FoundInv'
    BY <1>7, <1>a, <2>1, <2>3 DEF Persist, Goto, Mirror, Kept, FoundInv, TypeOK
  <2>5. AskedInv' /\ MissInv' /\ HaveAnswer'
    BY <1>7, <1>a, <1>m, <2>1 DEF Persist, Goto, AskedInv, MissInv, HaveAnswer, TypeOK
  <2>6. PersistInv'
    BY <1>7, <1>a, <2>1, <2>3, PersistStays DEF Persist, Goto, PersistInv, TypeOK
  <2> QED
    BY <2>4, <2>5, <2>6
<1>8. ASSUME NEW t \in Threads, TableError(t) PROVE Goal
  <2>1. /\ UNCHANGED <<by_fdid, by_path, local, query, row, answer>>
        /\ faulted' = [faulted EXCEPT ![ProcOf[t]] = TRUE]
    BY <1>8 DEF TableError, memory
  <2>2. /\ pc'[t] \in {"community", "done"}
        /\ \A u \in Threads \ {t} : pc'[u] = pc[u]
    BY <1>8 DEF TableError, Goto, TypeOK
  <2>3. \A p \in Procs : ~faulted'[p] => p # ProcOf[t] /\ ~faulted[p]
    BY <2>1, <1>p DEF TypeOK
  <2>4. FoundInv' /\ HaveAnswer'
    BY <2>1, <2>2, <1>a DEF FoundInv, HaveAnswer
  <2>5. AskedInv' /\ MissInv'
    BY <2>1, <2>2, <2>3, <1>a, <1>m, <1>p DEF AskedInv, MissInv
  <2>6. PersistInv'
    BY <2>1, <2>2, <2>3, <1>a, <1>p, PersistStays DEF PersistInv, TypeOK
  <2> QED
    BY <1>u, <2>1, <2>4, <2>5, <2>6
<1>9. ASSUME NEW p \in Procs, Kill(p) PROVE Goal
  <2>1. UNCHANGED <<world, local>>
    BY <1>9 DEF Kill
  <2>2. /\ pc' = [t \in Threads |-> IF ProcOf[t] = p THEN "idle" ELSE pc[t]]
        /\ query' = [t \in Threads |-> IF ProcOf[t] = p THEN None ELSE query[t]]
        /\ row' = [t \in Threads |-> IF ProcOf[t] = p THEN None ELSE row[t]]
        /\ answer' = [t \in Threads |-> IF ProcOf[t] = p THEN None ELSE answer[t]]
        /\ faulted' = [faulted EXCEPT ![p] = FALSE]
    BY <1>9 DEF Kill
  <2>3. /\ by_fdid' = [by_fdid EXCEPT ![p] = [f \in Fdids |-> None]]
        /\ by_path' = [by_path EXCEPT ![p] = [k \in Keys |-> None]]
    BY <1>9 DEF Kill
  <2>4. Mirror'
    BY <2>3, <1>a, ConstantsAssumption DEF Mirror, TypeOK
  <2>5. Kept' /\ FoundInv' /\ HaveAnswer'
    BY <2>1, <2>2, <1>a DEF Kept, FoundInv, HaveAnswer
  <2>6. AskedInv' /\ MissInv'
    BY <2>2, <1>a, <1>m, <1>p DEF AskedInv, MissInv, TypeOK
  <2>7. ASSUME NEW q \in Procs, NEW f \in Fdids PROVE Persisted(q, f)'
    <3>1. CASE q = p
      BY <3>1, <2>3 DEF Persisted, TypeOK
    <3>2. CASE q # p
      BY <3>2, <2>1, <2>2, <2>3, <1>a, PersistStays DEF PersistInv, TypeOK
    <3> QED
      BY <3>1, <3>2
  <2>8. PersistInv'
    BY <2>7 DEF PersistInv
  <2> QED
    BY <2>4, <2>5, <2>6, <2>8
<1> QED
  BY <1>0, <1>1, <1>2, <1>3, <1>4, <1>5, <1>6, <1>7, <1>8, <1>9 DEF Next, Step

\* The whole inductive invariant.
IInv == TypeOK /\ LookupInv /\ SourceInv /\ AgreeInv

\* Every step keeps the invariant.
LEMMA Inductive == Spec => []IInv
<1>1. Init => IInv
  BY TypeInit, SourceInit, AgreeInit DEF IInv
<1>2. IInv /\ [Next]_vars => IInv'
  BY TypeNext, SourceNext, AgreeNext DEF IInv
<1> QED
  BY <1>1, <1>2, PTL DEF Spec

\* Where the tables agree, the two indexes of a process mirror each other,
\* though each lookup fills them in a step of its own (listfile.rs:198-205).
THEOREM IndexesAreMirrors == Spec => []IndexesMirror
<1>1. IInv => IndexesMirror
  BY DEF IInv, AgreeInv, Mirror, IndexesMirror
<1> QED
  BY <1>1, Inductive, PTL

\* Where the tables agree, no lookup misses an entry because another one moves
\* or replaces it meanwhile (listfile.rs:89-97).
THEOREM KnownAreFound == Spec => []KnownIsFound
<1>1. IInv => KnownIsFound
  BY DEF IInv, AgreeInv, MissInv, KnownIsFound
<1> QED
  BY <1>1, Inductive, PTL

\* Where the tables agree, an entry in the memory of a process is in the local
\* table, unless a lookup of that process is about to write it or a table failed
\* (listfile.rs:186-196).
THEOREM RememberedArePersisted == Spec => []RememberedIsPersisted
<1>1. IInv => RememberedIsPersisted
  BY DEF IInv, AgreeInv, PersistInv, Persisted, RememberedIsPersisted
<1> QED
  BY <1>1, Inductive, PTL

\* Where the tables agree, INSERT OR REPLACE replaces nothing: the local table
\* only grows (listfile_cache.rs:73-76).
THEOREM LocalOnlyGrows == Spec => LocalGrows
<1>1. IInv /\ [Next]_vars => [Agreeing => local \subseteq local']_vars
  <2> SUFFICES ASSUME IInv, Next, Agreeing PROVE local \subseteq local'
    OBVIOUS
  <2>1. ASSUME NEW t \in Threads, Persist(t) PROVE local \subseteq local'
    <3>1. row[t] \in Sources /\ local \subseteq Sources
      BY <2>1 DEF Persist, IInv, SourceInv, RowInv, LocalInv, Matching
    <3>2. \A r \in local : r[1] = row[t][1] \/ Lower[r[2]] = Lower[row[t][2]] => r = row[t]
      BY <3>1, OneRow
    <3> QED
      BY <2>1, <3>2 DEF Persist, Replace
  <2>2. ASSUME NEW t \in Threads,
               \/ Call(t) \/ LookupMemory(t) \/ LookupLocal(t) \/ LookupCommunity(t)
               \/ FillMemory(t) \/ Remember(t) \/ TableError(t)
        PROVE  local' = local
    BY <2>2 DEF Call, LookupMemory, LookupLocal, LookupCommunity, FillMemory, Remember, TableError
  <2>3. ASSUME NEW p \in Procs, Kill(p) PROVE local' = local
    BY <2>3 DEF Kill
  <2> QED
    BY <2>1, <2>2, <2>3 DEF Next, Step
<1> QED
  BY <1>1, Inductive, PTL DEF Spec, LocalGrows

-----------------------------------------------------------------------------
(* The book *)

Waiting == {t \in Threads : pc[t] \in Looking}
Held(p) == {r \in Rows : by_fdid[p][r[1]] = r[2]}
Failing == {p \in Procs : faulted[p]}

\* What a thread of agreeing tables is about to persist is in its memory.
WriteInv ==
  Agreeing => \A t \in Threads :
    pc[t] = "persist" => by_fdid[ProcOf[t]][row[t][1]] = row[t][2]

\* A row replies to what it matches, with its other half.
LEMMA Replies ==
  ASSUME NEW r \in Rows, NEW q \in Fdids \cup Paths
  PROVE  /\ q \in Fdids => RowReply[r][q] = IF q = r[1] THEN r[2] ELSE None
         /\ q \notin Fdids => RowReply[r][q] = IF Lower[q] = Lower[r[2]] THEN r[1] ELSE None
         /\ \A rows : r \in rows => (RowReply[r][q] # None <=> r \in Matching(rows, q))
<1>1. r[1] \in Fdids /\ r[1] \notin Paths /\ r[1] # None /\ r[2] # None
  BY RowParts
<1>2. RowReply[r][q] = IF q = r[1] THEN r[2]
                       ELSE IF q \in Paths /\ Lower[q] = Lower[r[2]] THEN r[1] ELSE None
  BY DEF RowReply
<1> QED
  BY <1>1, <1>2, ConstantsAssumption DEF Matching

\* A row that goes into memory is the only one that does.
LEMMA CacheHolds ==
  ASSUME TypeOK, SourceInv, Agreeing, Mirror, NEW p \in Procs, NEW r \in Sources,
         CacheInMemory(p, r)
  PROVE  /\ Held(p)' = Held(p) \cup {r}
         /\ \A q \in Procs \ {p} : by_fdid'[q] = by_fdid[q]
         /\ by_fdid'[p][r[1]] = r[2]
         /\ \A f \in Fdids : by_fdid[p][f] # None => by_fdid'[p][f] = by_fdid[p][f]
<1>r. r \in Rows /\ r[1] \in Fdids /\ r[2] \in Paths /\ r = <<r[1], r[2]>> /\ r[2] # None
  BY SourcesAreRows, RowParts
<1>1. OrInsert(by_fdid[p][r[1]], r[2]) = r[2]
  BY BothOrNone DEF OrInsert
<1>2. by_fdid' = [by_fdid EXCEPT ![p] = [by_fdid[p] EXCEPT ![r[1]] = r[2]]]
  BY <1>1 DEF CacheInMemory
<1>3. by_fdid[p][r[1]] = None \/ by_fdid[p][r[1]] = r[2]
  BY BothOrNone
<1>4. /\ by_fdid'[p][r[1]] = r[2]
      /\ \A f \in Fdids \ {r[1]} : by_fdid'[p][f] = by_fdid[p][f]
      /\ \A q \in Procs \ {p} : by_fdid'[q] = by_fdid[q]
  BY <1>2, <1>r DEF TypeOK
<1>5. ASSUME NEW s \in Rows
      PROVE  by_fdid'[p][s[1]] = s[2] <=> by_fdid[p][s[1]] = s[2] \/ s = r
  <2>1. s[1] \in Fdids /\ s = <<s[1], s[2]>> /\ s[2] # None
    BY RowParts
  <2>2. CASE s[1] = r[1]
    BY <2>1, <2>2, <1>3, <1>4, <1>r
  <2>3. CASE s[1] # r[1]
    BY <2>1, <2>3, <1>4
  <2> QED
    BY <2>2, <2>3
<1>6. Held(p)' = Held(p) \cup {r}
  BY <1>5, <1>r DEF Held
<1> QED
  BY <1>3, <1>4, <1>6

\* What is to be persisted is in memory from the step that put it there on.
LEMMA WriteNext ==
  IInv /\ WriteInv /\ [Next]_vars => WriteInv'
<1> SUFFICES ASSUME IInv, WriteInv, [Next]_vars, Agreeing',
                    NEW u \in Threads, pc'[u] = "persist"
             PROVE  by_fdid'[ProcOf[u]][row'[u][1]] = row'[u][2]
  BY DEF WriteInv
<1> USE DEF IInv
<1>p. \A t \in Threads : ProcOf[t] \in Procs
  BY ConstantsAssumption
<1>s. world' = world /\ Sources' = Sources /\ Agreeing
  BY DEF Next, Step, vars, Call, LookupMemory, LookupLocal, LookupCommunity, FillMemory,
         Remember, Persist, TableError, Kill, Sources, Agreeing
<1>a. Mirror /\ FoundInv
  BY <1>s DEF AgreeInv
<1>w. pc[u] = "persist" =>
        /\ by_fdid[ProcOf[u]][row[u][1]] = row[u][2]
        /\ row[u][1] \in Fdids /\ row[u][2] # None
  BY <1>s, RowParts DEF WriteInv, LookupInv
<1>0. CASE UNCHANGED vars
  BY <1>0, <1>w DEF vars, memory
<1>1. ASSUME NEW t \in Threads,
             \/ Call(t) \/ LookupMemory(t) \/ LookupLocal(t) \/ LookupCommunity(t)
             \/ Persist(t) \/ TableError(t)
      PROVE  pc[u] = "persist" /\ row'[u] = row[u] /\ by_fdid' = by_fdid
  BY <1>1 DEF Call, LookupMemory, LookupLocal, LookupCommunity, Persist, TableError,
              memory, Goto, Return, TypeOK
<1>2. ASSUME NEW t \in Threads, FillMemory(t) \/ Remember(t)
      PROVE  by_fdid'[ProcOf[u]][row'[u][1]] = row'[u][2]
  <2>1. row[t] \in Sources /\ CacheInMemory(ProcOf[t], row[t]) /\ row' = row
    BY <1>2 DEF FillMemory, Remember, SourceInv, RowInv, Matching
  <2>2. CASE u = t
    BY <2>1, <2>2, <1>p, <1>s, <1>a, CacheHolds
  <2>3. CASE u # t
    <3>1. pc[u] = "persist"
      BY <2>3, <1>2 DEF FillMemory, Remember, Goto, Return, TypeOK
    <3>2. CASE ProcOf[u] = ProcOf[t]
      BY <3>1, <3>2, <2>1, <1>p, <1>s, <1>a, <1>w, CacheHolds
    <3>3. CASE ProcOf[u] # ProcOf[t]
      BY <3>1, <3>3, <2>1, <1>p, <1>s, <1>a, <1>w, CacheHolds
    <3> QED
      BY <3>2, <3>3
  <2> QED
    BY <2>2, <2>3
<1>3. ASSUME NEW p \in Procs, Kill(p)
      PROVE  by_fdid'[ProcOf[u]][row'[u][1]] = row'[u][2]
  <2>1. ProcOf[u] # p /\ pc[u] = "persist" /\ row'[u] = row[u]
    BY <1>3 DEF Kill
  <2>2. by_fdid'[ProcOf[u]] = by_fdid[ProcOf[u]]
    BY <1>3, <2>1, <1>p DEF Kill, TypeOK
  <2> QED
    BY <2>1, <2>2, <1>w
<1> QED
  BY <1>0, <1>1, <1>2, <1>3, <1>w DEF Next, Step

\* Agreeing tables are a book of which nothing is remembered yet.
LEMMA BookInit == Init /\ Agreeing => Book!Init
<1> SUFFICES ASSUME Init, Agreeing PROVE Book!Init
  OBVIOUS
<1>1. Sources \subseteq Rows /\ TypeOK
  BY TypeInit, SourcesAreRows
<1>2. ASSUME NEW e \in Sources, NEW f \in Sources, NEW q \in Fdids \cup Paths,
             RowReply[e][q] # None, RowReply[f][q] # None
      PROVE  e = f
  <2>1. e \in Rows /\ f \in Rows
    BY <1>1
  <2>2. CASE q \in Fdids
    BY <1>2, <2>1, <2>2, Replies, OneRow
  <2>3. CASE q \notin Fdids
    BY <1>2, <2>1, <2>3, Replies, OneRow
  <2> QED
    BY <2>2, <2>3
<1>3. ASSUME NEW p \in Procs PROVE Held(p) = {}
  BY RowParts DEF Init, Held
<1>4. Waiting = {} /\ Failing = {}
  BY DEF Init, Waiting, Looking, Failing
<1>5. local \subseteq Sources
  BY DEF Init, Sources
<1>6. [p \in Procs |-> Held(p)] = [p \in Procs |-> {}]
  BY <1>3
<1>7. query = [t \in Threads |-> None] /\ answer = [t \in Threads |-> None]
  BY DEF Init
<1> QED
  BY <1>2, <1>4, <1>5, <1>6, <1>7 DEF Book!Init, Waiting, Failing, Held

\* How a step of a thread moves it among those that look something up.
LEMMA WaitingAfter ==
  ASSUME TypeOK, NEW t \in Threads, NEW x, pc' = [pc EXCEPT ![t] = x]
  PROVE  Waiting' = IF x \in Looking THEN Waiting \cup {t} ELSE Waiting \ {t}
BY DEF Waiting, TypeOK

\* A new lookup.
LEMMA CallAsks ==
  ASSUME IInv, Agreeing, NEW t \in Threads, Call(t)
  PROVE  \E q \in Fdids \cup Paths : Book!Ask(t, q)
<1>1. PICK q \in Fdids \cup Paths : query' = [query EXCEPT ![t] = q]
  BY DEF Call
<1>2. Waiting' = Waiting \cup {t} /\ t \notin Waiting
  BY WaitingAfter DEF IInv, Call, Goto, Waiting, Looking
<1>3. /\ UNCHANGED <<world, local, by_fdid, faulted>>
      /\ answer' = [answer EXCEPT ![t] = None]
  BY DEF Call, memory, Answer
<1> QED
  BY <1>1, <1>2, <1>3 DEF Book!Ask, Waiting, Sources

\* An answer from the indexes is one that an entry in memory gives, also where
\* it comes from the index by path.
LEMMA MemoryRecalls ==
  ASSUME IInv, Agreeing, NEW t \in Threads, LookupMemory(t)
  PROVE  Book!Recall(t) \/ UNCHANGED Book!vars
<1> DEFINE p == ProcOf[t]
           q == query[t]
           a == Remembered(p, q)
<1>p. p \in Procs
  BY ConstantsAssumption
<1>1. /\ t \in Waiting /\ q \in Fdids \cup Paths
      /\ UNCHANGED <<world, local, by_fdid, by_path, query, faulted>>
  BY DEF LookupMemory, memory, Waiting, Looking, IInv, LookupInv
<1>2. CASE a = None
  <2>1. Waiting' = Waiting /\ answer' = answer
    BY <1>1, <1>2, WaitingAfter DEF LookupMemory, Goto, IInv, Waiting, Looking
  <2> QED
    BY <1>1, <2>1 DEF Book!vars, Book!lookups, Waiting, Sources
<1>3. CASE a # None
  <2>1. Waiting' = Waiting \ {t} /\ answer' = [answer EXCEPT ![t] = a]
    BY <1>3, WaitingAfter DEF LookupMemory, Return, Goto, Answer, IInv, Looking
  <2>2. \E e \in Held(p) : RowReply[e][q] = a
    <3>1. CASE q \in Fdids
      <4>1. a = by_fdid[p][q] /\ a \in Paths
        BY <3>1, <1>3, <1>p DEF Remembered, IInv, TypeOK
      <4>2. <<q, a>> \in Held(p)
        BY <3>1, <4>1 DEF Held, Rows
      <4>3. RowReply[<<q, a>>][q] = a
        BY <3>1, <4>2, Replies DEF Held
      <4> QED
        BY <4>2, <4>3
    <3>2. CASE q \notin Fdids
      <4> DEFINE b == by_fdid[p][a]
      <4>1. q \in Paths /\ Lower[q] \in Keys /\ a = by_path[p][Lower[q]]
        BY <3>2, <1>1 DEF Remembered, Keys
      <4>2. b \in Paths /\ Lower[b] = Lower[q] /\ a \in Fdids
        <5>1. by_path[p][Lower[q]] \in Fdids \cup {None}
          BY <4>1, <1>p DEF IInv, TypeOK
        <5>2. a \in Fdids
          BY <5>1, <4>1, <1>3
        <5>3. b # None /\ Lower[b] = Lower[q]
          <6>1. \A f \in Fdids, k \in Keys :
                  by_path[p][k] = f => by_fdid[p][f] # None /\ Lower[by_fdid[p][f]] = k
            BY <1>p DEF IInv, AgreeInv, Mirror
          <6> HIDE DEF a
          <6> QED
            BY <4>1, <5>2, <6>1
        <5>4. b \in Paths \cup {None}
          BY <5>2, <1>p DEF IInv, TypeOK
        <5> QED
          BY <5>2, <5>3, <5>4
      <4>3. <<a, b>> \in Held(p)
        BY <4>1, <4>2 DEF Held, Rows
      <4>4. RowReply[<<a, b>>][q] = a
        BY <3>2, <1>1, <4>2, <4>3, Replies DEF Held
      <4> QED
        BY <4>3, <4>4
    <3> QED
      BY <3>1, <3>2
  <2> QED
    BY <1>1, <1>3, <2>1, <2>2, <1>p DEF Book!Recall, Book!Return, Waiting, Held, Sources
<1> QED
  BY <1>2, <1>3

\* The tables are read without effect, but for what both do not have.
LEMMA TablesReply ==
  ASSUME IInv, Agreeing, NEW t \in Threads, LookupLocal(t) \/ LookupCommunity(t)
  PROVE  Book!Miss(t) \/ UNCHANGED Book!vars
<1>p. ProcOf[t] \in Procs
  BY ConstantsAssumption
<1>1. /\ t \in Waiting /\ query[t] \in Fdids \cup Paths
      /\ UNCHANGED <<world, local, by_fdid, by_path, query, faulted>>
  BY DEF LookupLocal, LookupCommunity, memory, Waiting, Looking, IInv, LookupInv
<1>2. CASE \E x \in Looking : Goto(t, x) /\ UNCHANGED answer
  <2>1. Waiting' = Waiting
    BY <1>1, <1>2, WaitingAfter DEF Goto, IInv, Waiting
  <2> QED
    BY <1>1, <1>2, <2>1 DEF Book!vars, Book!lookups, Waiting, Sources
<1>3. CASE /\ pc[t] = "community" /\ Matching(world.community, query[t]) = {}
           /\ Return(t, None)
  <2>1. Waiting' = Waiting \ {t} /\ answer' = [answer EXCEPT ![t] = None]
    BY <1>3, WaitingAfter DEF Return, Goto, Answer, IInv, Looking
  <2>2. ASSUME ProcOf[t] \notin Failing, NEW e \in Sources
        PROVE  RowReply[e][query[t]] = None
    <3>1. Matching(Sources, query[t]) = {}
      BY <1>3, <2>2, <1>p DEF IInv, AgreeInv, AskedInv, Matching, Sources, Failing
    <3>2. e \in Rows
      BY SourcesAreRows DEF IInv
    <3> QED
      BY <1>1, <3>1, <3>2, Replies
  <2> QED
    BY <1>1, <2>1, <2>2 DEF Book!Miss, Book!Return, Waiting, Failing, Sources
<1>4. \/ \E x \in Looking : Goto(t, x) /\ UNCHANGED answer
      \/ /\ pc[t] = "community" /\ Matching(world.community, query[t]) = {}
         /\ Return(t, None)
  BY DEF LookupLocal, LookupCommunity, Looking
<1> QED
  BY <1>2, <1>3, <1>4

\* A row that a table had is a find, whether memory had it by now or not: the
\* path that stands in memory is the one the row has.
LEMMA CachingFinds ==
  ASSUME IInv, Agreeing, NEW t \in Threads, FillMemory(t) \/ Remember(t)
  PROVE  Book!Find(t)
<1> DEFINE p == ProcOf[t]
           q == query[t]
           r == row[t]
<1>p. p \in Procs
  BY ConstantsAssumption
<1>1. /\ t \in Waiting /\ q \in Fdids \cup Paths
      /\ r \in Matching(Sources, q) /\ r \in Sources /\ r \in Rows
      /\ CacheInMemory(p, r)
      /\ UNCHANGED <<world, local, query, faulted>>
  BY DEF FillMemory, Remember, Waiting, Looking, IInv, LookupInv, SourceInv, RowInv, Matching
<1>2. /\ Held(p)' = Held(p) \cup {r}
      /\ \A s \in Procs \ {p} : by_fdid'[s] = by_fdid[s]
      /\ by_fdid'[p][r[1]] = r[2]
  BY <1>1, <1>p, CacheHolds DEF IInv, AgreeInv
<1>3. [s \in Procs |-> Held(s)]' = [[s \in Procs |-> Held(s)] EXCEPT ![p] = @ \cup {r}]
  BY <1>2, <1>p DEF Held
<1>4. RowReply[r][q] # None /\ RowReply[r][q] = IF q \in Fdids THEN r[2] ELSE r[1]
  <2>1. RowReply[r][q] # None
    BY <1>1, Replies
  <2> QED
    BY <1>1, <2>1, Replies
<1>5. /\ answer' = [answer EXCEPT ![t] = IF q \in Fdids THEN r[2] ELSE r[1]]
      /\ pc' = [pc EXCEPT ![t] = pc'[t]] /\ pc'[t] \notin Looking
  BY <1>2 DEF FillMemory, Remember, Return, Goto, Answer, Looking, IInv, TypeOK
<1>6. Waiting' = Waiting \ {t}
  BY <1>5, WaitingAfter DEF IInv
<1> QED
  BY <1>1, <1>3, <1>4, <1>5, <1>6 DEF Book!Find, Book!Return, Waiting, Held, Sources

\* What is persisted is in memory, and replaces nothing.
LEMMA PersistKeeps ==
  ASSUME IInv, WriteInv, Agreeing, NEW t \in Threads, Persist(t)
  PROVE  Book!Keep(ProcOf[t])
<1>1. /\ row[t] \in Rows /\ row[t] \in Sources /\ local \subseteq Sources
      /\ UNCHANGED <<world, by_fdid, by_path, query, answer, faulted>>
  BY DEF Persist, memory, IInv, LookupInv, SourceInv, LocalInv, RowInv, Matching
<1>2. local' = local \cup {row[t]}
  <2>1. \A r \in local : r[1] = row[t][1] \/ Lower[r[2]] = Lower[row[t][2]] => r = row[t]
    BY <1>1, OneRow
  <2> QED
    BY <2>1 DEF Persist, Replace
<1>3. row[t] \in Held(ProcOf[t])
  BY <1>1 DEF Persist, WriteInv, Held
<1>4. Waiting' = Waiting
  BY WaitingAfter DEF Persist, Goto, IInv, Waiting, Looking
<1> QED
  BY <1>1, <1>2, <1>3, <1>4, ConstantsAssumption
  DEF Book!Keep, Book!lookups, Waiting, Held, Sources

\* A table that fails.
LEMMA ErrorIsFault ==
  ASSUME IInv, Agreeing, NEW t \in Threads, TableError(t)
  PROVE  Book!Fault(t)
<1>1. UNCHANGED <<world, local, by_fdid, by_path, query, answer>>
  BY DEF TableError, memory
<1>2. Failing' = Failing \cup {ProcOf[t]}
  BY ConstantsAssumption DEF TableError, Failing, IInv, TypeOK
<1>3. \/ Waiting' = Waiting
      \/ /\ t \in Waiting /\ Waiting' = Waiting \ {t}
         /\ answer' = [answer EXCEPT ![t] = None]
  <2>1. CASE pc[t] = "local" /\ Goto(t, "community")
    BY <2>1, WaitingAfter DEF Goto, IInv, Waiting, Looking
  <2>2. CASE pc[t] = "community" /\ Goto(t, "done")
    <3>1. answer[t] = None /\ answer \in [Threads -> Fdids \cup Paths \cup {None}]
      BY <2>2 DEF IInv, LookupInv, TypeOK
    <3> QED
      BY <2>2, <3>1, <1>1, WaitingAfter DEF Goto, IInv, Waiting, Looking
  <2>3. CASE pc[t] = "persist" /\ Goto(t, "done")
    BY <2>3, WaitingAfter DEF Goto, IInv, Waiting, Looking
  <2> QED
    BY <2>1, <2>2, <2>3 DEF TableError
<1> QED
  BY <1>1, <1>2, <1>3 DEF Book!Fault, Book!Return, Book!lookups, Waiting, Failing, Sources

\* A process that ends.
LEMMA KillRestarts ==
  ASSUME IInv, Agreeing, NEW p \in Procs, Kill(p)
  PROVE  Book!Restart(p)
<1>1. /\ UNCHANGED <<world, local>>
      /\ by_fdid' = [by_fdid EXCEPT ![p] = [f \in Fdids |-> None]]
      /\ pc' = [t \in Threads |-> IF ProcOf[t] = p THEN "idle" ELSE pc[t]]
      /\ query' = [t \in Threads |-> IF ProcOf[t] = p THEN None ELSE query[t]]
      /\ answer' = [t \in Threads |-> IF ProcOf[t] = p THEN None ELSE answer[t]]
      /\ faulted' = [faulted EXCEPT ![p] = FALSE]
  BY DEF Kill
<1>2. Held(p)' = {} /\ \A s \in Procs \ {p} : Held(s)' = Held(s)
  BY <1>1, RowParts DEF Held, IInv, TypeOK
<1>3. [s \in Procs |-> Held(s)]' = [[s \in Procs |-> Held(s)] EXCEPT ![p] = {}]
  BY <1>2
<1>4. Failing' = Failing \ {p}
  BY <1>1 DEF Failing, IInv, TypeOK
<1>5. Waiting' = {t \in Waiting : ProcOf[t] # p}
  BY <1>1 DEF Waiting, Looking
<1> QED
  BY <1>1, <1>3, <1>4, <1>5 DEF Book!Restart, Waiting, Failing, Held, Sources

\* Where the tables agree, the lookups of all processes behave as if they read
\* one book at once (listfile.rs:89-196).
THEOREM BookRefinement == Spec => ImplementsBook
<1>1. Init => WriteInv
  BY DEF Init, WriteInv
<1>2. Spec => [](IInv /\ WriteInv)
  BY <1>1, Inductive, WriteNext, PTL DEF Spec
<1>3. IInv /\ WriteInv /\ [Next]_vars => [Agreeing => Book!Next]_(Book!vars)
  <2> SUFFICES ASSUME IInv, WriteInv, [Next]_vars, Agreeing
               PROVE  Book!Next \/ UNCHANGED Book!vars
    OBVIOUS
  <2>0. CASE UNCHANGED vars
    BY <2>0 DEF vars, memory, bounds, Book!vars, Book!lookups, Sources
  <2>1. ASSUME NEW t \in Threads, Call(t) \/ Step(t) \/ TableError(t)
        PROVE  Book!Next \/ UNCHANGED Book!vars
    <3>1. CASE Call(t)
      BY <3>1, CallAsks DEF Book!Next
    <3>2. CASE LookupMemory(t)
      BY <3>2, MemoryRecalls DEF Book!Next
    <3>3. CASE LookupLocal(t) \/ LookupCommunity(t)
      BY <3>3, TablesReply DEF Book!Next
    <3>4. CASE FillMemory(t) \/ Remember(t)
      BY <3>4, CachingFinds DEF Book!Next
    <3>5. CASE Persist(t)
      BY <3>5, PersistKeeps, ConstantsAssumption DEF Book!Next
    <3>6. CASE TableError(t)
      BY <3>6, ErrorIsFault DEF Book!Next
    <3> QED
      BY <2>1, <3>1, <3>2, <3>3, <3>4, <3>5, <3>6 DEF Step
  <2>2. ASSUME NEW p \in Procs, Kill(p) PROVE Book!Next
    BY <2>2, KillRestarts DEF Book!Next
  <2> QED
    BY <2>0, <2>1, <2>2 DEF Next
<1>4. Init => (Agreeing => Book!Init)
  BY BookInit
<1> QED
  BY <1>2, <1>3, <1>4, PTL DEF Spec, ImplementsBook
=============================================================================
