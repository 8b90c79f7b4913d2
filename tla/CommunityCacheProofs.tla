------------------------- MODULE CommunityCacheProofs -------------------------
(***************************************************************************)
(* What CommunityCache promises for every set of processes and all bounds. *)
(***************************************************************************)
EXTENDS CommunityCache, TLAPS

\* The process in the transaction is the one that holds the write lock.
LockInv ==
    \A p \in Procs :
        /\ pc[p] \in Building <=> lock = {p}
        /\ pc[p] \in Opening => ~cached[p]

\* Every version carries a time that has been.
SourceInv ==
    \A v \in Versions : v <= version => mtime[v] \in 1..now

\* The tables are there with their metadata or not at all, and what is about to
\* be committed is at least as new.
TablesInv ==
    /\ db.entries <= version
    /\ db.entries = 0 <=> db.source_mtime = 0
    /\ \A p \in Procs : pc[p] \in {"stat", "commit"} =>
          /\ draft.entries \in Versions
          /\ db.entries <= draft.entries /\ draft.entries <= version
    /\ \A p \in Procs : pc[p] = "commit" => draft.source_mtime # 0

\* The metadata of an undisturbed cache names the version of its rows.
StampInv ==
    ~disturbed =>
        /\ \A v, w \in Versions : v < w /\ w <= version => mtime[v] < mtime[w]
        /\ db.entries # 0 => db.source_mtime = mtime[db.entries]
        /\ \A p \in Procs : pc[p] = "stat" => draft.entries = version
        /\ \A p \in Procs : pc[p] = "commit" => draft.source_mtime = mtime[draft.entries]

\* What each process may rely on at each point of its open.
OpenAt(p) ==
    /\ asked[p] <= version
    /\ pc[p] = "entries" => asked[p] = 0
    /\ pc[p] = "compare" =>
          /\ db.entries # 0
          /\ ~disturbed => \E v \in Versions : v <= db.entries /\ seen[p] = mtime[v]
    /\ pc[p] \in {"stat", "commit"} => asked[p] <= draft.entries
    /\ pc[p] \in {"connect", "lookup"} \/ cached[p] =>
          db.entries # 0 /\ (disturbed \/ asked[p] <= db.entries)

OpenInv == \A p \in Procs : OpenAt(p)

IInv == TypeOK /\ LockInv /\ SourceInv /\ TablesInv /\ StampInv /\ OpenInv

-----------------------------------------------------------------------------
(* Types *)

\* An empty database has the type of one.
LEMMA NoTablesType == NoTables \in Tables
BY ConstantsAssumption DEF NoTables, Tables

\* The types hold initially ...
LEMMA TypeInit == Init => TypeOK
<1> SUFFICES ASSUME Init PROVE TypeOK
  OBVIOUS
<1>1. db \in Tables /\ draft \in Tables
  BY NoTablesType DEF Init
<1>2. pc \in [Procs -> Points]
  BY DEF Init, Points
<1>3. mtime \in [Versions -> 0..LastSecond] /\ now \in 1..LastSecond
  BY ConstantsAssumption DEF Init
<1>4. /\ seen \in [Procs -> 0..LastSecond] /\ cached \in [Procs -> BOOLEAN]
      /\ asked \in [Procs -> 0..LastVersion] /\ answer \in [Procs -> 0..LastVersion]
  BY ConstantsAssumption DEF Init
<1>5. /\ exists = FALSE /\ disturbed = FALSE /\ hot = FALSE
      /\ lock \in SUBSET Procs /\ \A p, q \in lock : p = q
  BY DEF Init
<1>6. /\ version \in 0..LastVersion
      /\ calls \in 0..MaxCalls /\ faults \in 0..MaxFaults /\ kills \in 0..MaxKills
  BY ConstantsAssumption DEF Init
<1> QED
  BY <1>1, <1>2, <1>3, <1>4, <1>5, <1>6 DEF TypeOK

\* A transaction that ends leaves the lock to nobody new and no tables.
LEMMA EndTypes ==
  ASSUME TypeOK, NEW p \in Procs, EndTransaction(p)
  PROVE  /\ lock' \in SUBSET Procs /\ \A q, r \in lock' : q = r
         /\ draft' \in Tables
BY NoTablesType DEF TypeOK, EndTransaction

\* An error keeps the types.
LEMMA FailTypes ==
  ASSUME TypeOK, NEW p \in Procs, Fail(p)
  PROVE  /\ lock' \in SUBSET Procs /\ \A q, r \in lock' : q = r
         /\ draft' \in Tables
         /\ pc' \in [Procs -> Points]
         /\ answer' \in [Procs -> 0..LastVersion]
BY EndTypes, ConstantsAssumption DEF TypeOK, Fail, Goto, Points

\* A new version is numbered after all others.  Undisturbed, it is stamped with
\* the time, which no version before it carries.
LEMMA ReplaceIs ==
  ASSUME TypeOK, Replace
  PROVE  /\ version \in Nat /\ version' = version + 1 /\ version + 1 \in Versions
         /\ mtime' \in [Versions -> 0..LastSecond]
         /\ mtime'[version + 1] \in {now} \cup {mtime[v] : v \in 1..version}
         /\ \A v \in Versions : v # version + 1 => mtime'[v] = mtime[v]
         /\ \A v \in Versions : v \in Nat /\ mtime[v] \in Nat
         /\ disturbed' \in BOOLEAN /\ (disturbed => disturbed')
         /\ ~disturbed' =>
              /\ ~disturbed /\ \A q \in Procs : pc[q] # "stat"
              /\ mtime'[version + 1] = now
              /\ \A v \in Versions : v <= version => mtime[v] # now
         /\ UNCHANGED <<now, db, draft, pc, seen, cached, asked, lock>>
<1> DEFINE earlier == {mtime[v] : v \in 1..version}
<1>1. PICK time \in {now} \cup earlier :
         /\ mtime' = [mtime EXCEPT ![version + 1] = time]
         /\ disturbed' = (\/ disturbed
                          \/ time \in earlier
                          \/ \E p \in Procs : pc[p] = "stat")
  BY DEF Replace
<1>2. version \in Nat /\ version' = version + 1 /\ version + 1 \in Versions
  BY ConstantsAssumption DEF Replace, TypeOK, Versions
<1>3. 1..version \subseteq Versions /\ \A v \in Versions : v <= version => v \in 1..version
  BY <1>2, ConstantsAssumption DEF TypeOK, Versions
<1>4. \A v \in Versions : v \in Nat /\ mtime[v] \in Nat /\ mtime[v] \in 0..LastSecond
  BY ConstantsAssumption DEF TypeOK, Versions
<1>5. time \in 0..LastSecond
  BY <1>3, <1>4, ConstantsAssumption DEF TypeOK
<1>6. mtime' \in [Versions -> 0..LastSecond] /\ mtime'[version + 1] = time
  BY <1>1, <1>2, <1>5 DEF TypeOK
<1>7. \A v \in Versions : v # version + 1 => mtime'[v] = mtime[v]
  BY <1>1 DEF TypeOK
<1>8. /\ disturbed' \in BOOLEAN /\ (disturbed => disturbed')
      /\ ~disturbed' => ~disturbed /\ time \notin earlier /\ \A q \in Procs : pc[q] # "stat"
  BY <1>1
<1>9. \A v \in Versions : v <= version => mtime[v] \in earlier
  BY <1>3
<1>10. ~disturbed' => mtime'[version + 1] = now /\ \A v \in Versions : v <= version => mtime[v] # now
  BY <1>1, <1>6, <1>8, <1>9
<1>11. UNCHANGED <<now, db, draft, pc, seen, cached, asked, lock>>
  BY DEF Replace, tables
<1> QED
  BY <1>2, <1>4, <1>6, <1>7, <1>8, <1>10, <1>11, <1>1

\* ... and every step keeps them.
LEMMA TypeNext == TypeOK /\ [Next]_vars => TypeOK'
<1> SUFFICES ASSUME TypeOK, [Next]_vars PROVE TypeOK'
  OBVIOUS
<1> USE ConstantsAssumption DEF TypeOK, Goto, Points, Opening, Building, source, tables, bounds
<1>1. ASSUME NEW p \in Procs, Query(p) PROVE TypeOK'
  BY <1>1 DEF Query
<1>2. ASSUME NEW p \in Procs, SourceExists(p) PROVE TypeOK'
  BY <1>2 DEF SourceExists
<1>3. ASSUME NEW p \in Procs, CacheHasEntries(p) PROVE TypeOK'
  BY <1>3, FailTypes DEF CacheHasEntries
<1>4. ASSUME NEW p \in Procs, ReadMetadata(p) PROVE TypeOK'
  BY <1>4 DEF ReadMetadata, Tables
<1>5. ASSUME NEW p \in Procs, CompareMtime(p) PROVE TypeOK'
  BY <1>5, FailTypes DEF CompareMtime
<1>6. ASSUME NEW p \in Procs, InitCacheSchema(p) PROVE TypeOK'
  BY <1>6, NoTablesType DEF InitCacheSchema
<1>7. ASSUME NEW p \in Procs, UpgradeRefused(p) PROVE TypeOK'
  BY <1>7, FailTypes DEF UpgradeRefused
<1>8. ASSUME NEW p \in Procs, ImportRows(p) PROVE TypeOK'
  BY <1>8, FailTypes DEF ImportRows, Tables, Versions
<1>9. ASSUME NEW p \in Procs, RecordMetadata(p) PROVE TypeOK'
  <2>1. CASE exists
    <3>1. mtime[version] \in 0..LastSecond
      BY <2>1 DEF Versions
    <3>2. draft' = [draft EXCEPT !.source_mtime = mtime[version]] /\ UNCHANGED lock
      BY <1>9, <2>1 DEF RecordMetadata
    <3>3. draft' \in Tables
      BY <3>1, <3>2 DEF Tables
    <3> QED
      BY <1>9, <2>1, <3>2, <3>3 DEF RecordMetadata
  <2>2. CASE ~exists
    BY <1>9, <2>2, FailTypes DEF RecordMetadata
  <2> QED
    BY <2>1, <2>2
<1>10. ASSUME NEW p \in Procs, Commit(p) PROVE TypeOK'
  BY <1>10, EndTypes DEF Commit
<1>11. ASSUME NEW p \in Procs, Connect(p) PROVE TypeOK'
  BY <1>11 DEF Connect
<1>12. ASSUME NEW p \in Procs, LookupRow(p) PROVE TypeOK'
  BY <1>12 DEF LookupRow, Tables
<1>13. ASSUME NEW p \in Procs, LookupFails(p) PROVE TypeOK'
  BY <1>13, FailTypes DEF LookupFails
<1>14. ASSUME NEW p \in Procs, Error(p) PROVE TypeOK'
  BY <1>14, FailTypes DEF Error
<1>15. ASSUME NEW p \in Procs, Kill(p) PROVE TypeOK'
  BY <1>15, EndTypes DEF Kill
<1>16. CASE Replace
  <2>1. version' \in 0..LastVersion /\ exists' \in BOOLEAN /\ version' # 0
    BY <1>16, ReplaceIs DEF Replace, Versions
  <2>2. UNCHANGED <<now, db, draft, lock, hot, pc, seen, cached, asked, answer, calls, faults, kills>>
    BY <1>16 DEF Replace
  <2>3. mtime' \in [Versions -> 0..LastSecond] /\ disturbed' \in BOOLEAN
    BY <1>16, ReplaceIs
  <2> QED
    BY <2>1, <2>2, <2>3
<1>17. CASE Remove
  BY <1>17 DEF Remove, Versions
<1>18. CASE Tick
  BY <1>18 DEF Tick, Versions
<1>19. CASE UNCHANGED vars
  BY <1>19 DEF vars
<1> QED
  BY <1>1, <1>2, <1>3, <1>4, <1>5, <1>6, <1>7, <1>8, <1>9, <1>10, <1>11, <1>12, <1>13, <1>14, <1>15, <1>16, <1>17, <1>18, <1>19 DEF Next, Step

\* All variables keep their types.
THEOREM TypeCorrect == Spec => []TypeOK
BY TypeInit, TypeNext, PTL DEF Spec

-----------------------------------------------------------------------------
(* The inductive invariant *)

\* The invariant holds initially ...
LEMMA InvInit == Init => IInv
<1> SUFFICES ASSUME Init PROVE IInv
  OBVIOUS
<1> USE ConstantsAssumption DEF Init, NoTables
<1>1. LockInv
  BY DEF LockInv, Building, Opening
<1>2. SourceInv /\ TablesInv /\ StampInv
  BY DEF SourceInv, TablesInv, StampInv, Versions
<1>3. ASSUME NEW p \in Procs
      PROVE  pc[p] = "idle" /\ asked[p] = 0 /\ ~cached[p] /\ version = 0
  OBVIOUS
<1>4. ASSUME NEW p \in Procs PROVE OpenAt(p)
  BY <1>3 DEF OpenAt
<1> QED
  BY <1>1, <1>2, <1>4, TypeInit DEF IInv, OpenInv

\* A process that fails is out of its transaction, and disturbs nobody else's.
LEMMA FailKeeps ==
  ASSUME TypeOK, LockInv, NEW p \in Procs, Fail(p)
  PROVE  /\ pc'[p] = "done"
         /\ \A q \in Procs : q # p => pc'[q] = pc[q]
         /\ \A q \in Procs : pc'[q] \in {"stat", "commit"} => draft' = draft
BY DEF TypeOK, LockInv, Building, Fail, Goto, EndTransaction

\* Nobody else is in a transaction.
LEMMA OneBuilder ==
  ASSUME TypeOK, LockInv, NEW p \in Procs, pc[p] \in Building,
         NEW q \in Procs, pc[q] \in Building
  PROVE  p = q
BY DEF LockInv

\* A transaction begins with the lock and ends by giving it back.
LEMMA LockNext == TypeOK /\ LockInv /\ [Next]_vars => LockInv'
<1> SUFFICES ASSUME TypeOK, LockInv, [Next]_vars PROVE LockInv'
  OBVIOUS
<1> USE ConstantsAssumption DEF TypeOK, LockInv, Building, Opening, Goto, EndTransaction, Fail, source, tables, bounds
<1>1. ASSUME NEW p \in Procs, Query(p) PROVE LockInv'
  BY <1>1 DEF Query
<1>2. ASSUME NEW p \in Procs, SourceExists(p) PROVE LockInv'
  BY <1>2 DEF SourceExists
<1>3. ASSUME NEW p \in Procs, CacheHasEntries(p) PROVE LockInv'
  BY <1>3 DEF CacheHasEntries
<1>4. ASSUME NEW p \in Procs, ReadMetadata(p) PROVE LockInv'
  BY <1>4 DEF ReadMetadata
<1>5. ASSUME NEW p \in Procs, CompareMtime(p) PROVE LockInv'
  BY <1>5 DEF CompareMtime
<1>6. ASSUME NEW p \in Procs, InitCacheSchema(p) PROVE LockInv'
  BY <1>6 DEF InitCacheSchema
<1>7. ASSUME NEW p \in Procs, UpgradeRefused(p) PROVE LockInv'
  BY <1>7 DEF UpgradeRefused
<1>8. ASSUME NEW p \in Procs, ImportRows(p) PROVE LockInv'
  BY <1>8 DEF ImportRows
<1>9. ASSUME NEW p \in Procs, RecordMetadata(p) PROVE LockInv'
  BY <1>9 DEF RecordMetadata
<1>10. ASSUME NEW p \in Procs, Commit(p) PROVE LockInv'
  BY <1>10 DEF Commit
<1>11. ASSUME NEW p \in Procs, Connect(p) PROVE LockInv'
  BY <1>11 DEF Connect
<1>12. ASSUME NEW p \in Procs, LookupRow(p) PROVE LockInv'
  BY <1>12 DEF LookupRow
<1>13. ASSUME NEW p \in Procs, LookupFails(p) PROVE LockInv'
  BY <1>13 DEF LookupFails
<1>14. ASSUME NEW p \in Procs, Error(p) PROVE LockInv'
  BY <1>14 DEF Error
<1>15. ASSUME NEW p \in Procs, Kill(p) PROVE LockInv'
  BY <1>15 DEF Kill
<1>16. CASE Replace
  BY <1>16 DEF Replace
<1>17. CASE Remove
  BY <1>17 DEF Remove
<1>18. CASE Tick
  BY <1>18 DEF Tick
<1>19. CASE UNCHANGED vars
  BY <1>19 DEF vars
<1> QED
  BY <1>1, <1>2, <1>3, <1>4, <1>5, <1>6, <1>7, <1>8, <1>9, <1>10, <1>11, <1>12, <1>13, <1>14, <1>15, <1>16, <1>17, <1>18, <1>19 DEF Next, Step

\* Time only advances.
LEMMA SourceNext == TypeOK /\ SourceInv /\ [Next]_vars => SourceInv'
<1> SUFFICES ASSUME TypeOK, SourceInv, [Next]_vars PROVE SourceInv'
  OBVIOUS
<1> USE ConstantsAssumption DEF TypeOK, SourceInv, Versions, Fail, source, tables, bounds
<1>1. ASSUME NEW p \in Procs, Query(p) PROVE SourceInv'
  BY <1>1 DEF Query
<1>2. ASSUME NEW p \in Procs, SourceExists(p) PROVE SourceInv'
  BY <1>2 DEF SourceExists
<1>3. ASSUME NEW p \in Procs, CacheHasEntries(p) PROVE SourceInv'
  BY <1>3 DEF CacheHasEntries
<1>4. ASSUME NEW p \in Procs, ReadMetadata(p) PROVE SourceInv'
  BY <1>4 DEF ReadMetadata
<1>5. ASSUME NEW p \in Procs, CompareMtime(p) PROVE SourceInv'
  BY <1>5 DEF CompareMtime
<1>6. ASSUME NEW p \in Procs, InitCacheSchema(p) PROVE SourceInv'
  BY <1>6 DEF InitCacheSchema
<1>7. ASSUME NEW p \in Procs, UpgradeRefused(p) PROVE SourceInv'
  BY <1>7 DEF UpgradeRefused
<1>8. ASSUME NEW p \in Procs, ImportRows(p) PROVE SourceInv'
  BY <1>8 DEF ImportRows
<1>9. ASSUME NEW p \in Procs, RecordMetadata(p) PROVE SourceInv'
  BY <1>9 DEF RecordMetadata
<1>10. ASSUME NEW p \in Procs, Commit(p) PROVE SourceInv'
  BY <1>10 DEF Commit
<1>11. ASSUME NEW p \in Procs, Connect(p) PROVE SourceInv'
  BY <1>11 DEF Connect
<1>12. ASSUME NEW p \in Procs, LookupRow(p) PROVE SourceInv'
  BY <1>12 DEF LookupRow
<1>13. ASSUME NEW p \in Procs, LookupFails(p) PROVE SourceInv'
  BY <1>13 DEF LookupFails
<1>14. ASSUME NEW p \in Procs, Error(p) PROVE SourceInv'
  BY <1>14 DEF Error
<1>15. ASSUME NEW p \in Procs, Kill(p) PROVE SourceInv'
  BY <1>15 DEF Kill
<1>16. CASE Replace
  <2>1. \A v \in Versions : v <= version' => v <= version \/ v = version + 1
    BY <1>16, ReplaceIs
  <2>2. mtime'[version + 1] \in 1..now
    <3>1. PICK time \in {now} \cup {mtime[v] : v \in 1..version} : mtime'[version + 1] = time
      BY <1>16, ReplaceIs
    <3>2. ASSUME NEW v \in 1..version PROVE mtime[v] \in 1..now
      BY <3>2
    <3>3. now \in 1..now
      OBVIOUS
    <3> QED
      BY <3>1, <3>2, <3>3
  <2> QED
    BY <1>16, <2>1, <2>2, ReplaceIs
<1>17. CASE Remove
  BY <1>17 DEF Remove
<1>18. CASE Tick
  BY <1>18 DEF Tick
<1>19. CASE UNCHANGED vars
  BY <1>19 DEF vars
<1> QED
  BY <1>1, <1>2, <1>3, <1>4, <1>5, <1>6, <1>7, <1>8, <1>9, <1>10, <1>11, <1>12, <1>13, <1>14, <1>15, <1>16, <1>17, <1>18, <1>19 DEF Next, Step

\* A step that neither commits, nor goes on in a transaction, nor writes the
\* listfile: whoever is in a transaction is where it was, with the same draft.
Quiet ==
    /\ UNCHANGED <<db, version, mtime, disturbed>>
    /\ \A q \in Procs : pc'[q] \in {"stat", "commit"} => pc'[q] = pc[q] /\ draft' = draft

\* A failing process is quiet.
LEMMA FailIsQuiet ==
  ASSUME TypeOK, LockInv, NEW p \in Procs, Fail(p), UNCHANGED <<source, db>>
  PROVE  Quiet
BY FailKeeps DEF Quiet, source, TypeOK

\* Moving a process out of, or not into, what follows the import is quiet.
LEMMA MoveIsQuiet ==
  ASSUME TypeOK, NEW p \in Procs, NEW point, Goto(p, point), point \notin {"stat", "commit"},
         UNCHANGED <<source, db, draft>>
  PROVE  Quiet
BY DEF Quiet, source, TypeOK, Goto

\* Every step of an open up to its transaction, and every query, is quiet.
LEMMA OpenIsQuiet ==
  ASSUME TypeOK, LockInv, NEW p \in Procs,
         \/ Query(p) \/ SourceExists(p) \/ CacheHasEntries(p) \/ ReadMetadata(p) \/ CompareMtime(p)
         \/ Connect(p) \/ LookupRow(p)
  PROVE  Quiet
<1>1. CASE Query(p)
  BY <1>1, MoveIsQuiet DEF Query, tables
<1>2. CASE SourceExists(p)
  BY <1>2, MoveIsQuiet DEF SourceExists, tables
<1>3. CASE CacheHasEntries(p)
  <2>1. CASE Goto(p, "connect") /\ UNCHANGED <<source, db, draft>>
    BY <2>1, MoveIsQuiet
  <2>2. CASE Fail(p) /\ UNCHANGED <<source, db>>
    BY <2>2, FailIsQuiet
  <2> QED
    BY <1>3, <2>1, <2>2 DEF CacheHasEntries
<1>4. CASE ReadMetadata(p)
  BY <1>4, MoveIsQuiet DEF ReadMetadata
<1>5. CASE CompareMtime(p)
  <2>1. CASE exists
    BY <1>5, <2>1, MoveIsQuiet DEF CompareMtime
  <2>2. CASE ~exists
    BY <1>5, <2>2, FailIsQuiet DEF CompareMtime
  <2> QED
    BY <2>1, <2>2
<1>6. CASE Connect(p)
  BY <1>6, MoveIsQuiet DEF Connect, tables
<1>7. CASE LookupRow(p)
  BY <1>7, MoveIsQuiet DEF LookupRow, tables
<1> QED
  BY <1>1, <1>2, <1>3, <1>4, <1>5, <1>6, <1>7

\* Nobody is in a transaction when one begins.
LEMMA BeginIsQuiet ==
  ASSUME TypeOK, LockInv, NEW p \in Procs, InitCacheSchema(p)
  PROVE  Quiet
<1>1. \A q \in Procs : pc[q] \notin Building
  BY DEF LockInv, InitCacheSchema
<1>2. \A q \in Procs : pc'[q] \notin {"stat", "commit"}
  BY <1>1 DEF InitCacheSchema, Goto, Building, TypeOK
<1> QED
  BY <1>2 DEF InitCacheSchema, Quiet, source

\* What ends an open, or a process, is quiet.
LEMMA EndIsQuiet ==
  ASSUME TypeOK, LockInv, NEW p \in Procs,
         \/ UpgradeRefused(p) \/ LookupFails(p) \/ Error(p) \/ Kill(p)
         \/ ~exists /\ (ImportRows(p) \/ RecordMetadata(p))
  PROVE  Quiet
<1>1. CASE Fail(p) /\ UNCHANGED <<source, db>>
  BY <1>1, FailIsQuiet
<1>2. CASE Kill(p)
  <2>1. /\ pc' = [pc EXCEPT ![p] = "idle"] /\ UNCHANGED <<source, db>>
        /\ draft' = IF p \in lock THEN NoTables ELSE draft
    BY <1>2 DEF Kill, Goto, EndTransaction
  <2>2. ASSUME NEW q \in Procs, pc'[q] \in {"stat", "commit"}
        PROVE  pc'[q] = pc[q] /\ draft' = draft
    <3>1. q # p /\ pc'[q] = pc[q]
      BY <2>1, <2>2 DEF TypeOK
    <3>2. lock = {q}
      BY <2>2, <3>1 DEF LockInv, Building
    <3> QED
      BY <2>1, <3>1, <3>2
  <2> QED
    BY <2>1, <2>2 DEF Quiet, source
<1> QED
  BY <1>1, <1>2 DEF UpgradeRefused, LookupFails, Error, ImportRows, RecordMetadata

\* A listfile that is there has a version.
LEMMA SourceHasVersion == TypeOK /\ exists => version \in Versions
BY ConstantsAssumption DEF TypeOK, Versions

\* The import reads the listfile that is there, under the lock.
LEMMA ImportIs ==
  ASSUME TypeOK, LockInv, NEW p \in Procs, ImportRows(p), exists
  PROVE  /\ pc[p] = "import" /\ pc' = [pc EXCEPT ![p] = "stat"]
         /\ draft'.entries = version /\ version \in Versions
         /\ UNCHANGED <<db, source, seen, cached, asked>>
         /\ \A q \in Procs : pc'[q] \in {"stat", "commit"} => q = p /\ pc'[q] = "stat"
<1>1. /\ pc[p] = "import" /\ pc' = [pc EXCEPT ![p] = "stat"]
      /\ draft' = [draft EXCEPT !.entries = version]
      /\ UNCHANGED <<db, source, seen, cached, asked>>
  BY DEF ImportRows, Goto
<1>2. draft'.entries = version
  BY <1>1 DEF TypeOK, Tables
<1>3. ASSUME NEW q \in Procs, pc'[q] \in {"stat", "commit"}
      PROVE  q = p /\ pc'[q] = "stat"
  <2>1. CASE q # p
    BY <1>1, <1>3, <2>1, OneBuilder DEF Building, TypeOK
  <2>2. CASE q = p
    BY <1>1, <2>2 DEF TypeOK
  <2> QED
    BY <2>1, <2>2
<1> QED
  BY <1>1, <1>2, <1>3, SourceHasVersion

\* The metadata is the time of the listfile that is there then.
LEMMA RecordIs ==
  ASSUME TypeOK, LockInv, NEW p \in Procs, RecordMetadata(p), exists
  PROVE  /\ pc[p] = "stat" /\ pc' = [pc EXCEPT ![p] = "commit"]
         /\ draft'.entries = draft.entries /\ draft'.source_mtime = mtime[version]
         /\ version \in Versions
         /\ UNCHANGED <<db, source, seen, cached, asked>>
         /\ \A q \in Procs : pc'[q] \in {"stat", "commit"} => q = p /\ pc'[q] = "commit"
<1>1. /\ pc[p] = "stat" /\ pc' = [pc EXCEPT ![p] = "commit"]
      /\ draft' = [draft EXCEPT !.source_mtime = mtime[version]]
      /\ UNCHANGED <<db, source, seen, cached, asked>>
  BY DEF RecordMetadata, Goto
<1>2. draft'.entries = draft.entries /\ draft'.source_mtime = mtime[version]
  BY <1>1 DEF TypeOK, Tables
<1>3. ASSUME NEW q \in Procs, pc'[q] \in {"stat", "commit"}
      PROVE  q = p /\ pc'[q] = "commit"
  <2>1. CASE q # p
    BY <1>1, <1>3, <2>1, OneBuilder DEF Building, TypeOK
  <2>2. CASE q = p
    BY <1>1, <2>2 DEF TypeOK
  <2> QED
    BY <2>1, <2>2
<1> QED
  BY <1>1, <1>2, <1>3, SourceHasVersion

\* A commit makes the draft the tables, and nobody is in a transaction.
LEMMA CommitIs ==
  ASSUME TypeOK, LockInv, NEW p \in Procs, Commit(p)
  PROVE  /\ pc[p] = "commit" /\ pc' = [pc EXCEPT ![p] = "connect"] /\ db' = draft
         /\ UNCHANGED <<source, seen, cached, asked>>
         /\ \A q \in Procs : pc'[q] \notin {"stat", "commit"}
<1>1. /\ pc[p] = "commit" /\ pc' = [pc EXCEPT ![p] = "connect"] /\ db' = draft
      /\ UNCHANGED <<source, seen, cached, asked>>
  BY DEF Commit, Goto
<1>2. ASSUME NEW q \in Procs PROVE pc'[q] \notin {"stat", "commit"}
  <2>1. CASE q # p
    BY <1>1, <2>1, OneBuilder DEF Building, TypeOK
  <2>2. CASE q = p
    BY <1>1, <2>2 DEF TypeOK
  <2> QED
    BY <2>1, <2>2
<1> QED
  BY <1>1, <1>2

\* The steps that are not quiet.
LEMMA StepsAre ==
  ASSUME TypeOK, LockInv, [Next]_vars
  PROVE  \/ Quiet
         \/ \E p \in Procs : exists /\ ImportRows(p)
         \/ \E p \in Procs : exists /\ RecordMetadata(p)
         \/ \E p \in Procs : Commit(p)
         \/ Replace
<1>1. CASE UNCHANGED vars
  BY <1>1 DEF vars, source, tables, Quiet
<1>2. CASE Remove \/ Tick
  BY <1>2 DEF Remove, Tick, tables, Quiet
<1>3. ASSUME NEW p \in Procs, Query(p) \/ Step(p) \/ Error(p) \/ Kill(p)
      PROVE  \/ Quiet
             \/ exists /\ ImportRows(p)
             \/ exists /\ RecordMetadata(p)
             \/ Commit(p)
  BY <1>3, OpenIsQuiet, BeginIsQuiet, EndIsQuiet DEF Step
<1> QED
  BY <1>1, <1>2, <1>3 DEF Next

\* The listfile is read under the lock, so no import is older than what is committed.
LEMMA TablesNext == TypeOK /\ LockInv /\ SourceInv /\ TablesInv /\ [Next]_vars => TablesInv'
<1> SUFFICES ASSUME TypeOK, LockInv, SourceInv, TablesInv, [Next]_vars PROVE TablesInv'
  OBVIOUS
<1>0. version \in Nat /\ db.entries \in Nat /\ db.source_mtime \in Nat
  BY ConstantsAssumption DEF TypeOK, Tables
<1>1. CASE Quiet
  BY <1>1 DEF Quiet, TablesInv
<1>2. ASSUME NEW p \in Procs, exists, ImportRows(p) PROVE TablesInv'
  <2>1. UNCHANGED <<db, version>>
    BY <1>2, ImportIs DEF source
  <2> QED
    BY <1>0, <1>2, <2>1, ImportIs DEF TablesInv
<1>3. ASSUME NEW p \in Procs, exists, RecordMetadata(p) PROVE TablesInv'
  <2>1. UNCHANGED <<db, version>>
    BY <1>3, RecordIs DEF source
  <2>2. mtime[version] # 0
    BY <1>0, <1>3, RecordIs DEF SourceInv, TypeOK
  <2> QED
    BY <1>0, <1>3, <2>1, <2>2, RecordIs DEF TablesInv
<1>4. ASSUME NEW p \in Procs, Commit(p) PROVE TablesInv'
  <2>1. UNCHANGED version /\ db' = draft /\ pc[p] = "commit"
    BY <1>4, CommitIs DEF source
  <2>2. draft.entries \in Versions /\ draft.entries <= version /\ draft.source_mtime # 0
    BY <2>1 DEF TablesInv
  <2>3. draft.entries # 0
    BY <2>2, ConstantsAssumption DEF Versions
  <2> QED
    BY <1>4, <2>1, <2>2, <2>3, CommitIs DEF TablesInv
<1>5. CASE Replace
  <2>1. \A q \in Procs : pc[q] \in {"stat", "commit"} => draft.entries \in Nat
    BY ReplaceIs, <1>5 DEF TablesInv
  <2> QED
    BY <1>0, <1>5, <2>1, ReplaceIs DEF TablesInv
<1> QED
  BY <1>1, <1>2, <1>3, <1>4, <1>5, StepsAre

\* Undisturbed, the time that is recorded is that of the version imported.
LEMMA StampNext == TypeOK /\ LockInv /\ SourceInv /\ TablesInv /\ StampInv /\ [Next]_vars => StampInv'
<1> SUFFICES ASSUME TypeOK, LockInv, SourceInv, TablesInv, StampInv, [Next]_vars, ~disturbed'
             PROVE  /\ \A v, w \in Versions : v < w /\ w <= version' => mtime'[v] < mtime'[w]
                    /\ db'.entries # 0 => db'.source_mtime = mtime'[db'.entries]
                    /\ \A q \in Procs : pc'[q] = "stat" => draft'.entries = version'
                    /\ \A q \in Procs : pc'[q] = "commit" => draft'.source_mtime = mtime'[draft'.entries]
  BY DEF StampInv
<1>1. CASE Quiet
  BY <1>1 DEF Quiet, StampInv
<1>2. ASSUME NEW p \in Procs, exists, ImportRows(p)
      PROVE  /\ UNCHANGED <<db, version, mtime, disturbed>>
             /\ \A q \in Procs : pc'[q] = "stat" => draft'.entries = version
             /\ \A q \in Procs : pc'[q] # "commit"
  BY <1>2, ImportIs DEF source
<1>3. ASSUME NEW p \in Procs, exists, RecordMetadata(p)
      PROVE  /\ UNCHANGED <<db, version, mtime, disturbed>>
             /\ \A q \in Procs : pc'[q] # "stat"
             /\ draft'.source_mtime = mtime[draft'.entries]
  <2>1. UNCHANGED <<db, version, mtime, disturbed>>
    BY <1>3, RecordIs DEF source
  <2>2. draft.entries = version
    BY <1>3, <2>1, RecordIs DEF StampInv
  <2> QED
    BY <1>3, <2>1, <2>2, RecordIs
<1>4. ASSUME NEW p \in Procs, Commit(p)
      PROVE  /\ UNCHANGED <<version, mtime, disturbed>> /\ db' = draft
             /\ \A q \in Procs : pc'[q] \notin {"stat", "commit"}
             /\ draft.source_mtime = mtime[draft.entries]
  <2>1. UNCHANGED <<version, mtime, disturbed>> /\ db' = draft /\ pc[p] = "commit"
    BY <1>4, CommitIs DEF source
  <2>2. draft.source_mtime = mtime[draft.entries]
    BY <2>1 DEF StampInv
  <2> QED
    BY <1>4, <2>1, <2>2, CommitIs
<1>5. CASE Replace
  <2>1. /\ ~disturbed /\ \A q \in Procs : pc[q] # "stat"
        /\ mtime'[version + 1] = now
        /\ \A v \in Versions : v <= version => mtime[v] # now
    BY <1>5, ReplaceIs
  <2>2. now \in Nat
    BY ConstantsAssumption DEF TypeOK
  <2>3. ASSUME NEW v \in Versions, v <= version PROVE mtime[v] < now
    BY <1>5, <2>1, <2>2, <2>3, ReplaceIs DEF SourceInv
  <2>4. ASSUME NEW v \in Versions, NEW w \in Versions, v < w, w <= version'
        PROVE  mtime'[v] < mtime'[w]
    <3>1. v <= version /\ v # version + 1
      BY <1>5, <2>4, ReplaceIs
    <3>2. CASE w = version + 1
      BY <1>5, <2>1, <2>3, <3>1, <3>2, ReplaceIs
    <3>3. CASE w # version + 1
      BY <1>5, <2>1, <2>4, <3>1, <3>3, ReplaceIs DEF StampInv
    <3> QED
      BY <3>2, <3>3
  <2>5. db.entries # 0 => db.entries \in Versions /\ db.entries # version + 1
    BY <1>5, ReplaceIs, ConstantsAssumption DEF TablesInv, TypeOK, Tables, Versions
  <2>6. \A q \in Procs : pc[q] = "commit" => draft.entries \in Versions /\ draft.entries # version + 1
    BY <1>5, ReplaceIs DEF TablesInv
  <2> QED
    BY <1>5, <2>1, <2>4, <2>5, <2>6, ReplaceIs DEF StampInv
<1> QED
  BY <1>1, <1>2, <1>3, <1>4, <1>5, StepsAre DEF StampInv

\* The listfile and the tables only advance.
Onward ==
    /\ version <= version' /\ db.entries <= db'.entries
    /\ \A v \in Versions : v <= version => mtime'[v] = mtime[v]
    /\ disturbed => disturbed'

\* No step takes either back.
LEMMA StepIsOnward ==
  ASSUME TypeOK, LockInv, TablesInv, [Next]_vars
  PROVE  Onward
<1>0. version \in Nat /\ db.entries \in Nat
  BY ConstantsAssumption DEF TypeOK, Tables
<1>1. CASE Quiet
  BY <1>0, <1>1 DEF Quiet, Onward
<1>2. ASSUME NEW p \in Procs, exists, ImportRows(p) PROVE Onward
  <2>1. UNCHANGED <<db, version, mtime, disturbed>>
    BY <1>2, ImportIs DEF source
  <2> QED
    BY <1>0, <2>1 DEF Onward
<1>3. ASSUME NEW p \in Procs, exists, RecordMetadata(p) PROVE Onward
  <2>1. UNCHANGED <<db, version, mtime, disturbed>>
    BY <1>3, RecordIs DEF source
  <2> QED
    BY <1>0, <2>1 DEF Onward
<1>4. ASSUME NEW p \in Procs, Commit(p) PROVE Onward
  <2>1. db.entries <= draft.entries
    BY <1>4, CommitIs DEF TablesInv
  <2> QED
    BY <1>0, <1>4, <2>1, CommitIs DEF source, Onward
<1>5. CASE Replace
  <2>1. disturbed => disturbed'
    BY <1>5 DEF Replace, TypeOK
  <2> QED
    BY <1>0, <1>5, <2>1, ReplaceIs DEF Onward
<1> QED
  BY <1>1, <1>2, <1>3, <1>4, <1>5, StepsAre

\* What is compared are numbers.
LEMMA Numbers ==
  ASSUME TypeOK
  PROVE  /\ version \in Nat /\ db.entries \in Nat /\ draft.entries \in Nat
         /\ \A p \in Procs : asked[p] \in Nat
         /\ Versions \subseteq Nat /\ 0 \notin Versions
BY ConstantsAssumption DEF TypeOK, Tables, Versions

\* What a process relies on survives every step of the others.
LEMMA StaysOpen ==
  ASSUME IInv, TypeOK', [Next]_vars, NEW p \in Procs,
         pc'[p] = pc[p], asked'[p] = asked[p], seen'[p] = seen[p], cached'[p] = cached[p],
         pc[p] \in {"stat", "commit"} => draft' = draft
  PROVE  OpenAt(p)'
<1>0. /\ version \in Nat /\ db.entries \in Nat /\ asked[p] \in Nat /\ Versions \subseteq Nat
      /\ version' \in Nat /\ db'.entries \in Nat
  BY ConstantsAssumption DEF IInv, TypeOK, Tables, Versions
<1>1. Onward
  BY StepIsOnward DEF IInv
<1>2. OpenAt(p)
  BY DEF IInv, OpenInv
<1>3. asked'[p] <= version'
  BY <1>0, <1>1, <1>2 DEF Onward, OpenAt
<1>4. pc'[p] = "compare" =>
        /\ db'.entries # 0
        /\ ~disturbed' => \E v \in Versions : v <= db'.entries /\ seen'[p] = mtime'[v]
  <2> SUFFICES ASSUME pc'[p] = "compare"
               PROVE  /\ db'.entries # 0
                      /\ ~disturbed' => \E v \in Versions : v <= db'.entries /\ seen'[p] = mtime'[v]
    OBVIOUS
  <2>1. db.entries # 0 /\ db.entries <= version
    BY <1>2 DEF IInv, OpenAt, TablesInv
  <2>2. db'.entries # 0
    BY <1>0, <1>1, <2>1 DEF Onward
  <2>3. ASSUME ~disturbed' PROVE \E v \in Versions : v <= db'.entries /\ seen'[p] = mtime'[v]
    <3>1. PICK v \in Versions : v <= db.entries /\ seen[p] = mtime[v]
      BY <1>1, <1>2, <2>3 DEF Onward, OpenAt
    <3>2. v <= version /\ v <= db'.entries
      BY <1>0, <1>1, <2>1, <3>1 DEF Onward
    <3> QED
      BY <1>1, <3>1, <3>2 DEF Onward
  <2> QED
    BY <2>2, <2>3
<1>5. pc'[p] \in {"stat", "commit"} => asked'[p] <= draft'.entries
  BY <1>2 DEF OpenAt
<1>6. pc'[p] \in {"connect", "lookup"} \/ cached'[p] =>
        db'.entries # 0 /\ (disturbed' \/ asked'[p] <= db'.entries)
  BY <1>0, <1>1, <1>2 DEF Onward, OpenAt
<1> QED
  BY <1>2, <1>3, <1>4, <1>5, <1>6 DEF OpenAt

\* A process that is idle, done, or about to rebuild relies on nothing.
LEMMA OpenElsewhere ==
  ASSUME TypeOK, TypeOK', LockInv, NEW p \in Procs, UNCHANGED version,
         asked[p] <= version, asked'[p] \in {asked[p], 0},
         pc'[p] \in {"idle", "done", "begin", "exists", "metadata", "import"}, ~cached'[p]
  PROVE  OpenAt(p)'
BY Numbers DEF OpenAt

\* A failing process has its connection still, and else relies on nothing.
LEMMA FailedIsOpen ==
  ASSUME IInv, TypeOK', NEW p \in Procs, Fail(p), UNCHANGED <<db, version, disturbed, asked, cached>>
  PROVE  OpenAt(p)'
<1>1. pc'[p] = "done"
  BY FailKeeps DEF IInv
<1>2. OpenAt(p)
  BY DEF IInv, OpenInv
<1> QED
  BY <1>1, <1>2 DEF OpenAt

\* A step of a process leaves it what it relies on.
LEMMA StepIsOpen ==
  ASSUME IInv, TypeOK', NEW p \in Procs, Query(p) \/ Step(p) \/ Error(p) \/ Kill(p)
  PROVE  OpenAt(p)'
<1>0. /\ TypeOK /\ LockInv /\ SourceInv /\ TablesInv /\ StampInv /\ OpenAt(p) /\ asked[p] <= version
      /\ pc \in [Procs -> Points] /\ asked \in [Procs -> 0..LastVersion]
      /\ seen \in [Procs -> 0..LastSecond] /\ cached \in [Procs -> BOOLEAN]
  BY DEF IInv, OpenInv, OpenAt, TypeOK
<1>1. CASE Query(p)
  <2>1. /\ pc'[p] = IF cached[p] THEN "lookup" ELSE "exists"
        /\ UNCHANGED <<db, version, disturbed, asked, cached>>
    BY <1>0, <1>1 DEF Query, Goto, source, tables
  <2> QED
    BY <1>0, <2>1 DEF OpenAt
<1>2. CASE SourceExists(p)
  <2>1. /\ pc[p] = "exists" /\ pc'[p] = IF exists THEN "metadata" ELSE "entries"
        /\ asked'[p] = IF exists THEN version ELSE 0
        /\ UNCHANGED <<version, cached>>
    BY <1>0, <1>2 DEF SourceExists, Goto, source, tables
  <2>2. ~cached[p]
    BY <1>0, <2>1 DEF LockInv, Opening
  <2> QED
    BY <1>0, <2>1, <2>2, Numbers DEF OpenAt
<1>3. CASE CacheHasEntries(p)
  <2>1. CASE db.entries # 0
    <3>1. pc[p] = "entries" /\ pc'[p] = "connect" /\ UNCHANGED <<db, version, disturbed, asked, cached>>
      BY <1>0, <1>3, <2>1 DEF CacheHasEntries, Goto, source
    <3> QED
      BY <1>0, <2>1, <3>1, Numbers DEF OpenAt
  <2>2. CASE db.entries = 0
    BY <1>3, <2>2, FailedIsOpen DEF CacheHasEntries, source
  <2> QED
    BY <2>1, <2>2
<1>4. CASE ReadMetadata(p)
  <2>1. /\ pc[p] = "metadata" /\ pc'[p] = IF db.source_mtime = 0 THEN "begin" ELSE "compare"
        /\ seen'[p] = db.source_mtime
        /\ UNCHANGED <<db, version, mtime, disturbed, asked, cached>>
    BY <1>0, <1>4 DEF ReadMetadata, Goto, source
  <2>2. ~cached[p]
    BY <1>0, <2>1 DEF LockInv, Opening
  <2>3. ASSUME db.source_mtime # 0
        PROVE  /\ db.entries \in Versions /\ db.entries <= db.entries
               /\ ~disturbed => db.source_mtime = mtime[db.entries]
    <3>1. db.entries # 0
      BY <1>0, <2>3 DEF TablesInv
    <3>2. db.entries \in 0..LastVersion
      BY <1>0 DEF TypeOK, Tables
    <3>3. db.entries \in Versions /\ db.entries <= db.entries
      BY <3>1, <3>2, ConstantsAssumption DEF Versions
    <3> QED
      BY <1>0, <3>1, <3>3 DEF StampInv
  <2>4. CASE db.source_mtime = 0
    BY <1>0, <2>1, <2>2, <2>4, OpenElsewhere
  <2>5. CASE db.source_mtime # 0
    <3>1. pc'[p] = "compare" /\ ~cached'[p] /\ db'.entries # 0 /\ asked'[p] <= version'
      BY <1>0, <2>1, <2>2, <2>5 DEF TablesInv
    <3>2. ~disturbed' => db.entries \in Versions /\ db.entries <= db'.entries
                         /\ seen'[p] = mtime'[db.entries]
      BY <2>1, <2>3, <2>5
    <3> QED
      BY <3>1, <3>2 DEF OpenAt
  <2> QED
    BY <2>4, <2>5
<1>5. CASE CompareMtime(p)
  <2>1. CASE ~exists
    BY <1>5, <2>1, FailedIsOpen DEF CompareMtime, source
  <2>2. CASE exists
    <3>1. /\ pc[p] = "compare" /\ pc'[p] = IF seen[p] = mtime[version] THEN "connect" ELSE "begin"
          /\ UNCHANGED <<db, version, mtime, disturbed, asked, cached>>
      BY <1>0, <1>5, <2>2 DEF CompareMtime, Goto, source
    <3>2. ~cached[p] /\ db.entries # 0
      BY <1>0, <3>1 DEF LockInv, Opening, OpenAt
    <3>3. ASSUME ~disturbed, seen[p] = mtime[version]
          PROVE  asked[p] <= db.entries
      <4>1. PICK v \in Versions : v <= db.entries /\ seen[p] = mtime[v]
        BY <1>0, <3>1, <3>3 DEF OpenAt
      <4>2. version \in Versions /\ v <= version
        BY <1>0, <2>2, <4>1, SourceHasVersion, Numbers DEF TablesInv
      <4>3. ~(v < version)
        <5> SUFFICES ASSUME v < version PROVE FALSE
          OBVIOUS
        <5>1. mtime[v] < mtime[version]
          BY <1>0, <3>3, <4>2, Numbers DEF StampInv
        <5>2. mtime[version] \in Nat
          BY <1>0, <4>2, ConstantsAssumption DEF TypeOK
        <5> QED
          BY <3>3, <4>1, <5>1, <5>2
      <4> QED
        BY <1>0, <4>1, <4>2, <4>3, Numbers
    <3> QED
      BY <1>0, <3>1, <3>2, <3>3 DEF OpenAt
  <2> QED
    BY <2>1, <2>2
<1>6. CASE InitCacheSchema(p)
  <2>1. pc[p] = "begin" /\ pc'[p] = "import" /\ UNCHANGED <<version, asked, cached>>
    BY <1>0, <1>6 DEF InitCacheSchema, Goto, source
  <2>2. ~cached[p]
    BY <1>0, <2>1 DEF LockInv, Opening
  <2> QED
    BY <1>0, <2>1, <2>2, OpenElsewhere
<1>7. CASE UpgradeRefused(p) \/ LookupFails(p) \/ Error(p)
  BY <1>7, FailedIsOpen DEF UpgradeRefused, LookupFails, Error, source
<1>8. CASE ImportRows(p)
  <2>1. CASE exists
    <3>1. pc'[p] = "stat" /\ pc[p] = "import" /\ ~cached[p]
      BY <1>0, <1>8, <2>1, ImportIs DEF LockInv, Opening, Building
    <3> QED
      BY <1>0, <1>8, <2>1, <3>1, ImportIs DEF OpenAt, source
  <2>2. CASE ~exists
    BY <1>8, <2>2, FailedIsOpen DEF ImportRows, source
  <2> QED
    BY <2>1, <2>2
<1>9. CASE RecordMetadata(p)
  <2>1. CASE exists
    <3>1. pc'[p] = "commit" /\ pc[p] = "stat" /\ ~cached[p]
      BY <1>0, <1>9, <2>1, RecordIs DEF LockInv, Opening, Building
    <3> QED
      BY <1>0, <1>9, <2>1, <3>1, RecordIs DEF OpenAt, source
  <2>2. CASE ~exists
    BY <1>9, <2>2, FailedIsOpen DEF RecordMetadata, source
  <2> QED
    BY <2>1, <2>2
<1>10. CASE Commit(p)
  <2>1. pc'[p] = "connect" /\ pc[p] = "commit" /\ UNCHANGED <<version, asked, disturbed>> /\ db' = draft
    BY <1>0, <1>10, CommitIs DEF source
  <2>2. draft.entries # 0 /\ asked[p] <= draft.entries
    BY <1>0, <2>1, Numbers DEF TablesInv, OpenAt
  <2> QED
    BY <1>0, <2>1, <2>2 DEF OpenAt
<1>11. CASE Connect(p)
  <2>1. pc[p] = "connect" /\ pc'[p] = "lookup" /\ UNCHANGED <<db, version, disturbed, asked>>
    BY <1>0, <1>11 DEF Connect, Goto, source, tables
  <2> QED
    BY <1>0, <2>1 DEF OpenAt
<1>12. CASE LookupRow(p)
  <2>1. pc[p] = "lookup" /\ pc'[p] = "done" /\ UNCHANGED <<db, version, disturbed, asked>>
    BY <1>0, <1>12 DEF LookupRow, Goto, source, tables
  <2> QED
    BY <1>0, <2>1 DEF OpenAt
<1>13. CASE Kill(p)
  <2>1. pc'[p] = "idle" /\ ~cached'[p] /\ asked'[p] = 0 /\ UNCHANGED version
    BY <1>0, <1>13 DEF Kill, Goto, source
  <2> QED
    BY <1>0, <2>1, OpenElsewhere
<1> QED
  BY <1>1, <1>2, <1>3, <1>4, <1>5, <1>6, <1>7, <1>8, <1>9, <1>10, <1>11, <1>12, <1>13 DEF Step

\* A step of one process leaves the others where they are.
LEMMA OthersStay ==
  ASSUME TypeOK, NEW p \in Procs, Query(p) \/ Step(p) \/ Error(p) \/ Kill(p),
         NEW q \in Procs, q # p
  PROVE  pc'[q] = pc[q] /\ asked'[q] = asked[q] /\ seen'[q] = seen[q] /\ cached'[q] = cached[q]
<1> USE DEF TypeOK, Goto, Fail, EndTransaction
<1>1. CASE Query(p) \/ SourceExists(p) \/ CacheHasEntries(p)
  BY <1>1 DEF Query, SourceExists, CacheHasEntries
<1>2. CASE ReadMetadata(p) \/ CompareMtime(p)
  BY <1>2 DEF ReadMetadata, CompareMtime
<1>3. CASE InitCacheSchema(p) \/ UpgradeRefused(p)
  BY <1>3 DEF InitCacheSchema, UpgradeRefused
<1>4. CASE ImportRows(p) \/ RecordMetadata(p) \/ Commit(p)
  BY <1>4 DEF ImportRows, RecordMetadata, Commit
<1>5. CASE Connect(p) \/ LookupRow(p) \/ LookupFails(p)
  BY <1>5 DEF Connect, LookupRow, LookupFails
<1>6. CASE Error(p) \/ Kill(p)
  BY <1>6 DEF Error, Kill
<1> QED
  BY <1>1, <1>2, <1>3, <1>4, <1>5, <1>6 DEF Step

\* What an open relies on survives the rebuilds of others.
LEMMA OpenNext == IInv /\ [Next]_vars => OpenInv'
<1> SUFFICES ASSUME IInv, [Next]_vars, NEW q \in Procs PROVE OpenAt(q)'
  BY DEF OpenInv
<1>0. TypeOK /\ LockInv /\ TypeOK'
  BY TypeNext DEF IInv
<1>1. ASSUME NEW p \in Procs, Query(p) \/ Step(p) \/ Error(p) \/ Kill(p) PROVE OpenAt(q)'
  <2>1. CASE p = q
    BY <1>0, <1>1, <2>1, StepIsOpen
  <2>2. CASE p # q
    <3>1. pc'[q] = pc[q] /\ asked'[q] = asked[q] /\ seen'[q] = seen[q] /\ cached'[q] = cached[q]
      BY <1>0, <1>1, <2>2, OthersStay
    <3>2. pc[q] \in {"stat", "commit"} => draft' = draft
      <4>1. CASE Quiet
        BY <3>1, <4>1 DEF Quiet
      <4>2. CASE ~Quiet
        <5>1. PICK r \in Procs : (exists /\ (ImportRows(r) \/ RecordMetadata(r))) \/ Commit(r)
          BY <1>0, <1>1, <4>2, OpenIsQuiet, BeginIsQuiet, EndIsQuiet DEF Step
        <5>2. pc'[q] \in {"stat", "commit"} => q = r /\ pc'[q] # pc[q]
          BY <1>0, <5>1, ImportIs, RecordIs, CommitIs
        <5> QED
          BY <3>1, <5>2
      <4> QED
        BY <4>1, <4>2
    <3> QED
      BY <1>0, <3>1, <3>2, StaysOpen
  <2> QED
    BY <2>1, <2>2
<1>2. CASE Replace \/ Remove \/ Tick \/ UNCHANGED vars
  <2>1. UNCHANGED <<draft, pc, asked, seen, cached>>
    BY <1>2 DEF Replace, Remove, Tick, vars, tables
  <2> QED
    BY <1>0, <2>1, StaysOpen
<1> QED
  BY <1>1, <1>2 DEF Next

\* ... and every step keeps it.
LEMMA InvNext == IInv /\ [Next]_vars => IInv'
BY TypeNext, LockNext, SourceNext, TablesNext, StampNext, OpenNext DEF IInv

\* The invariant holds in all reachable states.
LEMMA Invariance == Spec => []IInv
BY InvInit, InvNext, PTL DEF Spec

-----------------------------------------------------------------------------
(* Theorems *)

\* cache_is_fresh accepts only the rows of the listfile that is there, unless a
\* replacement fell where its stat in whole seconds cannot tell.
THEOREM FreshCacheIsCurrent == Spec => []FreshIsCurrent
<1>1. IInv => FreshIsCurrent
  <2> SUFFICES ASSUME IInv, exists, db.source_mtime = mtime[version], ~disturbed
               PROVE  db.entries = version
    BY DEF FreshIsCurrent
  <2> USE DEF IInv, TypeOK, Tables, Versions
  <2>1. version \in Versions
    BY ConstantsAssumption
  <2>2. mtime[version] # 0
    BY <2>1 DEF SourceInv
  <2>3. db.entries \in Versions /\ db.entries <= version
    BY <2>2 DEF TablesInv
  <2>4. mtime[db.entries] = mtime[version]
    BY <2>3 DEF StampInv
  <2> QED
    BY <2>1, <2>3, <2>4 DEF StampInv
<1> QED
  BY <1>1, Invariance, PTL

\* Who opened the cache reads rows as new as the listfile it found.
THEOREM OpensAreCurrent == Spec => []OpenedIsCurrent
<1>1. IInv => OpenedIsCurrent
  BY DEF IInv, OpenInv, OpenAt, OpenedIsCurrent, TypeOK, Tables
<1> QED
  BY <1>1, Invariance, PTL

\* Committed rows are only replaced by rows at least as new.
THEOREM EntriesOnlyAdvance == Spec => EntriesNeverRegress
<1>1. IInv /\ [Next]_vars => [db'.entries >= db.entries]_vars
  <2> SUFFICES ASSUME IInv, [Next]_vars PROVE db'.entries >= db.entries
    OBVIOUS
  <2> USE DEF IInv, TypeOK, Tables
  <2>1. ASSUME NEW p \in Procs, Commit(p) PROVE db'.entries >= db.entries
    BY <2>1 DEF Commit, TablesInv
  <2>2. CASE UNCHANGED db
    BY <2>2
  <2>3. \/ \E p \in Procs : Commit(p)
        \/ UNCHANGED db
    BY DEF Next, Step, vars, tables, Query, SourceExists, CacheHasEntries, ReadMetadata,
           CompareMtime, InitCacheSchema, UpgradeRefused, ImportRows, RecordMetadata,
           Connect, LookupRow, LookupFails, Error, Kill, Replace, Remove, Tick
  <2> QED
    BY <2>1, <2>2, <2>3
<1> QED
  BY <1>1, Invariance, PTL DEF Spec, EntriesNeverRegress
-----------------------------------------------------------------------------
(* The table *)

\* A query looks its row up through a connection that is open.
LookupInv == \A p \in Procs : pc[p] = "lookup" => cached[p]

\* The connection stays open while a query uses it.
LEMMA LookupNext == TypeOK /\ LookupInv /\ [Next]_vars => LookupInv'
<1> SUFFICES ASSUME TypeOK, LookupInv, [Next]_vars, NEW q \in Procs, pc'[q] = "lookup"
             PROVE  cached'[q]
  BY DEF LookupInv
<1> USE DEF TypeOK, LookupInv, Goto
<1>1. ASSUME NEW p \in Procs, Query(p) \/ Step(p) \/ Error(p) \/ Kill(p)
      PROVE  cached'[q]
  <2>1. CASE q # p
    BY <1>1, <2>1, OthersStay
  <2>2. CASE q = p /\ Query(p)
    BY <2>2 DEF Query
  <2>3. CASE q = p /\ Connect(p)
    BY <2>3 DEF Connect
  <2>4. CASE q = p /\ Fail(p)
    BY <2>4 DEF Fail
  <2>5. CASE q = p /\ (SourceExists(p) \/ CacheHasEntries(p) \/ ReadMetadata(p) \/ CompareMtime(p))
    BY <2>4, <2>5 DEF SourceExists, CacheHasEntries, ReadMetadata, CompareMtime
  <2>6. CASE q = p /\ (InitCacheSchema(p) \/ UpgradeRefused(p) \/ ImportRows(p)
                       \/ RecordMetadata(p) \/ Commit(p))
    BY <2>4, <2>6 DEF InitCacheSchema, UpgradeRefused, ImportRows, RecordMetadata, Commit
  <2>7. CASE q = p /\ (LookupRow(p) \/ LookupFails(p) \/ Error(p) \/ Kill(p))
    BY <2>4, <2>7 DEF LookupRow, LookupFails, Error, Kill
  <2> QED
    BY <1>1, <2>1, <2>2, <2>3, <2>5, <2>6, <2>7 DEF Step
<1>2. CASE Replace \/ Remove \/ Tick \/ UNCHANGED vars
  BY <1>2 DEF Replace, Remove, Tick, vars
<1> QED
  BY <1>1, <1>2 DEF Next

\* A query that fails forgets its answer, and nothing else that queries see.
LEMMA FailForgets ==
  ASSUME NEW p \in Procs, Fail(p), UNCHANGED <<version, db, cached>>
  PROVE  Table!Next
<1>1. Table!Forget(p)
  BY DEF Fail, Table!Forget
<1> QED
  BY <1>1 DEF Table!Next

\* A step of an open that neither commits nor connects is none of the table, or
\* a failure.
LEMMA OpenIsTableStep ==
  ASSUME NEW p \in Procs,
         \/ SourceExists(p) \/ CacheHasEntries(p) \/ ReadMetadata(p) \/ CompareMtime(p)
         \/ InitCacheSchema(p) \/ UpgradeRefused(p) \/ ImportRows(p) \/ RecordMetadata(p)
  PROVE  [Table!Next]_(Table!vars)
<1>1. UNCHANGED <<version, db, cached>> /\ (UNCHANGED answer \/ Fail(p))
  BY DEF SourceExists, CacheHasEntries, ReadMetadata, CompareMtime, InitCacheSchema,
         UpgradeRefused, ImportRows, RecordMetadata, source, tables
<1>2. CASE UNCHANGED answer
  BY <1>1, <1>2 DEF Table!vars
<1>3. CASE Fail(p)
  BY <1>1, <1>3, FailForgets
<1> QED
  BY <1>1, <1>2, <1>3

\* A commit imports one version, none older than the rows before.
LEMMA CommitImports ==
  ASSUME TypeOK, LockInv, TablesInv, NEW p \in Procs, Commit(p)
  PROVE  Table!Import
<1>1. pc[p] = "commit" /\ db' = draft /\ UNCHANGED <<version, cached, answer>>
  BY DEF Commit, source
<1>2. /\ draft.entries \in Versions /\ draft.entries <= version
      /\ db.entries <= draft.entries
  BY <1>1 DEF TablesInv
<1>3. db'.entries \in 1..version
  BY <1>1, <1>2 DEF Versions, TypeOK
<1> QED
  BY <1>1, <1>2, <1>3 DEF Table!Import

\* Each step of the processes and of the listfile is one of the table, or none.
LEMMA StepIsTableStep ==
  ASSUME IInv, LookupInv, [Next]_vars
  PROVE  [Table!Next]_(Table!vars)
<1> USE DEF IInv
<1>1. ASSUME NEW p \in Procs, Query(p)
      PROVE  Table!Next
  <2>1. Table!Forget(p)
    BY <1>1 DEF Query, Table!Forget, source, tables
  <2> QED
    BY <2>1 DEF Table!Next
<1>2. ASSUME NEW p \in Procs, Commit(p)
      PROVE  Table!Next
  BY <1>2, CommitImports DEF Table!Next
<1>3. ASSUME NEW p \in Procs, Connect(p)
      PROVE  Table!Next
  <2>1. pc[p] = "connect" /\ cached' = [cached EXCEPT ![p] = TRUE] /\ UNCHANGED <<version, db, answer>>
    BY <1>3 DEF Connect, source, tables
  <2>2. db.entries # 0
    BY <2>1 DEF OpenInv, OpenAt
  <2>3. \A q \in Procs : cached'[q] = IF q = p THEN TRUE ELSE cached[q]
    BY <2>1 DEF TypeOK
  <2>4. {q \in Procs : cached'[q]} = {q \in Procs : cached[q]} \cup {p}
    BY <2>3
  <2>5. Table!Open(p)
    BY <2>1, <2>2, <2>4 DEF Table!Open
  <2> QED
    BY <2>5 DEF Table!Next
<1>4. ASSUME NEW p \in Procs, LookupRow(p)
      PROVE  Table!Next
  <2>1. pc[p] = "lookup" /\ UNCHANGED <<version, db, cached>>
        /\ answer' = [answer EXCEPT ![p] = db.entries]
    BY <1>4 DEF LookupRow, source, tables
  <2>2. cached[p]
    BY <2>1 DEF LookupInv
  <2>3. Table!Answer(p)
    BY <2>1, <2>2 DEF Table!Answer
  <2> QED
    BY <2>3 DEF Table!Next
<1>5. ASSUME NEW p \in Procs, Kill(p)
      PROVE  Table!Next
  <2>1. /\ cached' = [cached EXCEPT ![p] = FALSE] /\ UNCHANGED <<version, db>>
        /\ answer' = [answer EXCEPT ![p] = 0]
    BY <1>5 DEF Kill, source
  <2>2. \A q \in Procs : cached'[q] = IF q = p THEN FALSE ELSE cached[q]
    BY <2>1 DEF TypeOK
  <2>3. {q \in Procs : cached'[q]} = {q \in Procs : cached[q]} \ {p}
    BY <2>2
  <2>4. Table!Close(p)
    BY <2>1, <2>3 DEF Table!Close
  <2> QED
    BY <2>4 DEF Table!Next
<1>6. ASSUME NEW p \in Procs, LookupFails(p) \/ Error(p)
      PROVE  Table!Next
  BY <1>6, FailForgets DEF LookupFails, Error, source
<1>7. CASE Replace
  <2>1. Table!Publish
    BY <1>7 DEF Replace, Table!Publish, tables
  <2> QED
    BY <2>1 DEF Table!Next
<1>8. CASE Remove \/ Tick \/ UNCHANGED vars
  <2>1. UNCHANGED <<version, db, cached, answer>>
    BY <1>8 DEF Remove, Tick, vars, source, tables
  <2> QED
    BY <2>1 DEF Table!vars
<1> QED
  BY <1>1, <1>2, <1>3, <1>4, <1>5, <1>6, <1>7, <1>8, OpenIsTableStep DEF Next, Step

\* A cache that is tested, rebuilt, rolled back and read by processes beside each
\* other implements a table that is imported at once and never goes back
\* (listfile_cache.rs:217-256).
THEOREM TableRefinement == Spec => ImplementsTable
<1>1. Init => LookupInv /\ Table!Init
  <2> SUFFICES ASSUME Init PROVE LookupInv /\ Table!Init
    OBVIOUS
  <2>1. LookupInv
    BY DEF Init, LookupInv
  <2>2. \A p \in Procs : ~cached[p]
    BY DEF Init
  <2>3. {p \in Procs : cached[p]} = {}
    BY <2>2
  <2>4. db.entries = 0
    BY DEF Init, NoTables
  <2>5. Table!Init
    BY <2>3, <2>4 DEF Init, Table!Init
  <2> QED
    BY <2>1, <2>5
<1>2. IInv /\ LookupInv /\ [Next]_vars => LookupInv'
  BY LookupNext DEF IInv
<1>3. IInv /\ LookupInv /\ [Next]_vars => [Table!Next]_(Table!vars)
  BY StepIsTableStep
<1> QED
  BY <1>1, <1>2, <1>3, Invariance, PTL DEF Spec, ImplementsTable, Table!Spec
=============================================================================
