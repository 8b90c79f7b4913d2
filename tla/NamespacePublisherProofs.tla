---------------------- MODULE NamespacePublisherProofs ----------------------
(***************************************************************************)
(* Proofs about NamespacePublisher, for every set of processes, every      *)
(* number of kills and faults, and every inert legacy directory.           *)
(***************************************************************************)
EXTENDS NamespacePublisher, TLAPS

\* The two hypotheses on the outside world: a directory that an older version
\* left behind does not pass for finished once it loses its sidecar, and stat
\* of an existing file succeeds.
Hypotheses == Inert(Legacy) /\ StatMayFail = FALSE

\* No files are a directory.
LEMMA NoFilesIsDir == NoFiles \in Dirs
  BY DEF NoFiles, Dirs

\* What a builder does to its directory leaves a directory.
LEMMA DirUpdates ==
  ASSUME NEW d \in Dirs
  PROVE  /\ \A n \in Nat : [d EXCEPT !.enc = n] \in Dirs
         /\ \A n \in Nat : [d EXCEPT !.root = n] \in Dirs
         /\ [d EXCEPT !.db = "uncommitted", !.sidecar = TRUE] \in Dirs
         /\ [d EXCEPT !.meta = <<d.root, d.enc>>] \in Dirs
         /\ [d EXCEPT !.db = "committed", !.sidecar = FALSE] \in Dirs
         /\ [d EXCEPT !.sidecar = FALSE] \in Dirs
         /\ [d EXCEPT !.db = "none", !.meta = <<0, 0>>] \in Dirs
         /\ d.enc + 1 \in Nat /\ d.root + 1 \in Nat
<1>1. \A n \in Nat : [d EXCEPT !.enc = n] \in Dirs
  BY DEF Dirs
<1>2. \A n \in Nat : [d EXCEPT !.root = n] \in Dirs
  BY DEF Dirs
<1>3. [d EXCEPT !.db = "uncommitted", !.sidecar = TRUE] \in Dirs
  BY DEF Dirs
<1>4. [d EXCEPT !.meta = <<d.root, d.enc>>] \in Dirs
  BY DEF Dirs
<1>5. [d EXCEPT !.db = "committed", !.sidecar = FALSE] \in Dirs
  BY DEF Dirs
<1>6. [d EXCEPT !.sidecar = FALSE] \in Dirs
  BY DEF Dirs
<1>7. [d EXCEPT !.db = "none", !.meta = <<0, 0>>] \in Dirs
  BY DEF Dirs
<1>8. d.enc + 1 \in Nat /\ d.root + 1 \in Nat
  BY DEF Dirs
<1> QED
  BY <1>1, <1>2, <1>3, <1>4, <1>5, <1>6, <1>7, <1>8

-----------------------------------------------------------------------------
(* Types *)

\* The invariant of types holds initially ...
LEMMA TypeInit == Legacy \subseteq Dirs /\ Init => TypeOK
  BY NoFilesIsDir, ConstantsAssumption
  DEF Init, TypeOK, Points, Operations

\* ... and every step keeps it.
LEMMA TypeNext == TypeOK /\ [Next]_vars => TypeOK'
<1> USE DEF TypeOK, Points, Operations, Goto, world
<1> SUFFICES ASSUME TypeOK, [Next]_vars PROVE TypeOK'
  OBVIOUS
<1>0. CASE UNCHANGED vars
  BY <1>0 DEF vars
<1>1. ASSUME NEW p \in Procs, Call(p) PROVE TypeOK'
  BY <1>1 DEF Call
<1>2. ASSUME NEW p \in Procs, AcquireLock(p) PROVE TypeOK'
  BY <1>2 DEF AcquireLock, Locked, Building
<1>3. ASSUME NEW p \in Procs, Reuse(p) PROVE TypeOK'
  BY <1>3 DEF Reuse, Ensured
<1>4. ASSUME NEW p \in Procs, Distrust(p) PROVE TypeOK'
  BY <1>4 DEF Distrust, Locked, Building
<1>5. ASSUME NEW p \in Procs, Build(p) PROVE TypeOK'
  <2>1. CASE CreateStaging(p)
    BY <2>1, NoFilesIsDir DEF CreateStaging, Locked, Building
  <2>2. CASE WriteEncoding(p)
    <3>1. staging' \in [Procs -> Dirs]
      BY <2>2, DirUpdates DEF WriteEncoding
    <3>2. pc' \in [Procs -> Points] /\ UNCHANGED <<final, lock, result, world>>
      BY <2>2 DEF WriteEncoding, Locked, Building
    <3> QED
      BY <3>1, <3>2
  <2>3. CASE WriteRoot(p)
    <3>1. staging' \in [Procs -> Dirs]
      BY <2>3, DirUpdates DEF WriteRoot
    <3>2. pc' \in [Procs -> Points] /\ UNCHANGED <<final, lock, result, world>>
      BY <2>3 DEF WriteRoot, Locked, Building
    <3> QED
      BY <3>1, <3>2
  <2>4. CASE InsertRows(p)
    <3>1. staging' \in [Procs -> Dirs]
      BY <2>4, DirUpdates DEF InsertRows
    <3>2. pc' \in [Procs -> Points] /\ UNCHANGED <<final, lock, result, world>>
      BY <2>4 DEF InsertRows, Locked, Building
    <3> QED
      BY <3>1, <3>2
  <2>5. CASE InsertMetadata(p)
    <3>1. staging' \in [Procs -> Dirs]
      BY <2>5, DirUpdates DEF InsertMetadata
    <3>2. pc' \in [Procs -> Points] /\ UNCHANGED <<final, lock, result, world>>
      BY <2>5 DEF InsertMetadata, Locked, Building
    <3> QED
      BY <3>1, <3>2
  <2>6. CASE Commit(p)
    <3>1. staging' \in [Procs -> Dirs]
      BY <2>6, DirUpdates DEF Commit
    <3>2. pc' \in [Procs -> Points] /\ UNCHANGED <<final, lock, result, world>>
      BY <2>6 DEF Commit, Locked, Building
    <3> QED
      BY <3>1, <3>2
  <2>7. CASE Verify(p)
    <3>1. pc' \in [Procs -> Points] /\ result' \in [Procs -> {"none", "ok", "err"}]
      BY <2>7 DEF Verify, Locked, Building
    <3>2. UNCHANGED <<final, staging, lock, world>>
      BY <2>7 DEF Verify
    <3> QED
      BY <3>1, <3>2
  <2>8. CASE RemoveFile(p)
    <3>1. [final EXCEPT !.enc = 0] \in Dirs /\ [final EXCEPT !.root = 0] \in Dirs
      BY DirUpdates
    <3>2. /\ [final EXCEPT !.sidecar = FALSE] \in Dirs
          /\ [final EXCEPT !.db = "none", !.meta = <<0, 0>>] \in Dirs
      BY DirUpdates
    <3>3. final' \in Dirs
      BY <2>8, <3>1, <3>2 DEF RemoveFile
    <3> QED
      BY <2>8, <3>3 DEF RemoveFile, Locked, Building
  <2>9. CASE Rename(p)
    BY <2>9, NoFilesIsDir DEF Rename, Locked
  <2>10. CASE Cleanup(p)
    BY <2>10, NoFilesIsDir DEF Cleanup, Ensured
  <2> QED
    BY <1>5, <2>1, <2>2, <2>3, <2>4, <2>5, <2>6, <2>7, <2>8, <2>9, <2>10 DEF Build
<1>6. ASSUME NEW p \in Procs, Probe(p) PROVE TypeOK'
  BY <1>6 DEF Probe
<1>7. ASSUME NEW p \in Procs, Connect(p) PROVE TypeOK'
  BY <1>7 DEF Connect
<1>8. ASSUME NEW p \in Procs, Error(p) PROVE TypeOK'
  <2>1. pc' \in [Procs -> Points] /\ lock' \in SUBSET Procs
    BY <1>8 DEF Error, Locked
  <2>2. faults' \in 0..MaxFaults
    BY <1>8, ConstantsAssumption DEF Error, Fault
  <2>3. /\ result' = [result EXCEPT ![p] = "err"]
        /\ faulted' = [faulted EXCEPT ![p] = TRUE]
        /\ UNCHANGED <<final, staging, api, handle, kills>>
    BY <1>8 DEF Error, Fault
  <2> QED
    BY <2>1, <2>2, <2>3
<1>9. ASSUME NEW p \in Procs, Rewrite(p) PROVE TypeOK'
  <2>3. staging[p] \in Dirs
    OBVIOUS
  <2>4. /\ [staging[p] EXCEPT !.enc = staging[p].enc + 1] \in Dirs
        /\ [staging[p] EXCEPT !.root = staging[p].root + 1] \in Dirs
    BY <2>3, DirUpdates
  <2>1. staging' \in [Procs -> Dirs]
    BY <1>9, <2>4 DEF Rewrite
  <2> QED
    BY <1>9, <2>1, ConstantsAssumption DEF Rewrite, Fault
<1>10. ASSUME NEW p \in Procs, Kill(p) PROVE TypeOK'
  BY <1>10, NoFilesIsDir, ConstantsAssumption DEF Kill
<1> QED
  BY <1>0, <1>1, <1>2, <1>3, <1>4, <1>5, <1>6, <1>7, <1>8, <1>9, <1>10 DEF Next, Step

\* Every reachable state has its type (casc_cache.rs:16-178).
THEOREM TypeCorrect == Legacy \subseteq Dirs => (Spec => []TypeOK)
<1> SUFFICES ASSUME Legacy \subseteq Dirs PROVE Spec => []TypeOK
  OBVIOUS
<1>1. Init => TypeOK
  BY TypeInit
<1> QED
  BY <1>1, TypeNext, PTL DEF Spec
-----------------------------------------------------------------------------
(* The lock *)

\* Whoever is in the locked part holds the lock, and nobody else does.
LockInv ==
    /\ \A p \in Procs : pc[p] \in Locked <=> p \in lock
    /\ \A p, q \in lock : p = q

\* Every step keeps the lock with the one who works under it.
LEMMA LockNext == TypeOK /\ LockInv /\ [Next]_vars => LockInv'
<1> USE DEF TypeOK, LockInv, Goto, Locked, Building
<1> SUFFICES ASSUME TypeOK, LockInv, [Next]_vars PROVE LockInv'
  OBVIOUS
<1>0. CASE UNCHANGED vars
  BY <1>0 DEF vars
<1>1. ASSUME NEW p \in Procs, Call(p) PROVE LockInv'
  BY <1>1 DEF Call
<1>2. ASSUME NEW p \in Procs, AcquireLock(p) PROVE LockInv'
  BY <1>2 DEF AcquireLock
<1>3. ASSUME NEW p \in Procs, Reuse(p) PROVE LockInv'
  BY <1>3 DEF Reuse, Ensured
<1>4. ASSUME NEW p \in Procs, Distrust(p) PROVE LockInv'
  BY <1>4 DEF Distrust
<1>5. ASSUME NEW p \in Procs, Build(p) PROVE LockInv'
  <2>1. CASE CreateStaging(p)
    BY <2>1 DEF CreateStaging
  <2>2. CASE WriteEncoding(p)
    BY <2>2 DEF WriteEncoding
  <2>3. CASE WriteRoot(p)
    BY <2>3 DEF WriteRoot
  <2>4. CASE InsertRows(p)
    BY <2>4 DEF InsertRows
  <2>5. CASE InsertMetadata(p)
    BY <2>5 DEF InsertMetadata
  <2>6. CASE Commit(p)
    BY <2>6 DEF Commit
  <2>7. CASE Verify(p)
    BY <2>7 DEF Verify
  <2>8. CASE RemoveFile(p)
    BY <2>8 DEF RemoveFile
  <2>9. CASE Rename(p)
    BY <2>9 DEF Rename
  <2>10. CASE Cleanup(p)
    BY <2>10 DEF Cleanup, Ensured
  <2> QED
    BY <1>5, <2>1, <2>2, <2>3, <2>4, <2>5, <2>6, <2>7, <2>8, <2>9, <2>10 DEF Build
<1>6. ASSUME NEW p \in Procs, Probe(p) PROVE LockInv'
  BY <1>6 DEF Probe
<1>7. ASSUME NEW p \in Procs, Connect(p) PROVE LockInv'
  BY <1>7 DEF Connect
<1>8. ASSUME NEW p \in Procs, Error(p) PROVE LockInv'
  BY <1>8 DEF Error
<1>9. ASSUME NEW p \in Procs, Rewrite(p) PROVE LockInv'
  BY <1>9 DEF Rewrite
<1>10. ASSUME NEW p \in Procs, Kill(p) PROVE LockInv'
  BY <1>10 DEF Kill
<1> QED
  BY <1>0, <1>1, <1>2, <1>3, <1>4, <1>5, <1>6, <1>7, <1>8, <1>9, <1>10 DEF Next, Step

\* Inspection, building, removal and renaming are mutually exclusive for any
\* number of processes and any sequence of kills and errors, even where stat
\* may fail (casc_cache.rs:86-125).
THEOREM MutualExclusion == Legacy \subseteq Dirs => (Spec => []OneBuilder)
<1> SUFFICES ASSUME Legacy \subseteq Dirs PROVE Spec => []OneBuilder
  OBVIOUS
<1>1. Init => LockInv
  BY DEF Init, LockInv, Locked, Building
<1>2. LockInv => OneBuilder
  BY DEF LockInv, OneBuilder
<1>3. Spec => []TypeOK
  BY TypeCorrect
<1> QED
  BY <1>1, <1>2, <1>3, LockNext, PTL DEF Spec
-----------------------------------------------------------------------------
(* The published directory *)

\* What a private directory holds at each point of its construction.  Only a
\* rewrite by others, which counts as a fault of the call, can separate the
\* stored mtimes from those of the files.
StagingInv ==
    \A p \in Procs :
        /\ pc[p] \in Building \ {"encoding"} => staging[p].enc # 0
        /\ pc[p] \in Building \ {"encoding", "root"} => staging[p].root # 0
        /\ pc[p] \in {"verify", "clear", "rename"} =>
              staging[p].db = "committed" /\ ~staging[p].sidecar
        /\ pc[p] \in {"commit", "verify"} /\ ~faulted[p] =>
              staging[p].meta = <<staging[p].root, staging[p].enc>>
        /\ pc[p] \in {"clear", "rename"} => Complete(staging[p])

\* When a call has a result, and whose fault an error is.
ResultInv ==
    \A p \in Procs :
        /\ result[p] = "ok" => pc[p] = "done"
        /\ result[p] = "err" => pc[p] \in {"cleanup", "done"}
        /\ result[p] = "err" /\ api[p] # "open" => faulted[p]

\* A directory that passes for finished is complete; none passes while somebody
\* builds another, and one stands from the moment somebody relies on it.
FinalInv ==
    /\ MetadataMatches(final) => Complete(final)
    /\ \A p \in Procs :
        /\ pc[p] \in Building \cup {"stage"} => ~MetadataMatches(final)
        /\ pc[p] = "rename" => final = NoFiles
        /\ pc[p] = "cleanup" /\ result[p] # "err" => Complete(final)
        /\ pc[p] = "probe" /\ api[p] # "open" => Complete(final)
        /\ pc[p] = "connect" => Complete(final)
        /\ result[p] = "ok" => Complete(final)
        /\ result[p] = "ok" /\ api[p] # "refresh" => handle[p] = final

IInv == TypeOK /\ LockInv /\ StagingInv /\ ResultInv /\ FinalInv

\* The invariant holds initially.
LEMMA InvInit == Hypotheses /\ Init => IInv
<1> SUFFICES ASSUME Hypotheses, Init PROVE IInv
  OBVIOUS
<1>1. TypeOK
  BY TypeInit DEF Hypotheses, Inert
<1>2. LockInv
  BY DEF Init, LockInv, Locked, Building
<1>3. StagingInv /\ ResultInv
  BY DEF Init, StagingInv, ResultInv, Building
<1>4. FinalInv
  BY DEF Init, FinalInv, Building, Hypotheses, Inert, MetadataMatches, NoFiles
<1> QED
  BY <1>1, <1>2, <1>3, <1>4 DEF IInv

\* Private directories: only their owner touches them.
LEMMA StagingNext == IInv /\ [Next]_vars => StagingInv'
<1> USE DEF IInv, TypeOK, StagingInv, Goto, Building, world
<1> SUFFICES ASSUME IInv, [Next]_vars PROVE StagingInv'
  OBVIOUS
<1>0. CASE UNCHANGED vars
  BY <1>0 DEF vars
<1>1. ASSUME NEW p \in Procs, Call(p) PROVE StagingInv'
  BY <1>1 DEF Call
<1>2. ASSUME NEW p \in Procs, AcquireLock(p) PROVE StagingInv'
  BY <1>2 DEF AcquireLock
<1>3. ASSUME NEW p \in Procs, Reuse(p) PROVE StagingInv'
  BY <1>3 DEF Reuse, Ensured
<1>4. ASSUME NEW p \in Procs, Distrust(p) PROVE StagingInv'
  BY <1>4 DEF Distrust
<1>5. ASSUME NEW p \in Procs, Build(p) PROVE StagingInv'
  <2>1. CASE CreateStaging(p)
    BY <2>1 DEF CreateStaging
  <2>2. CASE WriteEncoding(p)
    BY <2>2 DEF WriteEncoding, Dirs
  <2>3. CASE WriteRoot(p)
    BY <2>3 DEF WriteRoot, Dirs
  <2>4. CASE InsertRows(p)
    BY <2>4 DEF InsertRows, Dirs
  <2>5. CASE InsertMetadata(p)
    BY <2>5 DEF InsertMetadata, Dirs
  <2>6. CASE Commit(p)
    BY <2>6 DEF Commit, Dirs
  <2>7. CASE Verify(p)
    BY <2>7 DEF Verify, Inspection, CacheIsFresh, Complete
  <2>8. CASE RemoveFile(p)
    BY <2>8 DEF RemoveFile
  <2>9. CASE Rename(p)
    BY <2>9 DEF Rename
  <2>10. CASE Cleanup(p)
    BY <2>10 DEF Cleanup, Ensured
  <2> QED
    BY <1>5, <2>1, <2>2, <2>3, <2>4, <2>5, <2>6, <2>7, <2>8, <2>9, <2>10 DEF Build
<1>6. ASSUME NEW p \in Procs, Probe(p) PROVE StagingInv'
  BY <1>6 DEF Probe
<1>7. ASSUME NEW p \in Procs, Connect(p) PROVE StagingInv'
  BY <1>7 DEF Connect
<1>8. ASSUME NEW p \in Procs, Error(p) PROVE StagingInv'
  BY <1>8 DEF Error, Fault
<1>9. ASSUME NEW p \in Procs, Rewrite(p) PROVE StagingInv'
  BY <1>9 DEF Rewrite, Fault, Dirs
<1>10. ASSUME NEW p \in Procs, Kill(p) PROVE StagingInv'
  BY <1>10 DEF Kill
<1> QED
  BY <1>0, <1>1, <1>2, <1>3, <1>4, <1>5, <1>6, <1>7, <1>8, <1>9, <1>10 DEF Next, Step

\* Results: an error of a call that ensures the namespace is its own.
LEMMA ResultNext == IInv /\ [Next]_vars => ResultInv'
<1> USE DEF IInv, TypeOK, ResultInv, Goto, world
<1> SUFFICES ASSUME IInv, [Next]_vars PROVE ResultInv'
  OBVIOUS
<1>0. CASE UNCHANGED vars
  BY <1>0 DEF vars
<1>1. ASSUME NEW p \in Procs, Call(p) PROVE ResultInv'
  BY <1>1 DEF Call
<1>2. ASSUME NEW p \in Procs, AcquireLock(p) PROVE ResultInv'
  BY <1>2 DEF AcquireLock
<1>3. ASSUME NEW p \in Procs, Reuse(p) PROVE ResultInv'
  BY <1>3 DEF Reuse, Ensured
<1>4. ASSUME NEW p \in Procs, Distrust(p) PROVE ResultInv'
  BY <1>4 DEF Distrust, Inspection, CacheIsFresh
<1>5. ASSUME NEW p \in Procs, Build(p) PROVE ResultInv'
  <2>1. CASE Verify(p)
    <3>1. Inspection(staging[p]) # "fresh" => faulted[p]
      BY <2>1 DEF Verify, StagingInv, Building, Inspection, CacheIsFresh, MetadataMatches
    <3> QED
      BY <2>1, <3>1 DEF Verify
  <2>2. CASE Cleanup(p)
    BY <2>2 DEF Cleanup, Ensured
  <2> QED
    BY <1>5, <2>1, <2>2
    DEF Build, CreateStaging, WriteEncoding, WriteRoot, InsertRows,
        InsertMetadata, Commit, RemoveFile, Rename
<1>6. ASSUME NEW p \in Procs, Probe(p) PROVE ResultInv'
  BY <1>6 DEF Probe, FinalInv, CacheIsFresh, Complete
<1>7. ASSUME NEW p \in Procs, Connect(p) PROVE ResultInv'
  BY <1>7 DEF Connect, FinalInv, Complete
<1>8. ASSUME NEW p \in Procs, Error(p) PROVE ResultInv'
  BY <1>8 DEF Error, Fault, Building
<1>9. ASSUME NEW p \in Procs, Rewrite(p) PROVE ResultInv'
  BY <1>9 DEF Rewrite, Fault
<1>10. ASSUME NEW p \in Procs, Kill(p) PROVE ResultInv'
  BY <1>10 DEF Kill
<1> QED
  BY <1>0, <1>1, <1>2, <1>3, <1>4, <1>5, <1>6, <1>7, <1>8, <1>9, <1>10 DEF Next, Step

\* Removing files one at a time never makes a directory pass for finished.
LEMMA RemovalKeepsUnfinished ==
  ASSUME NEW p \in Procs, TypeOK, RemoveFile(p), ~MetadataMatches(final)
  PROVE  ~MetadataMatches(final')
  BY DEF TypeOK, RemoveFile, MetadataMatches, Dirs

\* Only a builder that found the directory unfinished changes it.
LEMMA FinalNext == Hypotheses /\ IInv /\ [Next]_vars => FinalInv'
<1> USE DEF IInv, TypeOK, FinalInv, Goto, world, Building
<1> SUFFICES ASSUME Hypotheses, IInv, [Next]_vars PROVE FinalInv'
  OBVIOUS
<1>0. CASE UNCHANGED vars
  BY <1>0 DEF vars
<1>1. ASSUME NEW p \in Procs, Call(p) PROVE FinalInv'
  BY <1>1 DEF Call, ResultInv
<1>2. ASSUME NEW p \in Procs, AcquireLock(p) PROVE FinalInv'
  BY <1>2 DEF AcquireLock
<1>3. ASSUME NEW p \in Procs, Reuse(p) PROVE FinalInv'
  <2>1. Complete(final)
    BY <1>3 DEF Reuse, Inspection, CacheIsFresh
  <2> QED
    BY <1>3, <2>1 DEF Reuse, Ensured
<1>4. ASSUME NEW p \in Procs, Distrust(p) PROVE FinalInv'
  <2>1. ~MetadataMatches(final)
    BY <1>4 DEF Distrust, Hypotheses, Inspection, CacheIsFresh, Complete, MetadataMatches
  <2>2. result[p] # "ok"
    BY <1>4 DEF Distrust, ResultInv
  <2> QED
    BY <1>4, <2>1, <2>2 DEF Distrust, ResultInv
<1>5. ASSUME NEW p \in Procs, Build(p) PROVE FinalInv'
  <2>1. CASE Verify(p)
    BY <2>1 DEF Verify
  <2>2. CASE RemoveFile(p)
    <3>1. ~MetadataMatches(final')
      BY <2>2, RemovalKeepsUnfinished DEF RemoveFile
    <3>2. ~MetadataMatches(final) /\ ~Complete(final)
      BY <2>2 DEF RemoveFile, Complete
    <3>3. \A q \in Procs : pc'[q] = "rename" => q = p
      BY <2>2 DEF RemoveFile, LockInv, Locked
    <3> QED
      BY <2>2, <3>1, <3>2, <3>3 DEF RemoveFile
  <2>3. CASE Rename(p)
    <3>1. Complete(final')
      BY <2>3 DEF Rename, StagingInv
    <3>2. ~Complete(final)
      BY <2>3 DEF Rename, Complete
    <3>3. \A q \in Procs : pc'[q] \notin Building \cup {"stage"}
      BY <2>3 DEF Rename, LockInv, Locked
    <3> QED
      BY <2>3, <3>1, <3>2, <3>3 DEF Rename
  <2>4. CASE Cleanup(p)
    BY <2>4 DEF Cleanup, Ensured
  <2> QED
    BY <1>5, <2>1, <2>2, <2>3, <2>4
    DEF Build, CreateStaging, WriteEncoding, WriteRoot, InsertRows,
        InsertMetadata, Commit
<1>6. ASSUME NEW p \in Procs, Probe(p) PROVE FinalInv'
  <2>1. CacheIsFresh(final) = "fresh" => Complete(final)
    BY DEF CacheIsFresh
  <2> QED
    BY <1>6, <2>1 DEF Probe
<1>7. ASSUME NEW p \in Procs, Connect(p) PROVE FinalInv'
  BY <1>7 DEF Connect
<1>8. ASSUME NEW p \in Procs, Error(p) PROVE FinalInv'
  BY <1>8 DEF Error, Fault
<1>9. ASSUME NEW p \in Procs, Rewrite(p) PROVE FinalInv'
  BY <1>9 DEF Rewrite, Fault
<1>10. ASSUME NEW p \in Procs, Kill(p) PROVE FinalInv'
  BY <1>10 DEF Kill
<1> QED
  BY <1>0, <1>1, <1>2, <1>3, <1>4, <1>5, <1>6, <1>7, <1>8, <1>9, <1>10 DEF Next, Step

\* The strengthened invariant of all reachable states.
LEMMA Invariance == Hypotheses => (Spec => []IInv)
<1> SUFFICES ASSUME Hypotheses PROVE Spec => []IInv
  OBVIOUS
<1>1. Init => IInv
  BY InvInit
<1>2. IInv /\ [Next]_vars => IInv'
  BY TypeNext, LockNext, StagingNext, ResultNext, FinalNext DEF IInv
<1> QED
  BY <1>1, <1>2, PTL DEF Spec

-----------------------------------------------------------------------------
(* What a user of the namespace relies on *)

\* Never, for any number of processes, kills and I/O errors, does an incomplete
\* directory pass for a finished one, although old directories are removed file
\* by file and open takes no lock (casc_cache.rs:25-61, 142-153).
THEOREM NeverIncompleteHolds == Hypotheses => (Spec => []NeverIncomplete)
<1> SUFFICES ASSUME Hypotheses PROVE Spec => []NeverIncomplete
  OBVIOUS
<1>1. IInv => NeverIncomplete
  BY DEF IInv, FinalInv, NeverIncomplete, CacheIsFresh
<1> QED
  BY <1>1, Invariance, PTL

\* All open readers hold the one published directory, whoever built it, and it
\* still stands (casc_cache.rs:94-96).
THEOREM ReadersShare == Hypotheses => (Spec => []ReadersShareNamespace)
<1> SUFFICES ASSUME Hypotheses PROVE Spec => []ReadersShareNamespace
  OBVIOUS
<1>1. IInv => ReadersShareNamespace
  BY DEF IInv, FinalInv, ReadersShareNamespace
<1> QED
  BY <1>1, Invariance, PTL

\* casc_refresh leaves a complete namespace behind whenever it reports success,
\* whether it built it or found it (casc_cache.rs:94-96).
THEOREM RefreshLeavesComplete == Hypotheses => (Spec => []RefreshedIsComplete)
<1> SUFFICES ASSUME Hypotheses PROVE Spec => []RefreshedIsComplete
  OBVIOUS
<1>1. IInv => RefreshedIsComplete
  BY DEF IInv, FinalInv, RefreshedIsComplete
<1> QED
  BY <1>1, Invariance, PTL

\* No process fails because of what another one did, or left behind when it was
\* killed (casc_cache.rs:86-105).
THEOREM FaultsAreOwn == Hypotheses => (Spec => []OnlyOwnFaultsFail)
<1> SUFFICES ASSUME Hypotheses PROVE Spec => []OnlyOwnFaultsFail
  OBVIOUS
<1>1. IInv => OnlyOwnFaultsFail
  BY DEF IInv, ResultInv, OnlyOwnFaultsFail
<1> QED
  BY <1>1, Invariance, PTL

\* The only steps that touch the directory.
LEMMA WhoWritesFinal ==
  ASSUME [Next]_vars, final' # final
  PROVE  \E p \in Procs : RemoveFile(p) \/ Rename(p)
  BY DEF Next, vars, Step, Build, Call, AcquireLock, Reuse, Distrust,
     CreateStaging, WriteEncoding, WriteRoot, InsertRows, InsertMetadata, Commit,
     Verify, Cleanup, Probe, Connect, Error, Rewrite, Kill

\* No step changes a directory that is complete.
LEMMA CompleteIsKept ==
  ASSUME IInv, [Next]_vars, Complete(final) PROVE final' = final
<1> SUFFICES ASSUME final' # final PROVE FALSE
  OBVIOUS
<1>1. PICK p \in Procs : RemoveFile(p) \/ Rename(p)
  BY WhoWritesFinal
<1>2. pc[p] \in Building
  BY <1>1 DEF RemoveFile, Rename, Building
<1> QED
  BY <1>2 DEF IInv, FinalInv, Complete

\* A published namespace is never changed, removed or replaced
\* (casc_cache.rs:87, 146-147).
THEOREM PublishedStays == Hypotheses => (Spec => PublishedIsImmutable)
<1> SUFFICES ASSUME Hypotheses PROVE Spec => PublishedIsImmutable
  OBVIOUS
<1>1. IInv /\ [Next]_vars => [Complete(final) => final' = final]_vars
  BY CompleteIsKept
<1> QED
  BY <1>1, Invariance, PTL DEF Spec, PublishedIsImmutable

\* The readers' handles change only when one opens or dies.
LEMMA HandleSteps ==
  ASSUME [Next]_vars, handle' # handle
  PROVE  \E p \in Procs : Connect(p) \/ Kill(p)
  BY DEF Next, vars, Step, Build, Call, AcquireLock, Reuse, Distrust,
     CreateStaging, WriteEncoding, WriteRoot, InsertRows, InsertMetadata, Commit,
     Verify, RemoveFile, Rename, Cleanup, Probe, Error, Rewrite, world

\* Locking, private building, removal file by file, renaming and opening without
\* the lock implement one atomic publication (casc_cache.rs:25-153).
THEOREM Refinement == Hypotheses => (Spec => Implements)
<1> SUFFICES ASSUME Hypotheses PROVE Spec => Implements
  OBVIOUS
<1> DEFINE published == IF Complete(final) THEN final ELSE NoFiles
<1>1. Init => Abstract!Init
  <2> SUFFICES ASSUME Init PROVE Abstract!Init
    OBVIOUS
  <2>1. final \in Dirs
    BY NoFilesIsDir DEF Init, Hypotheses, Inert
  <2>2. handle = [p \in Procs |-> NoFiles]
    BY DEF Init
  <2> QED
    BY <2>1, <2>2 DEF Abstract!Init
<1>2. ASSUME IInv, IInv', [Next]_vars PROVE [Abstract!Next]_(Abstract!vars)
  <2>1. CASE final' = final /\ handle' = handle
    <3>1. published' = published
      BY <2>1
    <3> QED
      BY <2>1, <3>1 DEF Abstract!vars
  <2>2. CASE final' # final
    <3>1. PICK p \in Procs : RemoveFile(p) \/ Rename(p)
      BY <1>2, <2>2, WhoWritesFinal
    <3>2. handle' = handle
      BY <3>1 DEF RemoveFile, Rename, world
    <3>3. ~Complete(final)
      BY <2>2, <1>2, CompleteIsKept
    <3>4. CASE Complete(final')
      <4>1. final' \in {d \in Dirs : Complete(d)}
        BY <1>2, <3>4 DEF IInv, TypeOK
      <4>2. Abstract!Publish
        BY <3>2, <3>3, <3>4, <4>1 DEF Abstract!Publish
      <4> QED
        BY <4>2 DEF Abstract!Next
    <3>5. CASE ~Complete(final')
      BY <3>2, <3>3, <3>5 DEF Abstract!vars
    <3> QED
      BY <3>4, <3>5
  <2>3. CASE final' = final /\ handle' # handle
    <3>1. PICK p \in Procs : Connect(p) \/ Kill(p)
      BY <1>2, <2>3, HandleSteps
    <3>2. published' = published
      BY <2>3
    <3>3. CASE Connect(p)
      <4>1. Complete(final)
        BY <1>2, <3>3 DEF Connect, IInv, FinalInv
      <4>2. handle' = [handle EXCEPT ![p] = final]
        BY <2>3, <3>3 DEF Connect
      <4>3. final \in {d \in Dirs : Complete(d)}
        BY <1>2, <4>1 DEF IInv, TypeOK
      <4>4. Abstract!Open(p)
        BY <2>3, <4>1, <4>2, <4>3 DEF Abstract!Open
      <4> QED
        BY <4>4 DEF Abstract!Next
    <3>4. CASE Kill(p)
      <4>1. handle' = [handle EXCEPT ![p] = NoFiles]
        BY <3>4 DEF Kill
      <4>2. Abstract!Close(p)
        BY <2>3, <4>1 DEF Abstract!Close
      <4> QED
        BY <4>2 DEF Abstract!Next
    <3> QED
      BY <3>1, <3>3, <3>4
  <2> QED
    BY <2>1, <2>2, <2>3
<1> QED
  BY <1>1, <1>2, Invariance, PTL DEF Spec, Implements, Abstract!Spec
=============================================================================
