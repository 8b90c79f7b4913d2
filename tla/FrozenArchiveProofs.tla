------------------------- MODULE FrozenArchiveProofs -------------------------
(***************************************************************************)
(* Proofs about KeyStore, RuntimeMode and their composition FrozenArchive. *)
(* The components are proved by themselves; the composition implements     *)
(* both of them, and what holds of them holds of it.                       *)
(***************************************************************************)
EXTENDS FrozenArchive, FiniteSetTheorems, TLAPS

-----------------------------------------------------------------------------
(* Partial maps *)

\* A store's keys are in it.
LEMMA RestrictionReflexive ==
    ASSUME NEW s
    PROVE  IsRestriction(s, s)
BY DEF IsRestriction

\* Keys that are in a store are in every store that has grown from it.
LEMMA RestrictionTransitive ==
    ASSUME NEW r, NEW s, NEW t, IsRestriction(r, s), IsRestriction(s, t)
    PROVE  IsRestriction(r, t)
BY DEF IsRestriction

\* The empty map is a store, and in every store.
LEMMA NoKeysAreKeys == NoKeys \in Stores /\ \A s : IsRestriction(NoKeys, s)
<1>1. DOMAIN NoKeys = {}
  BY DEF NoKeys
<1>2. NoKeys \in [{} -> Values]
  BY DEF NoKeys
<1>3. {} \in SUBSET Names
  OBVIOUS
<1>4. NoKeys \in Stores
  BY <1>2, <1>3 DEF Stores
<1> QED
  BY <1>1, <1>4 DEF IsRestriction

\* Appending to a store what does not conflict with it keeps both.
LEMMA MergeKeepsBoth ==
    ASSUME NEW s \in Stores, NEW t \in Stores, ~Conflict(t, s)
    PROVE  /\ Merge(s, t) \in Stores
           /\ IsRestriction(s, Merge(s, t))
           /\ IsRestriction(t, Merge(s, t))
<1>1. PICK N \in SUBSET Names : s \in [N -> Values]
  BY DEF Stores
<1>2. PICK M \in SUBSET Names : t \in [M -> Values]
  BY DEF Stores
<1>3. Merge(s, t) \in [N \cup M -> Values]
  BY <1>1, <1>2 DEF Merge
<1>4. N \cup M \in SUBSET Names
  OBVIOUS
<1>5. Merge(s, t) \in Stores
  BY <1>3, <1>4 DEF Stores
<1>6. IsRestriction(s, Merge(s, t))
  BY DEF IsRestriction, Merge
<1>7. IsRestriction(t, Merge(s, t))
  BY DEF IsRestriction, Merge, Conflict
<1> QED
  BY <1>5, <1>6, <1>7

\* An addition without new names, and without conflicts, is in the store.
LEMMA NothingNew ==
    ASSUME NEW s \in Stores, NEW t \in Stores, ~Conflict(t, s),
           DOMAIN t \subseteq DOMAIN s
    PROVE  IsRestriction(t, s)
BY DEF IsRestriction, Conflict

-----------------------------------------------------------------------------
(* KeyStore *)

\* Exactly the importers between flock and the end of the with block hold it.
LockInv ==
    /\ \A i \in Importers : i \in locked <=> at[i] \in Holding
    /\ \A i, j \in locked : i = j

\* A temporary file that is about to replace the store was computed from the
\* store as it is, and has the addition; after that the store has it.
DraftInv == \A i \in Importers :
    /\ at[i] \in {"write", "replace"} =>
         IsRestriction(store, draft[i]) /\ IsRestriction(addition[i], draft[i])
    /\ at[i] = "return" => IsRestriction(addition[i], store)

StoreInv == StoreTypeOK /\ LockInv /\ DraftInv /\ ImportsAreKept

\* Initially no import runs.
LEMMA StoreInitInv == StoreInit => StoreInv
<1> SUFFICES ASSUME StoreInit PROVE StoreInv
  OBVIOUS
<1> USE NoKeysAreKeys DEF StoreInit
<1>1. StoreTypeOK
  BY DEF StoreTypeOK, Places
<1>2. LockInv
  BY DEF LockInv, Holding
<1>3. DraftInv
  BY DEF DraftInv
<1>4. ImportsAreKept
  BY DEF ImportsAreKept
<1> QED
  BY <1>1, <1>2, <1>3, <1>4 DEF StoreInv

\* The fields of one importer after it moved.
LEMMA MoveIs ==
    ASSUME StoreTypeOK, NEW i \in Importers, NEW place \in Places, Move(i, place)
    PROVE  /\ at' \in [Importers -> Places]
           /\ at'[i] = place
           /\ \A j \in Importers : j # i => at'[j] = at[j]
BY DEF StoreTypeOK, Move

\* An importer that leaves gives up what it holds and changes nothing else.
LEMMA LeaveKeepsInv ==
    ASSUME StoreInv, NEW i \in Importers, Leave(i), UNCHANGED store,
           imported' \subseteq Stores, \A keys \in imported' : IsRestriction(keys, store)
    PROVE  StoreInv'
<1> USE DEF StoreInv
<1>1. /\ at' \in [Importers -> Places] /\ at'[i] = "idle"
      /\ \A j \in Importers : j # i => at'[j] = at[j]
  BY MoveIs DEF Leave, Places
<1>2. StoreTypeOK'
  BY <1>1, NoKeysAreKeys DEF StoreTypeOK, Leave
<1>3. LockInv'
  BY <1>1 DEF LockInv, Leave, Holding, StoreTypeOK
<1>4. DraftInv'
  <2> SUFFICES ASSUME NEW j \in Importers, at'[j] \in {"write", "replace", "return"}
               PROVE  j # i /\ addition'[j] = addition[j] /\ draft'[j] = draft[j]
    BY <1>1 DEF DraftInv
  <2> QED
    BY <1>1 DEF Leave, StoreTypeOK
<1>5. ImportsAreKept'
  BY DEF ImportsAreKept
<1> QED
  BY <1>2, <1>3, <1>4, <1>5

\* A step that the importers which hold nothing do not notice: the addition,
\* the draft and the place of the others stand.
LEMMA HarvestKeepsInv ==
    ASSUME StoreInv, NEW i \in Importers, NEW keys \in Stores, Harvest(i, keys)
    PROVE  StoreInv'
<1> USE DEF StoreInv, Harvest
<1>1. /\ at' \in [Importers -> Places] /\ at'[i] = "lock"
      /\ \A j \in Importers : j # i => at'[j] = at[j]
  BY MoveIs DEF Places
<1>2. StoreTypeOK'
  BY <1>1 DEF StoreTypeOK
<1>3. LockInv'
  BY <1>1 DEF LockInv, Holding
<1>4. DraftInv'
  <2> SUFFICES ASSUME NEW j \in Importers, at'[j] \in {"write", "replace", "return"}
               PROVE  j # i /\ addition'[j] = addition[j]
    BY <1>1 DEF DraftInv
  <2> QED
    BY <1>1 DEF StoreTypeOK
<1>5. ImportsAreKept'
  BY DEF ImportsAreKept
<1> QED
  BY <1>2, <1>3, <1>4, <1>5

\* Lock keeps the invariant of the store.
LEMMA LockKeepsInv ==
    ASSUME StoreInv, NEW i \in Importers, Lock(i)
    PROVE  StoreInv'
<1> USE DEF StoreInv, Lock
<1>1. /\ at' \in [Importers -> Places] /\ at'[i] = "read"
      /\ \A j \in Importers : j # i => at'[j] = at[j]
  BY MoveIs DEF Places, Holding
<1>2. StoreTypeOK'
  BY <1>1 DEF StoreTypeOK
<1>3. LockInv'
  BY <1>1 DEF LockInv, Holding
<1>4. DraftInv'
  BY <1>1 DEF DraftInv
<1>5. ImportsAreKept'
  BY DEF ImportsAreKept
<1> QED
  BY <1>2, <1>3, <1>4, <1>5

\* ReadStore keeps the invariant of the store.
LEMMA ReadStoreKeepsInv ==
    ASSUME StoreInv, NEW i \in Importers, ReadStore(i)
    PROVE  StoreInv'
<1> USE DEF StoreInv
<1> DEFINE place == IF DOMAIN addition[i] \subseteq DOMAIN store THEN "return" ELSE "write"
<1>1. addition[i] \in Stores /\ store \in Stores /\ ~Conflict(addition[i], store)
  BY DEF StoreTypeOK, ReadStore
<1>2. /\ Merge(store, addition[i]) \in Stores
      /\ IsRestriction(store, Merge(store, addition[i]))
      /\ IsRestriction(addition[i], Merge(store, addition[i]))
  BY <1>1, MergeKeepsBoth
<1>3. place \in Places /\ Move(i, place)
  BY DEF ReadStore, Places, Holding
<1>4. /\ at' \in [Importers -> Places] /\ at'[i] = place
      /\ \A j \in Importers : j # i => at'[j] = at[j]
  BY <1>3, MoveIs
<1>5. StoreTypeOK'
  BY <1>2, <1>4 DEF StoreTypeOK, ReadStore
<1>6. LockInv'
  BY <1>4 DEF LockInv, Holding, ReadStore
<1>7. DraftInv'
  <2> SUFFICES ASSUME NEW j \in Importers
               PROVE  /\ at'[j] \in {"write", "replace"} =>
                           IsRestriction(store, draft'[j]) /\ IsRestriction(addition[j], draft'[j])
                      /\ at'[j] = "return" => IsRestriction(addition[j], store)
    BY DEF DraftInv, ReadStore
  <2>1. CASE j # i
    <3>1. draft'[j] = draft[j] /\ at'[j] = at[j]
      BY <2>1, <1>4 DEF ReadStore, StoreTypeOK
    <3> QED
      BY <3>1 DEF DraftInv
  <2>2. CASE j = i /\ DOMAIN addition[i] \subseteq DOMAIN store
    <3>1. at'[i] = "return"
      BY <2>2, <1>4
    <3>2. IsRestriction(addition[i], store)
      BY <2>2, <1>1, NothingNew
    <3> QED
      BY <2>2, <3>1, <3>2
  <2>3. CASE j = i /\ ~(DOMAIN addition[i] \subseteq DOMAIN store)
    <3>1. at'[i] = "write"
      BY <2>3, <1>4
    <3>2. draft'[i] = Merge(store, addition[i])
      BY DEF ReadStore, StoreTypeOK
    <3> QED
      BY <2>3, <3>1, <3>2, <1>2
  <2> QED
    BY <2>1, <2>2, <2>3
<1>8. ImportsAreKept'
  BY DEF ImportsAreKept, ReadStore
<1> QED
  BY <1>5, <1>6, <1>7, <1>8

\* WriteTemporary keeps the invariant of the store.
LEMMA WriteTemporaryKeepsInv ==
    ASSUME StoreInv, NEW i \in Importers, WriteTemporary(i)
    PROVE  StoreInv'
<1> USE DEF StoreInv, WriteTemporary
<1>1. /\ at' \in [Importers -> Places] /\ at'[i] = "replace"
      /\ \A j \in Importers : j # i => at'[j] = at[j]
  BY MoveIs DEF Places, Holding
<1>2. StoreTypeOK'
  BY <1>1 DEF StoreTypeOK
<1>3. LockInv'
  BY <1>1 DEF LockInv, Holding
<1>4. DraftInv'
  BY <1>1 DEF DraftInv
<1>5. ImportsAreKept'
  BY DEF ImportsAreKept
<1> QED
  BY <1>2, <1>3, <1>4, <1>5

\* The one step that changes the store: nobody else is between reading it and
\* having replaced it.
LEMMA ReplaceKeepsInv ==
    ASSUME StoreInv, NEW i \in Importers, Replace(i)
    PROVE  StoreInv' /\ IsRestriction(store, store')
<1> USE DEF StoreInv
<1>1. /\ at' \in [Importers -> Places] /\ at'[i] = "return"
      /\ \A j \in Importers : j # i => at'[j] = at[j]
  BY MoveIs DEF Replace, Places, Holding
<1>2. /\ IsRestriction(store, draft[i]) /\ IsRestriction(addition[i], draft[i])
      /\ store' = draft[i]
  BY DEF DraftInv, Replace
<1>3. StoreTypeOK'
  BY <1>1 DEF StoreTypeOK, Replace
<1>4. LockInv'
  BY <1>1 DEF LockInv, Holding, Replace
<1>5. DraftInv'
  <2>1. \A j \in Importers : j # i => at[j] \notin Holding
    BY DEF LockInv, Holding, Replace
  <2> QED
    BY <1>1, <1>2, <2>1 DEF DraftInv, Holding, Replace
<1>6. ImportsAreKept'
  <2> SUFFICES ASSUME NEW keys \in imported PROVE IsRestriction(keys, store')
    BY DEF ImportsAreKept, Replace
  <2>1. IsRestriction(keys, store)
    BY DEF ImportsAreKept
  <2> QED
    BY <2>1, <1>2, RestrictionTransitive
<1> QED
  BY <1>2, <1>3, <1>4, <1>5, <1>6

\* Return keeps the invariant of the store.
LEMMA ReturnKeepsInv ==
    ASSUME StoreInv, NEW i \in Importers, Return(i)
    PROVE  StoreInv'
<1>1. addition[i] \in Stores /\ IsRestriction(addition[i], store)
  BY DEF StoreInv, StoreTypeOK, DraftInv, Return
<1>2. imported' \subseteq Stores /\ \A keys \in imported' : IsRestriction(keys, store)
  BY <1>1 DEF StoreInv, StoreTypeOK, ImportsAreKept, Return
<1> QED
  BY <1>2, LeaveKeepsInv DEF Return

\* Every step of the importers keeps the invariant and the store's keys.
LEMMA StoreStep ==
    ASSUME StoreInv, [StoreNext]_storeVars
    PROVE  StoreInv' /\ IsRestriction(store, store')
<1>1. CASE UNCHANGED storeVars
  <2>1. StoreInv'
    BY <1>1 DEF StoreInv, StoreTypeOK, LockInv, DraftInv, ImportsAreKept, storeVars
  <2> QED
    BY <1>1, <2>1, RestrictionReflexive DEF storeVars
<1>2. CASE StoreNext
  <2>1. PICK i \in Importers :
            (\E keys \in Additions : Harvest(i, keys)) \/ ImporterStep(i) \/ Abandon(i)
    BY <1>2 DEF StoreNext
  <2>2. ASSUME NEW keys \in Additions, Harvest(i, keys)
        PROVE  StoreInv' /\ IsRestriction(store, store')
    BY <2>2, HarvestKeepsInv, AdditionsAssumption, RestrictionReflexive DEF Harvest
  <2>3. CASE Lock(i)
    BY <2>3, LockKeepsInv, RestrictionReflexive DEF Lock
  <2>4. CASE ReadStore(i)
    BY <2>4, ReadStoreKeepsInv, RestrictionReflexive DEF ReadStore
  <2>5. CASE RefuseConflict(i) \/ Abandon(i)
    <3>1. Leave(i) /\ UNCHANGED <<store, imported>>
      BY <2>5 DEF RefuseConflict, Abandon
    <3>2. imported' \subseteq Stores /\ \A keys \in imported' : IsRestriction(keys, store)
      BY <3>1 DEF StoreInv, StoreTypeOK, ImportsAreKept
    <3> QED
      BY <3>1, <3>2, LeaveKeepsInv, RestrictionReflexive
  <2>6. CASE WriteTemporary(i)
    BY <2>6, WriteTemporaryKeepsInv, RestrictionReflexive DEF WriteTemporary
  <2>7. CASE Replace(i)
    BY <2>7, ReplaceKeepsInv
  <2>8. CASE Return(i)
    BY <2>8, ReturnKeepsInv, RestrictionReflexive DEF Return
  <2> QED
    BY <2>1, <2>2, <2>3, <2>4, <2>5, <2>6, <2>7, <2>8 DEF ImporterStep
<1> QED
  BY <1>1, <1>2

\* The importers' invariant, of the key store by itself.
THEOREM StoreCorrect == StoreSpec => []StoreInv
<1>1. StoreInit => StoreInv
  BY StoreInitInv
<1>2. StoreInv /\ [StoreNext]_storeVars => StoreInv'
  BY StoreStep
<1> QED
  BY <1>1, <1>2, PTL DEF StoreSpec

\* A key that is in the store stays there with its value.
THEOREM KeysStay == StoreSpec => KeysNeverChange
<1>1. StoreInv /\ [StoreNext]_storeVars => [IsRestriction(store, store')]_store
  BY StoreStep
<1> QED
  BY <1>1, StoreCorrect, PTL DEF StoreSpec, KeysNeverChange

\* The keys of an import that returned are in the store.
THEOREM ImportsStay == StoreSpec => []ImportsAreKept
<1>1. StoreInv => ImportsAreKept
  BY DEF StoreInv
<1> QED
  BY <1>1, StoreCorrect, PTL

-----------------------------------------------------------------------------
(* RuntimeMode *)

\* Which calls can be where.
CallInv == \A t \in Threads :
    /\ point[t] \in {"file", "error"} => call[t] = "ensure_cached"
    /\ point[t] = "mode" => call[t] \in ResolverCalls
    /\ point[t] \in {"guard", "count", "denied", "casc"} => call[t] \in ResolverCalls \cup ProcessCalls
    /\ call[t] = "ensure_cached" => point[t] \notin {"idle", "count", "denied"}

\* ensure_cached goes on to the guard only after it found the mode local-casc.
PastModeInv == \A t \in Threads :
    call[t] = "ensure_cached" /\ point[t] \in {"guard", "casc"} => mode = {Local} /\ policy[t] = Local

DeniedThreads == {t \in Threads : point[t] = "denied"}

DoorInv == /\ DoorTypeOK /\ CallInv /\ PastModeInv
           /\ AccessIsLocal /\ ConfirmedIsFinal /\ DenialsAreCounted

\* The mode is fixed once.
ModeStands == mode # {} => mode' = mode

\* Initially nobody has asked for the mode.
LEMMA DoorInitInv == DoorInit => DoorInv
<1> SUFFICES ASSUME DoorInit PROVE DoorInv
  OBVIOUS
<1> USE DEF DoorInit
<1>1. DoorTypeOK
  BY DEF DoorTypeOK, Points, Calls, Modes, Outcomes, Hooks
<1>2. CallInv /\ PastModeInv /\ AccessIsLocal /\ ConfirmedIsFinal
  BY DEF CallInv, PastModeInv, AccessIsLocal, ConfirmedIsFinal
<1>3. {t \in Threads : point[t] = "denied"} = {}
  OBVIOUS
<1>4. DenialsAreCounted
  BY <1>3, FS_EmptySet DEF DenialsAreCounted
<1> QED
  BY <1>1, <1>2, <1>4 DEF DoorInv

\* What a thread that reads the mode finds, and leaves.
LEMMA ReadModeIs ==
    ASSUME DoorTypeOK, ConfirmedIsFinal, NEW t \in Threads, NEW m \in Modes, ReadMode(t, m)
    PROVE  /\ mode' \in SUBSET Modes /\ mode' \in {{}} \cup {{k} : k \in Modes}
           /\ ModeStands
           /\ m = Local => mode' = {Local} /\ policy[t] = Local
           /\ policy[t] = Extracted \/ Extracted \in mode => m = Extracted
<1> USE DEF DoorTypeOK, ConfirmedIsFinal, Modes, Local, Extracted
<1>1. CASE policy[t] = Extracted /\ m = Extracted /\ UNCHANGED mode
  BY <1>1 DEF ModeStands
<1>2. CASE policy[t] = Local /\ m \in mode /\ UNCHANGED mode
  BY <1>2 DEF ModeStands
<1>3. CASE policy[t] = Local /\ mode = {} /\ mode' = {m}
  BY <1>3 DEF ModeStands
<1> QED
  BY <1>1, <1>2, <1>3 DEF ReadMode

\* A step of one thread changes what the other threads do not depend on, as
\* long as the mode stands: the invariant's parts about threads need only be
\* shown of the thread that moved.
LEMMA ThreadStepKeeps ==
    ASSUME DoorInv, NEW t \in Threads, DoorTypeOK', ModeStands,
           \A u \in Threads : u # t =>
               point'[u] = point[u] /\ call'[u] = call[u] /\ policy'[u] = policy[u],
           point'[t] \in {"file", "error"} => call'[t] = "ensure_cached",
           point'[t] = "mode" => call'[t] \in ResolverCalls,
           point'[t] \in {"guard", "count", "denied", "casc"} => call'[t] \in ResolverCalls \cup ProcessCalls,
           call'[t] = "ensure_cached" => point'[t] \notin {"idle", "count", "denied"},
           call'[t] = "ensure_cached" /\ point'[t] \in {"guard", "casc"} => mode' = {Local} /\ policy'[t] = Local,
           point'[t] = "casc" => mode' = {Local} /\ policy'[t] = Local
    PROVE  CallInv' /\ PastModeInv' /\ AccessIsLocal'
<1> USE DEF DoorInv
<1>1. CallInv'
  BY DEF CallInv
<1>2. PastModeInv'
  BY DEF PastModeInv, ModeStands
<1>3. AccessIsLocal'
  BY DEF AccessIsLocal, ModeStands
<1> QED
  BY <1>1, <1>2, <1>3

\* What is denied and not yet reported, when a thread moves.
LEMMA DeniedChange ==
    ASSUME NEW t \in Threads, \A u \in Threads : u # t => point'[u] = point[u]
    PROVE  /\ Cardinality(DeniedThreads) \in Nat
           /\ (point[t] = "denied" <=> point'[t] = "denied") =>
                Cardinality(DeniedThreads') = Cardinality(DeniedThreads)
           /\ point[t] # "denied" /\ point'[t] = "denied" =>
                Cardinality(DeniedThreads') = Cardinality(DeniedThreads) + 1
           /\ point[t] = "denied" /\ point'[t] # "denied" =>
                Cardinality(DeniedThreads) = Cardinality(DeniedThreads') + 1
<1>1. IsFiniteSet(DeniedThreads) /\ IsFiniteSet(DeniedThreads')
  BY ThreadsAssumption, FS_Subset DEF DeniedThreads
<1>2. Cardinality(DeniedThreads) \in Nat /\ Cardinality(DeniedThreads') \in Nat
  BY <1>1, FS_CardinalityType
<1>3. ASSUME point[t] = "denied" <=> point'[t] = "denied"
      PROVE  DeniedThreads' = DeniedThreads
  BY <1>3 DEF DeniedThreads
<1>4. ASSUME point[t] # "denied", point'[t] = "denied"
      PROVE  DeniedThreads' = DeniedThreads \cup {t} /\ t \notin DeniedThreads
  BY <1>4 DEF DeniedThreads
<1>5. ASSUME point[t] = "denied", point'[t] # "denied"
      PROVE  DeniedThreads = DeniedThreads' \cup {t} /\ t \notin DeniedThreads'
  BY <1>5 DEF DeniedThreads
<1>6. ASSUME point[t] # "denied", point'[t] = "denied"
      PROVE  Cardinality(DeniedThreads') = Cardinality(DeniedThreads) + 1
  BY <1>1, <1>4, <1>6, FS_AddElement
<1>7. ASSUME point[t] = "denied", point'[t] # "denied"
      PROVE  Cardinality(DeniedThreads) = Cardinality(DeniedThreads') + 1
  BY <1>1, <1>5, <1>7, FS_AddElement
<1> QED
  BY <1>2, <1>3, <1>6, <1>7

\* How a thread's call goes on,
LEMMA GoIs ==
    ASSUME DoorTypeOK, NEW t \in Threads, NEW p \in Points, Go(t, p)
    PROVE  /\ point' \in [Threads -> Points] /\ point'[t] = p
           /\ UNCHANGED <<call, policy, chosen, outcome>>
           /\ \A u \in Threads : u # t => point'[u] = point[u]
BY DEF DoorTypeOK, Go

\* and ends.
LEMMA EndIs ==
    ASSUME DoorTypeOK, NEW t \in Threads, NEW o \in Outcomes, End(t, o)
    PROVE  /\ point' \in [Threads -> Points] /\ point'[t] = "idle"
           /\ call' \in [Threads -> Calls] /\ call'[t] = "none"
           /\ policy' \in [Threads -> Modes] /\ chosen' \in [Threads -> Modes]
           /\ outcome' \in [Threads -> Outcomes] /\ outcome'[t] = o
           /\ \A u \in Threads : u # t =>
                point'[u] = point[u] /\ call'[u] = call[u] /\ policy'[u] = policy[u]
<1>1. "idle" \in Points /\ "none" \in Calls /\ Local \in Modes
  BY DEF Points, Calls, Modes
<1> QED
  BY <1>1 DEF DoorTypeOK, End

\* What becomes of a thread whose guarded call failed.
LEMMA FailsIs ==
    ASSUME DoorTypeOK, CallInv, NEW t \in Threads, point[t] \in {"denied", "casc"}, Fails(t)
    PROVE  IF call[t] = "ensure_cached" THEN Go(t, "error") ELSE \E o \in Outcomes : End(t, o)
<1>1. call[t] \in ResolverCalls \cup ProcessCalls
  BY DEF CallInv
<1>2. CASE call[t] = "ensure_cached"
  BY <1>2 DEF Fails
<1>3. CASE call[t] \in {"resolve_bytes", "install"}
  <2>1. End(t, "omitted")
    BY <1>3 DEF Fails
  <2> QED
    BY <1>3, <2>1 DEF Outcomes
<1>4. CASE call[t] \in {"initialize", "direct", "open", "read"}
  <2>1. End(t, "Err")
    BY <1>4 DEF Fails
  <2> QED
    BY <1>4, <2>1 DEF Outcomes
<1> QED
  BY <1>1, <1>2, <1>3, <1>4 DEF ResolverCalls, ProcessCalls

\* A call that ends, when no denial is reported: the invariant stands if the
\* process does, but for its mode.
LEMMA EndKeepsInv ==
    ASSUME DoorInv, NEW t \in Threads, point[t] # "denied", NEW o \in Outcomes, End(t, o),
           mode' \in SUBSET Modes, mode' \in {{}} \cup {{m} : m \in Modes}, ModeStands,
           confirmed' \subseteq mode', confirmed' \subseteq Modes,
           UNCHANGED <<env, forbidden, hook, denials>>
    PROVE  DoorInv'
<1> USE DEF DoorInv
<1>1. /\ point' \in [Threads -> Points] /\ point'[t] = "idle"
      /\ call' \in [Threads -> Calls] /\ call'[t] = "none"
      /\ policy' \in [Threads -> Modes] /\ chosen' \in [Threads -> Modes]
      /\ outcome' \in [Threads -> Outcomes]
      /\ \A u \in Threads : u # t =>
           point'[u] = point[u] /\ call'[u] = call[u] /\ policy'[u] = policy[u]
  BY EndIs
<1>2. DoorTypeOK'
  BY <1>1 DEF DoorTypeOK
<1>3. CallInv' /\ PastModeInv' /\ AccessIsLocal'
  BY <1>1, <1>2, ThreadStepKeeps
<1>4. DenialsAreCounted'
  BY <1>1, <1>2, DeniedChange DEF DenialsAreCounted, DeniedThreads
<1> QED
  BY <1>2, <1>3, <1>4 DEF ConfirmedIsFinal

\* A call that goes on, neither denied before nor after.
LEMMA GoKeepsInv ==
    ASSUME DoorInv, NEW t \in Threads, NEW p \in Points, Go(t, p),
           mode' \in SUBSET Modes, mode' \in {{}} \cup {{m} : m \in Modes}, ModeStands,
           UNCHANGED <<env, hook, confirmed>>, forbidden' \in Nat, denials' \in Nat,
           DenialsAreCounted',
           p \in {"file", "error"} => call[t] = "ensure_cached",
           p = "mode" => call[t] \in ResolverCalls,
           p \in {"guard", "count", "denied", "casc"} => call[t] \in ResolverCalls \cup ProcessCalls,
           call[t] = "ensure_cached" => p \notin {"idle", "count", "denied"},
           call[t] = "ensure_cached" /\ p \in {"guard", "casc"} => mode' = {Local} /\ policy[t] = Local,
           p = "casc" => mode' = {Local} /\ policy[t] = Local
    PROVE  DoorInv'
<1> USE DEF DoorInv
<1>1. /\ point' \in [Threads -> Points] /\ point'[t] = p
      /\ UNCHANGED <<call, policy, chosen, outcome>>
      /\ \A u \in Threads : u # t => point'[u] = point[u]
  BY GoIs
<1>2. DoorTypeOK'
  BY <1>1 DEF DoorTypeOK
<1>3. CallInv' /\ PastModeInv' /\ AccessIsLocal'
  BY <1>1, <1>2, ThreadStepKeeps
<1>4. ConfirmedIsFinal'
  BY DEF ConfirmedIsFinal, ModeStands
<1> QED
  BY <1>2, <1>3, <1>4

\* The count of denials when a thread that has none to report goes elsewhere.
LEMMA GoKeepsCount ==
    ASSUME DoorInv, NEW t \in Threads, NEW p \in Points, Go(t, p),
           point[t] # "denied", p # "denied", UNCHANGED <<forbidden, denials>>
    PROVE  DenialsAreCounted'
<1> USE DEF DoorInv
<1>1. /\ point' \in [Threads -> Points] /\ point'[t] = p
      /\ \A u \in Threads : u # t => point'[u] = point[u]
  BY GoIs
<1>2. DeniedThreads' = DeniedThreads
  BY <1>1 DEF DeniedThreads
<1> QED
  BY <1>2 DEF DenialsAreCounted, DeniedThreads

\* A call of ensure_cached that ends in this step, in extracted-only, ends well.
MissesReport == \A t \in Threads :
    (/\ call[t] = "ensure_cached" /\ point'[t] = "idle"
     /\ policy[t] = Extracted \/ Extracted \in mode)
    => outcome'[t] \in {"Ok", "Err"}

\* Only a thread whose own point changed can have ended a call.
LEMMA OnlyMovedEnds ==
    ASSUME DoorInv, NEW t \in Threads, \A u \in Threads : u # t => point'[u] = point[u],
           (/\ call[t] = "ensure_cached" /\ point'[t] = "idle"
            /\ policy[t] = Extracted \/ Extracted \in mode)
           => outcome'[t] \in {"Ok", "Err"}
    PROVE  MissesReport
BY DEF DoorInv, CallInv, MissesReport

\* What has to be shown of every step.
Kept == DoorInv' /\ ModeStands /\ MissesReport

\* Panic keeps the invariant of the door.
LEMMA PanicKeeps ==
    ASSUME DoorInv, NEW t \in Threads, Panic(t)
    PROVE  Kept
<1> USE DEF DoorInv
<1>1. End(t, "panic") /\ "panic" \in Outcomes /\ point[t] # "denied" /\ UNCHANGED <<process, ghosts>>
  BY DEF Panic, Outcomes
<1>2. ModeStands
  BY <1>1 DEF process, ModeStands
<1>3. DoorInv'
  BY <1>1, <1>2, EndKeepsInv DEF process, ghosts, ConfirmedIsFinal, DoorTypeOK
<1>4. MissesReport
  <2>1. \A u \in Threads : u # t => point'[u] = point[u]
    BY <1>1, EndIs
  <2>2. ~(policy[t] = Extracted \/ Extracted \in mode)
    BY DEF Panic, Local, Extracted
  <2> QED
    BY <2>1, <2>2, OnlyMovedEnds
<1> QED
  BY <1>2, <1>3, <1>4 DEF Kept

\* Configure keeps the invariant of the door.
LEMMA ConfigureKeeps ==
    ASSUME DoorInv, NEW t \in Threads, Configure(t)
    PROVE  Kept
<1> USE DEF DoorInv
<1>1. UNCHANGED <<process, ghosts>> /\ point[t] = "idle" /\ ModeStands
  BY DEF Configure, process, ModeStands
<1>2. call[t] # "ensure_cached"
  BY <1>1 DEF CallInv
<1>3. CASE env = "invalid"
  <2>1. End(t, "Err") /\ "Err" \in Outcomes
    BY <1>3 DEF Configure, Outcomes
  <2>2. DoorInv'
    BY <1>1, <2>1, EndKeepsInv DEF process, ghosts, ConfirmedIsFinal, DoorTypeOK
  <2>3. MissesReport
    BY <1>2, <2>1, EndIs, OnlyMovedEnds
  <2> QED
    BY <1>1, <2>2, <2>3 DEF Kept
<1>4. CASE env # "invalid"
  <2>1. /\ point' = [point EXCEPT ![t] = "select"]
        /\ call' = [call EXCEPT ![t] = "configure"]
        /\ chosen' = [chosen EXCEPT ![t] = Parsed(env)]
        /\ outcome' = [outcome EXCEPT ![t] = "none"]
        /\ UNCHANGED policy
    BY <1>4 DEF Configure
  <2>2. Parsed(env) \in Modes
    BY <1>4 DEF DoorTypeOK, EnvValues, Modes, Parsed
  <2>3. DoorTypeOK'
    BY <1>1, <2>1, <2>2 DEF DoorTypeOK, process, ghosts, Points, Calls, Outcomes
  <2>4. /\ point'[t] = "select" /\ call'[t] = "configure"
        /\ \A u \in Threads : u # t =>
             point'[u] = point[u] /\ call'[u] = call[u] /\ policy'[u] = policy[u]
    BY <2>1 DEF DoorTypeOK
  <2>5. CallInv' /\ PastModeInv' /\ AccessIsLocal'
    BY <1>1, <2>3, <2>4, ThreadStepKeeps
  <2>6. DeniedThreads' = DeniedThreads
    BY <1>1, <2>4 DEF DeniedThreads
  <2>7. ConfirmedIsFinal' /\ DenialsAreCounted'
    BY <1>1, <2>6 DEF ConfirmedIsFinal, DenialsAreCounted, DeniedThreads, process, ghosts
  <2>8. MissesReport
    BY <2>4, OnlyMovedEnds
  <2> QED
    BY <1>1, <2>3, <2>5, <2>7, <2>8 DEF Kept
<1> QED
  BY <1>3, <1>4

\* Select keeps the invariant of the door.
LEMMA SelectKeeps ==
    ASSUME DoorInv, NEW t \in Threads, Select(t)
    PROVE  Kept
<1> USE DEF DoorInv
<1>1. /\ mode' = (IF mode = {} THEN {chosen[t]} ELSE mode) /\ chosen[t] \in Modes
      /\ point[t] = "select" /\ UNCHANGED <<env, forbidden, hook, denials>>
  BY DEF Select, DoorTypeOK
<1>2. ModeStands /\ mode' \in SUBSET Modes /\ mode' \in {{}} \cup {{m} : m \in Modes}
  BY <1>1 DEF ModeStands, ConfirmedIsFinal, DoorTypeOK
<1>3. PICK o \in Outcomes : End(t, o)
  BY DEF Select, Outcomes
<1>4. confirmed' \subseteq mode' /\ confirmed' \subseteq Modes
  BY <1>1, <1>2 DEF Select, ConfirmedIsFinal, ModeStands
<1>5. DoorInv'
  BY <1>1, <1>2, <1>3, <1>4, EndKeepsInv
<1>6. call[t] # "ensure_cached" \/ point'[t] # "idle" \/ outcome'[t] \in {"Ok", "Err"}
  BY EndIs DEF Select, Outcomes
<1>7. MissesReport
  BY <1>3, <1>6, EndIs, OnlyMovedEnds
<1> QED
  BY <1>2, <1>5, <1>7 DEF Kept

\* Program keeps the invariant of the door.
LEMMA ProgramKeeps ==
    ASSUME DoorInv, ProgramChanges
    PROVE  Kept
<1> USE DEF DoorInv
<1>1. UNCHANGED <<mode, forbidden, thread, ghosts>>
  BY DEF ProgramChanges, SetEnv, SetHook
<1>2. env' \in EnvValues /\ hook' \in Hooks
  BY DEF ProgramChanges, SetEnv, SetHook, DoorTypeOK
<1>3. DoorTypeOK'
  BY <1>1, <1>2 DEF DoorTypeOK, thread, ghosts
<1>4. CallInv' /\ PastModeInv' /\ AccessIsLocal' /\ ConfirmedIsFinal'
  BY <1>1 DEF CallInv, PastModeInv, AccessIsLocal, ConfirmedIsFinal, thread, ghosts
<1>5. DenialsAreCounted'
  BY <1>1 DEF DenialsAreCounted, thread, ghosts
<1>6. ModeStands /\ MissesReport
  BY <1>1 DEF ModeStands, MissesReport, CallInv, thread
<1> QED
  BY <1>3, <1>4, <1>5, <1>6 DEF Kept

\* Call keeps the invariant of the door.
LEMMA CallKeeps ==
    ASSUME DoorInv, NEW t \in Threads, NEW c \in ResolverCalls \cup ProcessCalls,
           NEW p \in Modes, Call(t, c, p)
    PROVE  Kept
<1> USE DEF DoorInv
<1> DEFINE first == CASE c = "ensure_cached" -> "file"
                      [] c \in {"resolve_bytes", "initialize"} -> "mode"
                      [] c \in ProcessCalls -> "guard"
<1>1. /\ UNCHANGED <<chosen, process, ghosts>> /\ point[t] = "idle"
      /\ point' = [point EXCEPT ![t] = first]
      /\ call' = [call EXCEPT ![t] = c]
      /\ policy' = [policy EXCEPT ![t] = p]
      /\ outcome' = [outcome EXCEPT ![t] = "none"]
  BY DEF Call
<1>2. \/ c = "ensure_cached" /\ first = "file"
      \/ c \in {"resolve_bytes", "initialize"} /\ c # "ensure_cached" /\ first = "mode"
      \/ c \in ProcessCalls /\ c # "ensure_cached" /\ first = "guard"
  <2>1. CASE c = "ensure_cached"
    BY <2>1 DEF ResolverCalls, ProcessCalls
  <2>2. CASE c \in {"resolve_bytes", "initialize"}
    BY <2>2 DEF ResolverCalls, ProcessCalls
  <2>3. CASE c \in ProcessCalls
    BY <2>3 DEF ResolverCalls, ProcessCalls
  <2> QED
    BY <2>1, <2>2, <2>3 DEF ResolverCalls
<1> HIDE DEF first
<1>3. ModeStands
  BY <1>1 DEF process, ModeStands
<1>4. /\ point'[t] = first /\ call'[t] = c
      /\ \A u \in Threads : u # t =>
           point'[u] = point[u] /\ call'[u] = call[u] /\ policy'[u] = policy[u]
  BY <1>1 DEF DoorTypeOK
<1>5. DoorTypeOK'
  <2>1. first \in Points /\ c \in Calls /\ "none" \in Outcomes
    BY <1>2 DEF Points, Calls, Outcomes
  <2> QED
    BY <1>1, <2>1 DEF DoorTypeOK, process, ghosts
<1>6. CallInv' /\ PastModeInv' /\ AccessIsLocal'
  BY <1>2, <1>3, <1>4, <1>5, ThreadStepKeeps DEF ResolverCalls
<1>7. DeniedThreads' = DeniedThreads
  BY <1>1, <1>2, <1>4 DEF DeniedThreads
<1>8. ConfirmedIsFinal' /\ DenialsAreCounted'
  BY <1>1, <1>7 DEF ConfirmedIsFinal, DenialsAreCounted, DeniedThreads, process, ghosts
<1>9. MissesReport
  BY <1>1, <1>4, OnlyMovedEnds DEF CallInv
<1> QED
  BY <1>3, <1>5, <1>6, <1>8, <1>9 DEF Kept

\* A thread that goes on ends nothing.
LEMMA GoReports ==
    ASSUME DoorInv, NEW t \in Threads, NEW p \in Points \ {"idle"}, Go(t, p)
    PROVE  MissesReport
<1>1. point'[t] = p /\ \A u \in Threads : u # t => point'[u] = point[u]
  BY GoIs DEF DoorInv
<1> QED
  BY <1>1, OnlyMovedEnds

\* LookForFile keeps the invariant of the door.
LEMMA LookForFileKeeps ==
    ASSUME DoorInv, NEW t \in Threads, LookForFile(t)
    PROVE  Kept
<1> USE DEF DoorInv
<1>1. UNCHANGED <<process, ghosts>> /\ point[t] = "file" /\ call[t] = "ensure_cached"
  BY DEF LookForFile, CallInv
<1>2. /\ ModeStands /\ mode' \in SUBSET Modes /\ mode' \in {{}} \cup {{m} : m \in Modes}
      /\ forbidden' \in Nat /\ denials' \in Nat
  BY <1>1 DEF process, ghosts, ModeStands, DoorTypeOK, ConfirmedIsFinal
<1>3. CASE End(t, "Ok")
  <2>1. DoorInv'
    BY <1>1, <1>2, <1>3, EndKeepsInv DEF process, ghosts, ConfirmedIsFinal, DoorTypeOK, Outcomes
  <2>2. MissesReport
    BY <1>3, EndIs, OnlyMovedEnds DEF Outcomes
  <2> QED
    BY <1>2, <2>1, <2>2 DEF Kept
<1>4. ASSUME NEW p \in {"error", "mode"}, Go(t, p)
      PROVE  Kept
  <2>1. p \in Points \ {"idle"} /\ p # "denied"
    BY DEF Points
  <2>2. DenialsAreCounted'
    BY <1>1, <1>4, <2>1, GoKeepsCount DEF process, ghosts
  <2>3. DoorInv'
    BY <1>1, <1>2, <1>4, <2>1, <2>2, GoKeepsInv DEF process, ghosts, ResolverCalls
  <2> QED
    BY <1>2, <1>4, <2>1, <2>3, GoReports DEF Kept
<1> QED
  BY <1>3, <1>4 DEF LookForFile

\* AskMode keeps the invariant of the door.
LEMMA AskModeKeeps ==
    ASSUME DoorInv, NEW t \in Threads, AskMode(t)
    PROVE  Kept
<1> USE DEF DoorInv
<1>1. UNCHANGED <<env, forbidden, hook, ghosts>> /\ point[t] = "mode" /\ call[t] \in ResolverCalls
  BY DEF AskMode, CallInv
<1>2. PICK m \in Modes :
        /\ ReadMode(t, m)
        /\ CASE m = Local \/ call[t] = "resolve_bytes" -> Go(t, "guard")
             [] m = Extracted /\ call[t] = "initialize" -> End(t, "Ok")
             [] m = Extracted /\ call[t] = "ensure_cached" -> Go(t, "error")
  BY DEF AskMode
<1>3. /\ ModeStands /\ mode' \in SUBSET Modes /\ mode' \in {{}} \cup {{k} : k \in Modes}
      /\ m = Local => mode' = {Local} /\ policy[t] = Local
  BY <1>2, ReadModeIs
<1>4. forbidden' \in Nat /\ denials' \in Nat /\ UNCHANGED <<forbidden, denials, confirmed>>
  BY <1>1 DEF ghosts, DoorTypeOK
<1>5. CASE m = Local \/ call[t] = "resolve_bytes"
  <2>1. Go(t, "guard") /\ "guard" \in Points \ {"idle"}
    BY <1>2, <1>5 DEF Points, Local, Extracted
  <2>2. DenialsAreCounted'
    BY <1>1, <1>4, <2>1, GoKeepsCount
  <2>3. call[t] = "ensure_cached" => m = Local
    BY <1>5
  <2>4. DoorInv'
    BY <1>1, <1>3, <1>4, <2>1, <2>2, <2>3, GoKeepsInv
  <2> QED
    BY <1>3, <2>1, <2>4, GoReports DEF Kept
<1>6. CASE m = Extracted /\ call[t] = "initialize"
  <2>1. End(t, "Ok") /\ "Ok" \in Outcomes
    BY <1>2, <1>6 DEF Outcomes, Local, Extracted
  <2>2. confirmed' \subseteq mode' /\ confirmed' \subseteq Modes
    BY <1>3, <1>4 DEF ConfirmedIsFinal, ModeStands
  <2>3. DoorInv'
    BY <1>1, <1>3, <1>4, <2>1, <2>2, EndKeepsInv
  <2>4. MissesReport
    BY <2>1, EndIs, OnlyMovedEnds
  <2> QED
    BY <1>3, <2>3, <2>4 DEF Kept
<1>7. CASE m = Extracted /\ call[t] = "ensure_cached"
  <2>1. Go(t, "error") /\ "error" \in Points \ {"idle"}
    BY <1>2, <1>7 DEF Points, Local, Extracted
  <2>2. DenialsAreCounted'
    BY <1>1, <1>4, <2>1, GoKeepsCount
  <2>3. DoorInv'
    BY <1>1, <1>3, <1>4, <1>7, <2>1, <2>2, GoKeepsInv
  <2> QED
    BY <1>3, <2>1, <2>3, GoReports DEF Kept
<1> QED
  BY <1>1, <1>5, <1>6, <1>7 DEF ResolverCalls, Modes

\* Guard keeps the invariant of the door.
LEMMA GuardKeeps ==
    ASSUME DoorInv, NEW t \in Threads, Guard(t)
    PROVE  Kept
<1> USE DEF DoorInv
<1>1. /\ UNCHANGED <<env, forbidden, hook, ghosts>> /\ point[t] = "guard"
      /\ call[t] \in ResolverCalls \cup ProcessCalls
  BY DEF Guard, CallInv
<1>2. PICK m \in Modes : ReadMode(t, m) /\ Go(t, IF m = Local THEN "casc" ELSE "count")
  BY DEF Guard
<1>3. /\ ModeStands /\ mode' \in SUBSET Modes /\ mode' \in {{}} \cup {{k} : k \in Modes}
      /\ m = Local => mode' = {Local} /\ policy[t] = Local
      /\ policy[t] = Extracted \/ Extracted \in mode => m = Extracted
  BY <1>2, ReadModeIs
<1>4. call[t] = "ensure_cached" => m = Local
  <2> SUFFICES ASSUME call[t] = "ensure_cached" PROVE m = Local
    OBVIOUS
  <2>1. mode = {Local} /\ policy[t] = Local
    BY <1>1 DEF PastModeInv
  <2> QED
    BY <1>2, <2>1 DEF ReadMode, Local, Extracted
<1>5. forbidden' \in Nat /\ denials' \in Nat /\ UNCHANGED <<forbidden, denials, confirmed>>
  BY <1>1 DEF ghosts, DoorTypeOK
<1> DEFINE p == IF m = Local THEN "casc" ELSE "count"
<1>6. p \in Points \ {"idle"} /\ p # "denied" /\ (p = "casc" <=> m = Local) /\ p \in {"casc", "count"}
  BY DEF Points
<1>7. Go(t, p)
  BY <1>2
<1> HIDE DEF p
<1>8. DenialsAreCounted'
  BY <1>1, <1>5, <1>6, <1>7, GoKeepsCount
<1>9. DoorInv'
  BY <1>1, <1>3, <1>4, <1>5, <1>6, <1>7, <1>8, GoKeepsInv
<1> QED
  BY <1>3, <1>6, <1>7, <1>9, GoReports DEF Kept

\* Count keeps the invariant of the door.
LEMMA CountKeeps ==
    ASSUME DoorInv, NEW t \in Threads, Count(t)
    PROVE  Kept
<1> USE DEF DoorInv
<1>1. /\ UNCHANGED <<env, mode, hook, ghosts>> /\ point[t] = "count"
      /\ Go(t, "denied") /\ forbidden' = forbidden + 1
      /\ call[t] \in ResolverCalls \cup ProcessCalls /\ call[t] # "ensure_cached"
  BY DEF Count, CallInv
<1>2. ModeStands /\ mode' \in SUBSET Modes /\ mode' \in {{}} \cup {{m} : m \in Modes}
  BY <1>1 DEF ModeStands, DoorTypeOK, ConfirmedIsFinal
<1>3. "denied" \in Points \ {"idle"}
  BY DEF Points
<1>4. forbidden \in Nat /\ denials \in Nat /\ forbidden' \in Nat /\ denials' = denials /\ confirmed' = confirmed
  BY <1>1 DEF DoorTypeOK, ghosts
<1>5. DenialsAreCounted'
  <2>1. point'[t] = "denied" /\ \A u \in Threads : u # t => point'[u] = point[u]
    BY <1>1, <1>3, GoIs
  <2>2. /\ Cardinality(DeniedThreads') = Cardinality(DeniedThreads) + 1
        /\ Cardinality(DeniedThreads) \in Nat
    BY <1>1, <2>1, DeniedChange
  <2>3. forbidden = denials + Cardinality(DeniedThreads)
    BY DEF DenialsAreCounted, DeniedThreads
  <2>4. forbidden' = denials' + Cardinality(DeniedThreads')
    BY <1>1, <1>4, <2>2, <2>3
  <2> QED
    BY <2>4 DEF DenialsAreCounted, DeniedThreads
<1>6. DoorInv'
  BY <1>1, <1>2, <1>3, <1>4, <1>5, GoKeepsInv
<1> QED
  BY <1>1, <1>2, <1>3, <1>6, GoReports DEF Kept

\* Denied keeps the invariant of the door.
LEMMA DeniedKeeps ==
    ASSUME DoorInv, NEW t \in Threads, Denied(t)
    PROVE  Kept
<1> USE DEF DoorInv
<1>1. /\ UNCHANGED <<process, confirmed>> /\ point[t] = "denied" /\ denials' = denials + 1
      /\ call[t] # "ensure_cached"
  BY DEF Denied, CallInv
<1>2. PICK o \in Outcomes : End(t, o)
  <2>1. CASE End(t, "panic")
    BY <2>1 DEF Outcomes
  <2>2. CASE Fails(t)
    BY <1>1, <2>2, FailsIs
  <2> QED
    BY <2>1, <2>2 DEF Denied
<1>3. /\ point' \in [Threads -> Points] /\ point'[t] = "idle"
      /\ call' \in [Threads -> Calls] /\ call'[t] = "none"
      /\ policy' \in [Threads -> Modes] /\ chosen' \in [Threads -> Modes]
      /\ outcome' \in [Threads -> Outcomes]
      /\ \A u \in Threads : u # t =>
           point'[u] = point[u] /\ call'[u] = call[u] /\ policy'[u] = policy[u]
  BY <1>2, EndIs
<1>4. ModeStands
  BY <1>1 DEF ModeStands, process
<1>5. DoorTypeOK'
  BY <1>1, <1>3 DEF DoorTypeOK, process
<1>6. CallInv' /\ PastModeInv' /\ AccessIsLocal'
  BY <1>3, <1>4, <1>5, ThreadStepKeeps
<1>7. ConfirmedIsFinal'
  BY <1>1 DEF ConfirmedIsFinal, process
<1>8. DenialsAreCounted'
  <2>1. /\ Cardinality(DeniedThreads) = Cardinality(DeniedThreads') + 1
    BY <1>1, <1>3, DeniedChange
  <2>2. IsFiniteSet(DeniedThreads') /\ Cardinality(DeniedThreads') \in Nat
    BY ThreadsAssumption, FS_Subset, FS_CardinalityType DEF DeniedThreads
  <2>3. forbidden = denials + Cardinality(DeniedThreads) /\ forbidden' = forbidden
    BY <1>1 DEF DenialsAreCounted, DeniedThreads, process
  <2>4. denials \in Nat /\ forbidden \in Nat
    BY DEF DoorTypeOK
  <2>5. forbidden' = denials' + Cardinality(DeniedThreads')
    BY <1>1, <2>1, <2>2, <2>3, <2>4
  <2> QED
    BY <2>5 DEF DenialsAreCounted, DeniedThreads
<1>9. MissesReport
  BY <1>1, <1>3, OnlyMovedEnds
<1> QED
  BY <1>4, <1>5, <1>6, <1>7, <1>8, <1>9 DEF Kept

\* Access keeps the invariant of the door.
LEMMA AccessKeeps ==
    ASSUME DoorInv, NEW t \in Threads, NEW r \in {"Ok", "Err"}, Access(t, r)
    PROVE  Kept
<1> USE DEF DoorInv
<1>1. UNCHANGED <<process, ghosts>> /\ point[t] = "casc"
  BY DEF Access
<1>2. mode = {Local} /\ policy[t] = Local
  BY <1>1 DEF AccessIsLocal
<1>3. /\ ModeStands /\ mode' \in SUBSET Modes /\ mode' \in {{}} \cup {{m} : m \in Modes}
      /\ forbidden' \in Nat /\ denials' \in Nat
  BY <1>1 DEF process, ghosts, ModeStands, DoorTypeOK, ConfirmedIsFinal
<1>4. ASSUME NEW o \in Outcomes, End(t, o)
      PROVE  Kept
  <2>1. DoorInv'
    BY <1>1, <1>3, <1>4, EndKeepsInv DEF process, ghosts, ConfirmedIsFinal, DoorTypeOK
  <2>2. MissesReport
    BY <1>2, <1>4, EndIs, OnlyMovedEnds DEF Local, Extracted
  <2> QED
    BY <1>3, <2>1, <2>2 DEF Kept
<1>5. CASE Go(t, "error") /\ call[t] = "ensure_cached"
  <2>1. "error" \in Points \ {"idle"}
    BY DEF Points
  <2>2. DenialsAreCounted'
    BY <1>1, <1>5, <2>1, GoKeepsCount DEF process, ghosts
  <2>3. DoorInv'
    BY <1>1, <1>3, <1>5, <2>1, <2>2, GoKeepsInv DEF process, ghosts
  <2> QED
    BY <1>3, <1>5, <2>1, <2>3, GoReports DEF Kept
<1>6. CASE End(t, "Ok")
  BY <1>4, <1>6 DEF Outcomes
<1>7. CASE Fails(t)
  BY <1>1, <1>4, <1>5, <1>7, FailsIs
<1> QED
  BY <1>6, <1>7 DEF Access

\* ErrorArm keeps the invariant of the door.
LEMMA ErrorArmKeeps ==
    ASSUME DoorInv, NEW t \in Threads, ErrorArm(t)
    PROVE  Kept
<1> USE DEF DoorInv
<1>1. UNCHANGED <<env, forbidden, hook, ghosts>> /\ point[t] = "error"
  BY DEF ErrorArm
<1>2. PICK m \in Modes : ReadMode(t, m) /\ End(t, IF m = Extracted THEN "Err" ELSE "omitted")
  BY DEF ErrorArm
<1>3. /\ ModeStands /\ mode' \in SUBSET Modes /\ mode' \in {{}} \cup {{k} : k \in Modes}
      /\ policy[t] = Extracted \/ Extracted \in mode => m = Extracted
  BY <1>2, ReadModeIs
<1>4. PICK o \in Outcomes : End(t, o) /\ (m = Extracted => o = "Err")
  BY <1>2 DEF Outcomes
<1>5. confirmed' \subseteq mode' /\ confirmed' \subseteq Modes /\ UNCHANGED denials
  BY <1>1, <1>3 DEF ConfirmedIsFinal, ModeStands, ghosts
<1>6. DoorInv'
  BY <1>1, <1>3, <1>4, <1>5, EndKeepsInv
<1>7. MissesReport
  BY <1>3, <1>4, EndIs, OnlyMovedEnds
<1> QED
  BY <1>3, <1>6, <1>7 DEF Kept

\* Every step of the threads and of the program keeps what has to be kept.
LEMMA DoorStep ==
    ASSUME DoorInv, [DoorNext]_doorVars
    PROVE  Kept
<1>1. CASE UNCHANGED doorVars
  <2>1. DoorInv'
    BY <1>1 DEF DoorInv, DoorTypeOK, CallInv, PastModeInv, AccessIsLocal, ConfirmedIsFinal,
                DenialsAreCounted, doorVars, process, thread, ghosts
  <2>2. ModeStands /\ MissesReport
    BY <1>1 DEF DoorInv, CallInv, ModeStands, MissesReport, doorVars, process, thread
  <2> QED
    BY <2>1, <2>2 DEF Kept
<1>2. ASSUME NEW t \in Threads, CallAny(t)
      PROVE  Kept
  <2>1. Local \in Modes
    BY DEF Modes
  <2> QED
    BY <1>2, <2>1, ConfigureKeeps, CallKeeps DEF CallAny
<1>3. ASSUME NEW t \in Threads, DoorSteps(t)
      PROVE  Kept
  BY <1>3, SelectKeeps, LookForFileKeeps, AskModeKeeps, PanicKeeps, GuardKeeps, CountKeeps,
     DeniedKeeps, ErrorArmKeeps DEF DoorSteps
<1>4. ASSUME NEW t \in Threads, NEW o \in {"Ok", "Err"}, Access(t, o)
      PROVE  Kept
  BY <1>4, AccessKeeps
<1> QED
  BY <1>1, <1>2, <1>3, <1>4, ProgramKeeps DEF DoorNext

\* The invariant of the runtime mode by itself.
THEOREM DoorCorrect == DoorSpec => []DoorInv
<1>1. DoorInit => DoorInv
  BY DoorInitInv
<1>2. DoorInv /\ [DoorNext]_doorVars => DoorInv'
  BY DoorStep DEF Kept
<1> QED
  BY <1>1, <1>2, PTL DEF DoorSpec

\* CASC is accessed only in a process that is local-casc, by such resolvers.
THEOREM OnlyLocalAccess == DoorSpec => []AccessIsLocal
<1>1. DoorInv => AccessIsLocal
  BY DEF DoorInv
<1> QED
  BY <1>1, DoorCorrect, PTL

\* A mode that was confirmed is the mode of the process.
THEOREM ConfirmationsStand == DoorSpec => []ConfirmedIsFinal
<1>1. DoorInv => ConfirmedIsFinal
  BY DEF DoorInv
<1> QED
  BY <1>1, DoorCorrect, PTL

\* The counter is never behind the denials.
THEOREM DenialsCount == DoorSpec => []DenialsAreCounted
<1>1. DoorInv => DenialsAreCounted
  BY DEF DoorInv
<1> QED
  BY <1>1, DoorCorrect, PTL

\* ensure_cached in extracted-only ends with a path or the checked error.
THEOREM MissesAreReported == DoorSpec => ExtractedMissesReport
<1>1. DoorInv /\ [DoorNext]_doorVars => [MissesReport]_doorVars
  BY DoorStep DEF Kept
<1>2. [MissesReport]_doorVars =>
        [\A t \in Threads :
            (/\ call[t] = "ensure_cached" /\ point'[t] = "idle"
             /\ policy[t] = Extracted \/ Extracted \in mode)
            => outcome'[t] \in {"Ok", "Err"}]_doorVars
  BY DEF MissesReport
<1> QED
  BY <1>1, <1>2, DoorCorrect, PTL DEF DoorSpec, ExtractedMissesReport

-----------------------------------------------------------------------------
(* FrozenArchive *)

\* A call that begins or goes on in the composition does so in the component.
LEMMA CallsAreDoorSteps ==
    ASSUME NEW t \in Threads, CallBegins(t) \/ CallSteps(t)
    PROVE  DoorNext
<1>1. Local \in Modes /\ {"open", "read", "install", "direct"} = ProcessCalls
  BY DEF Modes, ProcessCalls
<1>2. CASE CallBegins(t)
  <2>1. CallAny(t)
    BY <1>1, <1>2 DEF CallBegins, CallAny, Open, Read
  <2> QED
    BY <2>1 DEF DoorNext
<1>3. CASE CallSteps(t)
  <2>1. DoorSteps(t) \/ \E o \in {"Ok", "Err"} : Access(t, o)
    BY <1>3 DEF CallSteps, LoadKeys, OpenWithoutKeys, OpenFails, ReadBytes, OtherAccess
  <2> QED
    BY <2>1 DEF DoorNext
<1> QED
  BY <1>2, <1>3

\* Each step of the composition is one of the store, or leaves it alone,
LEMMA StepsOfStore == [Next]_vars => [StoreNext]_storeVars
<1>1. UNCHANGED vars => UNCHANGED storeVars
  BY DEF vars
<1>2. CallNext \/ ProgramNext => UNCHANGED storeVars
  BY DEF CallNext, ProgramNext
<1>3. ImportNext => StoreNext
  BY DEF ImportNext, StoreNext
<1> QED
  BY <1>1, <1>2, <1>3 DEF Next

\* and one of the runtime mode, or leaves that alone.
LEMMA StepsOfDoor == [Next]_vars => [DoorNext]_doorVars
<1>1. UNCHANGED vars => UNCHANGED doorVars
  BY DEF vars
<1>2. CallNext => DoorNext
  BY CallsAreDoorSteps DEF CallNext
<1>3. ImportNext => UNCHANGED doorVars
  BY DEF ImportNext
<1>4. ProgramNext => DoorNext
  BY DEF ProgramNext, DoorNext
<1> QED
  BY <1>1, <1>2, <1>3, <1>4 DEF Next

\* The composition implements the key store, which readers do not disturb,
THEOREM ImplementsStore == Spec => StoreSpec
<1>1. Init => StoreInit
  BY DEF Init
<1> QED
  BY <1>1, StepsOfStore, PTL DEF Spec, StoreSpec

\* and the runtime mode of its process.
THEOREM ImplementsDoor == Spec => DoorSpec
<1>1. Init => DoorInit
  BY DEF Init
<1> QED
  BY <1>1, StepsOfDoor, PTL DEF Spec, DoorSpec

\* What a call to open relies on had been imported.
FloorInv == \A t \in Threads : floor[t] \subseteq imported

FrozenInv == FrozenTypeOK /\ FloorInv /\ ReadersHoldImports

\* Imports that returned stay imported.
LEMMA ImportedGrows == [StoreNext]_storeVars => imported \subseteq imported'
BY DEF StoreNext, storeVars, ImporterStep, Harvest, Lock, ReadStore, RefuseConflict,
       WriteTemporary, Replace, Return, Abandon

\* How a step changes the readers: it opens one, has opened it with the keys of
\* the store or with none, or does neither.
ReadersChange ==
    \/ UNCHANGED frozenVars
    \/ \E t \in Threads :
        /\ reader' = [reader EXCEPT ![t] = {}]
        /\ floor' = [floor EXCEPT ![t] = imported]
    \/ \E t \in Threads :
        /\ store # NoKeys
        /\ reader' = [reader EXCEPT ![t] = {store}]
        /\ UNCHANGED floor
    \/ \E t \in Threads :
        /\ reader' = [reader EXCEPT ![t] = {NoKeys}]
        /\ floor' = [floor EXCEPT ![t] = {}]

\* Every step keeps what open readers know.
LEMMA ReadersStep == [Next]_vars => ReadersChange
<1>1. UNCHANGED vars \/ ImportNext \/ ProgramNext => UNCHANGED frozenVars
  BY DEF vars, ImportNext, ProgramNext
<1>2. ASSUME NEW t \in Threads, CallBegins(t)
      PROVE  ReadersChange
  BY <1>2 DEF CallBegins, Open, Read, ReadersChange
<1>3. ASSUME NEW t \in Threads, CallSteps(t)
      PROVE  ReadersChange
  BY <1>3 DEF CallSteps, LoadKeys, OpenWithoutKeys, OpenFails, ReadBytes, OtherAccess, ReadersChange
<1> QED
  BY <1>1, <1>2, <1>3 DEF Next, CallNext, ReadersChange

\* The bounds are kept.
LEMMA BoundsStep ==
    ASSUME FrozenTypeOK, [Next]_vars
    PROVE  work' \in 0..MaxWork /\ changes' \in 0..MaxChanges
<1>1. work \in 0..MaxWork /\ changes \in 0..MaxChanges
  BY DEF FrozenTypeOK
<1>2. /\ work' = work \/ (work < MaxWork /\ work' = work + 1)
      /\ changes' = changes \/ (changes < MaxChanges /\ changes' = changes + 1)
  <2>1. CASE UNCHANGED vars
    BY <2>1 DEF vars, bounds
  <2>2. CASE CallNext
    BY <2>2 DEF CallNext
  <2>3. CASE ImportNext
    BY <2>3 DEF ImportNext
  <2>4. CASE ProgramNext
    BY <2>4 DEF ProgramNext
  <2> QED
    BY <2>1, <2>2, <2>3, <2>4 DEF Next
<1> QED
  BY <1>1, <1>2, BoundsAssumption

\* A step of the composition is one of a call, an import or the program.
LEMMA FrozenStep ==
    ASSUME StoreInv, FrozenInv, [Next]_vars
    PROVE  FrozenInv'
<1>1. /\ StoreInv' /\ IsRestriction(store, store') /\ imported \subseteq imported'
  BY StepsOfStore, StoreStep, ImportedGrows
<1>2. /\ store \in Stores /\ imported \subseteq Stores
      /\ \A keys \in imported : IsRestriction(keys, store)
  BY DEF StoreInv, StoreTypeOK, ImportsAreKept
<1>3. work' \in 0..MaxWork /\ changes' \in 0..MaxChanges
  BY BoundsStep DEF FrozenInv
<1>4. reader \in [Threads -> SUBSET Stores] /\ floor \in [Threads -> SUBSET Stores]
  BY DEF FrozenInv, FrozenTypeOK
<1>5. \A t \in Threads : floor[t] \subseteq imported
  BY DEF FrozenInv, FloorInv
<1>6. \A t \in Threads : \A keys \in reader[t] :
        IsRestriction(keys, store') /\ \A added \in floor[t] : IsRestriction(added, keys)
  <2> SUFFICES ASSUME NEW t \in Threads, NEW keys \in reader[t]
               PROVE  IsRestriction(keys, store') /\ \A added \in floor[t] : IsRestriction(added, keys)
    OBVIOUS
  <2>1. IsRestriction(keys, store) /\ \A added \in floor[t] : IsRestriction(added, keys)
    BY DEF FrozenInv, ReadersHoldImports
  <2>2. IsRestriction(keys, store')
    BY <1>1, <2>1, RestrictionTransitive
  <2> QED
    BY <2>1, <2>2
<1>7. CASE UNCHANGED frozenVars
  <2>1. reader' = reader /\ floor' = floor
    BY <1>7 DEF frozenVars
  <2>2. FrozenTypeOK'
    BY <1>3, <1>4, <2>1 DEF FrozenTypeOK
  <2>3. FloorInv'
    BY <1>1, <1>5, <2>1 DEF FloorInv
  <2>4. ReadersHoldImports'
    BY <1>6, <2>1 DEF ReadersHoldImports
  <2> QED
    BY <2>2, <2>3, <2>4 DEF FrozenInv
<1>8. ASSUME NEW t \in Threads, reader' = [reader EXCEPT ![t] = {}],
             floor' = [floor EXCEPT ![t] = imported]
      PROVE  FrozenInv'
  <2>1. FrozenTypeOK'
    BY <1>2, <1>3, <1>4, <1>8 DEF FrozenTypeOK
  <2>2. FloorInv'
    BY <1>1, <1>4, <1>5, <1>8 DEF FloorInv
  <2>3. ReadersHoldImports'
    <3> SUFFICES ASSUME NEW u \in Threads, NEW keys \in reader'[u]
                 PROVE  /\ IsRestriction(keys, store')
                        /\ \A added \in floor'[u] : IsRestriction(added, keys)
      BY DEF ReadersHoldImports
    <3>1. u # t /\ reader'[u] = reader[u] /\ floor'[u] = floor[u]
      BY <1>4, <1>8
    <3> QED
      BY <1>6, <3>1
  <2> QED
    BY <2>1, <2>2, <2>3 DEF FrozenInv
<1>9. ASSUME NEW t \in Threads, reader' = [reader EXCEPT ![t] = {store}], UNCHANGED floor
      PROVE  FrozenInv'
  <2>1. FrozenTypeOK'
    BY <1>2, <1>3, <1>4, <1>9 DEF FrozenTypeOK
  <2>2. FloorInv'
    BY <1>1, <1>5, <1>9 DEF FloorInv
  <2>3. ReadersHoldImports'
    <3> SUFFICES ASSUME NEW u \in Threads, NEW keys \in reader'[u]
                 PROVE  /\ IsRestriction(keys, store')
                        /\ \A added \in floor[u] : IsRestriction(added, keys)
      BY <1>9 DEF ReadersHoldImports
    <3>1. CASE u = t
      <4>1. keys = store
        BY <1>4, <1>9, <3>1
      <4> QED
        BY <1>1, <1>2, <1>5, <4>1
    <3>2. CASE u # t
      <4>1. keys \in reader[u]
        BY <1>4, <1>9, <3>2
      <4> QED
        BY <1>6, <4>1
    <3> QED
      BY <3>1, <3>2
  <2> QED
    BY <2>1, <2>2, <2>3 DEF FrozenInv
<1>10. ASSUME NEW t \in Threads, reader' = [reader EXCEPT ![t] = {NoKeys}],
              floor' = [floor EXCEPT ![t] = {}]
       PROVE  FrozenInv'
  <2>1. FrozenTypeOK'
    BY <1>3, <1>4, <1>10, NoKeysAreKeys DEF FrozenTypeOK
  <2>2. FloorInv'
    BY <1>1, <1>4, <1>5, <1>10 DEF FloorInv
  <2>3. ReadersHoldImports'
    <3> SUFFICES ASSUME NEW u \in Threads, NEW keys \in reader'[u]
                 PROVE  /\ IsRestriction(keys, store')
                        /\ \A added \in floor'[u] : IsRestriction(added, keys)
      BY DEF ReadersHoldImports
    <3>1. CASE u = t
      BY <1>4, <1>10, <3>1, NoKeysAreKeys
    <3>2. CASE u # t
      BY <1>4, <1>6, <1>10, <3>2
    <3> QED
      BY <3>1, <3>2
  <2> QED
    BY <2>1, <2>2, <2>3 DEF FrozenInv
<1> QED
  BY <1>7, <1>8, <1>9, <1>10, ReadersStep DEF ReadersChange

\* Initially no archive is open.
LEMMA FrozenInitInv == Init => FrozenInv
<1> SUFFICES ASSUME Init PROVE FrozenInv
  OBVIOUS
<1>1. FrozenTypeOK
  BY BoundsAssumption DEF Init, FrozenTypeOK
<1>2. FloorInv /\ ReadersHoldImports
  BY DEF Init, FloorInv, ReadersHoldImports
<1> QED
  BY <1>1, <1>2 DEF FrozenInv

\* An open reader that was given the store has what was imported when it was
\* opened, and none has anything that the store does not have.
THEOREM ReadersAreCurrent == Spec => []ReadersHoldImports
<1>1. Init => FrozenInv
  BY FrozenInitInv
<1>2. StoreInv /\ FrozenInv /\ [Next]_vars => FrozenInv'
  BY FrozenStep
<1>3. FrozenInv => ReadersHoldImports
  BY DEF FrozenInv
<1> QED
  BY <1>1, <1>2, <1>3, ImplementsStore, StoreCorrect, PTL DEF Spec

\* The state of the composition is of the expected kind.
THEOREM TypeCorrect == Spec => []TypeOK
<1>1. Init => FrozenInv
  BY FrozenInitInv
<1>2. StoreInv /\ FrozenInv /\ [Next]_vars => FrozenInv'
  BY FrozenStep
<1>3. StoreInv /\ DoorInv /\ FrozenInv => TypeOK
  BY DEF StoreInv, DoorInv, FrozenInv, TypeOK
<1> QED
  BY <1>1, <1>2, <1>3, ImplementsStore, StoreCorrect, ImplementsDoor, DoorCorrect, PTL DEF Spec

\* What was proved of the components holds where they meet.
THEOREM ComponentsHold ==
    Spec => /\ KeysNeverChange /\ []ImportsAreKept
            /\ []AccessIsLocal /\ []ConfirmedIsFinal /\ []DenialsAreCounted
            /\ ExtractedMissesReport
BY ImplementsStore, KeysStay, ImportsStay, ImplementsDoor, OnlyLocalAccess, ConfirmationsStand,
   DenialsCount, MissesAreReported, PTL
-----------------------------------------------------------------------------
(* The ledger *)

\* What an importer is about to write is the store as it is with its addition,
\* which is what a run may add.
WholeAdditions == \A i \in Importers :
    /\ at[i] # "idle" => addition[i] \in Additions
    /\ at[i] \in {"write", "replace"} =>
         ~Conflict(addition[i], store) /\ draft[i] = Merge(store, addition[i])

\* What a step does to the store and to what is reported of it: nothing, or one
\* whole addition, or the report of an addition that is there.
StoreChange ==
    \/ UNCHANGED <<store, imported>>
    \/ \E new \in Additions :
        ~Conflict(new, store) /\ store' = Merge(store, new) /\ UNCHANGED imported
    \/ \E new \in Additions :
        IsRestriction(new, store) /\ imported' = imported \cup {new} /\ UNCHANGED store

\* A step that leaves the store alone keeps the additions of those it does not
\* move.
LEMMA OthersKeepAdditions ==
    ASSUME StoreInv, WholeAdditions, NEW i \in Importers, UNCHANGED store,
           \A j \in Importers \ {i} :
               at'[j] = at[j] /\ addition'[j] = addition[j] /\ draft'[j] = draft[j],
           at'[i] # "idle" => addition'[i] \in Additions,
           at'[i] \in {"write", "replace"} =>
               ~Conflict(addition'[i], store) /\ draft'[i] = Merge(store, addition'[i])
    PROVE  WholeAdditions'
BY DEF WholeAdditions

\* An importer that has read the store has drafted the store with its addition.
LEMMA ReadStoreDrafts ==
    ASSUME StoreInv, WholeAdditions, NEW i \in Importers, ReadStore(i)
    PROVE  WholeAdditions'
<1>1. /\ at[i] = "read" /\ UNCHANGED <<store, addition>>
      /\ draft'[i] = Merge(store, addition[i]) /\ ~Conflict(addition[i], store)
      /\ \A j \in Importers \ {i} : at'[j] = at[j] /\ draft'[j] = draft[j]
  BY DEF ReadStore, Move, StoreInv, StoreTypeOK
<1>2. addition[i] \in Additions
  BY <1>1 DEF WholeAdditions
<1> QED
  BY <1>1, <1>2, OthersKeepAdditions

\* Where the store is replaced nobody else has a draft.
LEMMA ReplaceAdds ==
    ASSUME StoreInv, WholeAdditions, NEW i \in Importers, Replace(i)
    PROVE  WholeAdditions' /\ StoreChange
<1>1. /\ at[i] = "replace" /\ store' = draft[i] /\ UNCHANGED <<addition, draft, imported>>
      /\ at'[i] = "return" /\ \A j \in Importers \ {i} : at'[j] = at[j]
  BY DEF Replace, Move, StoreInv, StoreTypeOK
<1>2. \A j \in Importers \ {i} : at[j] \notin {"write", "replace"}
  BY <1>1 DEF StoreInv, LockInv, Holding
<1>3. WholeAdditions'
  BY <1>1, <1>2 DEF WholeAdditions
<1>4. StoreChange
  BY <1>1 DEF WholeAdditions, StoreChange
<1> QED
  BY <1>3, <1>4

\* Whoever leaves has no draft.
LEMMA LeaveKeepsAdditions ==
    ASSUME StoreInv, WholeAdditions, NEW i \in Importers, Leave(i), UNCHANGED store
    PROVE  WholeAdditions'
<1>1. /\ at'[i] = "idle"
      /\ \A j \in Importers \ {i} :
            at'[j] = at[j] /\ addition'[j] = addition[j] /\ draft'[j] = draft[j]
  BY DEF Leave, Move, StoreInv, StoreTypeOK
<1> QED
  BY <1>1, OthersKeepAdditions

\* Every step of the importers keeps additions whole, and changes the store by
\* one of them at most.
LEMMA AdditionStep ==
    ASSUME StoreInv, WholeAdditions, [StoreNext]_storeVars
    PROVE  WholeAdditions' /\ StoreChange
<1>1. CASE UNCHANGED storeVars
  BY <1>1 DEF storeVars, WholeAdditions, StoreChange
<1>2. ASSUME NEW i \in Importers, NEW keys \in Additions, Harvest(i, keys)
      PROVE  WholeAdditions' /\ StoreChange
  <2>1. /\ at'[i] = "lock" /\ addition'[i] = keys /\ UNCHANGED <<store, draft, imported>>
        /\ \A j \in Importers \ {i} : at'[j] = at[j] /\ addition'[j] = addition[j]
    BY <1>2 DEF Harvest, Move, StoreInv, StoreTypeOK
  <2>2. WholeAdditions'
    BY <2>1, OthersKeepAdditions
  <2> QED
    BY <2>1, <2>2 DEF StoreChange
<1>3. ASSUME NEW i \in Importers, Lock(i)
      PROVE  WholeAdditions' /\ StoreChange
  <2>1. /\ at[i] = "lock" /\ at'[i] = "read" /\ UNCHANGED <<store, addition, draft, imported>>
        /\ \A j \in Importers \ {i} : at'[j] = at[j]
    BY <1>3 DEF Lock, Move, StoreInv, StoreTypeOK
  <2>2. addition[i] \in Additions
    BY <2>1 DEF WholeAdditions
  <2>3. WholeAdditions'
    BY <2>1, <2>2, OthersKeepAdditions
  <2> QED
    BY <2>1, <2>3 DEF StoreChange
<1>4. ASSUME NEW i \in Importers, ReadStore(i)
      PROVE  WholeAdditions' /\ StoreChange
  BY <1>4, ReadStoreDrafts DEF ReadStore, StoreChange
<1>5. ASSUME NEW i \in Importers, WriteTemporary(i)
      PROVE  WholeAdditions' /\ StoreChange
  <2>1. /\ at[i] = "write" /\ at'[i] = "replace" /\ UNCHANGED <<store, addition, draft, imported>>
        /\ \A j \in Importers \ {i} : at'[j] = at[j]
    BY <1>5 DEF WriteTemporary, Move, StoreInv, StoreTypeOK
  <2>2. WholeAdditions'
    BY <2>1 DEF WholeAdditions
  <2> QED
    BY <2>1, <2>2 DEF StoreChange
<1>6. ASSUME NEW i \in Importers, Replace(i)
      PROVE  WholeAdditions' /\ StoreChange
  BY <1>6, ReplaceAdds
<1>7. ASSUME NEW i \in Importers, Return(i)
      PROVE  WholeAdditions' /\ StoreChange
  <2>1. WholeAdditions'
    BY <1>7, LeaveKeepsAdditions DEF Return
  <2>2. addition[i] \in Additions /\ IsRestriction(addition[i], store)
    BY <1>7 DEF Return, WholeAdditions, StoreInv, DraftInv
  <2> QED
    BY <1>7, <2>1, <2>2 DEF Return, StoreChange
<1>8. ASSUME NEW i \in Importers, RefuseConflict(i) \/ Abandon(i)
      PROVE  WholeAdditions' /\ StoreChange
  BY <1>8, LeaveKeepsAdditions DEF RefuseConflict, Abandon, StoreChange
<1> QED
  BY <1>1, <1>2, <1>3, <1>4, <1>5, <1>6, <1>7, <1>8 DEF StoreNext, ImporterStep

\* An empty store has no pairs, those of a merged one are those of both, and
\* those of a part are among those of the whole.
LEMMA PairsOfStores ==
    /\ Pairs(NoKeys) = {}
    /\ \A s, t : ~Conflict(t, s) => Pairs(Merge(s, t)) = Pairs(s) \cup Pairs(t)
    /\ \A s, t : IsRestriction(s, t) => Pairs(s) \subseteq Pairs(t)
<1>1. DOMAIN NoKeys = {}
  BY DEF NoKeys
<1>2. Pairs(NoKeys) = {}
  BY <1>1 DEF Pairs
<1>3. ASSUME NEW s, NEW t, ~Conflict(t, s)
      PROVE  Pairs(Merge(s, t)) = Pairs(s) \cup Pairs(t)
  <2>1. /\ DOMAIN Merge(s, t) = DOMAIN s \cup DOMAIN t
        /\ \A n \in DOMAIN s : Merge(s, t)[n] = s[n]
        /\ \A n \in DOMAIN t : Merge(s, t)[n] = t[n]
    BY <1>3 DEF Merge, Conflict
  <2> QED
    BY <2>1 DEF Pairs
<1>4. ASSUME NEW s, NEW t, IsRestriction(s, t)
      PROVE  Pairs(s) \subseteq Pairs(t)
  BY <1>4 DEF IsRestriction, Pairs
<1> QED
  BY <1>2, <1>3, <1>4

\* No store contradicts itself.
LEMMA StoresAreConsistent ==
    ASSUME NEW s
    PROVE  ~Ledger!Contradictory(Pairs(s))
BY DEF Ledger!Contradictory, Pairs

\* A step of the importers is one of the ledger, or none.
LEMMA ImportsAreLedgerSteps ==
    ASSUME StoreChange, UNCHANGED reader
    PROVE  [Ledger!Next]_(Ledger!vars)
<1> DEFINE reported == UNION {Pairs(keys) : keys \in imported}
           view == [t \in Threads |-> {Pairs(keys) : keys \in Taken(t)}]
<1>1. view' = view
  BY DEF Taken
<1>2. CASE UNCHANGED <<store, imported>>
  BY <1>1, <1>2 DEF Ledger!vars
<1>3. ASSUME NEW new \in Additions, ~Conflict(new, store), store' = Merge(store, new), UNCHANGED imported
      PROVE  Ledger!Next
  <2>1. Pairs(store') = Pairs(store) \cup Pairs(new)
    BY <1>3, PairsOfStores
  <2>2. ~Ledger!Contradictory(Pairs(store) \cup Pairs(new))
    BY <2>1, StoresAreConsistent
  <2>3. reported' = reported
    BY <1>3
  <2>4. Ledger!Add(Pairs(new))
    BY <1>1, <2>1, <2>2, <2>3 DEF Ledger!Add
  <2> QED
    BY <2>4 DEF Ledger!Next
<1>4. ASSUME NEW new \in Additions, IsRestriction(new, store), imported' = imported \cup {new}, UNCHANGED store
      PROVE  Ledger!Next
  <2>1. Pairs(new) \subseteq Pairs(store)
    BY <1>4, PairsOfStores
  <2>2. reported' = reported \cup Pairs(new)
    BY <1>4
  <2>3. Pairs(store') = Pairs(store)
    BY <1>4
  <2>4. Ledger!Confirm(Pairs(new))
    BY <1>1, <2>1, <2>2, <2>3 DEF Ledger!Confirm
  <2> QED
    BY <2>4 DEF Ledger!Next
<1> QED
  BY <1>2, <1>3, <1>4 DEF StoreChange

\* A step of the readers is one of the ledger, or none.
LEMMA ReadersAreLedgerSteps ==
    ASSUME FrozenTypeOK, ReadersChange, UNCHANGED <<store, imported>>
    PROVE  [Ledger!Next]_(Ledger!vars)
<1> DEFINE reported == UNION {Pairs(keys) : keys \in imported}
           view == [t \in Threads |-> {Pairs(keys) : keys \in Taken(t)}]
<1>1. reported' = reported /\ Pairs(store') = Pairs(store)
  OBVIOUS
<1>2. CASE UNCHANGED frozenVars
  <2>1. view' = view
    BY <1>2 DEF frozenVars, Taken
  <2> QED
    BY <1>1, <2>1 DEF Ledger!vars
<1>3. ASSUME NEW t \in Threads,
             \/ reader' = [reader EXCEPT ![t] = {}]
             \/ reader' = [reader EXCEPT ![t] = {NoKeys}]
      PROVE  Ledger!Next
  <2>1. \A u \in Threads : Taken(u)' = IF u = t THEN {} ELSE Taken(u)
    BY <1>3 DEF FrozenTypeOK, Taken
  <2>2. view' = [view EXCEPT ![t] = {}]
    BY <2>1
  <2>3. Ledger!Drop(t)
    BY <1>1, <2>2 DEF Ledger!Drop
  <2> QED
    BY <2>3 DEF Ledger!Next
<1>4. ASSUME NEW t \in Threads, store # NoKeys, reader' = [reader EXCEPT ![t] = {store}]
      PROVE  Ledger!Next
  <2>1. \A u \in Threads : Taken(u)' = IF u = t THEN {store} ELSE Taken(u)
    BY <1>4 DEF FrozenTypeOK, Taken
  <2>2. {Pairs(keys) : keys \in {store}} = {Pairs(store)}
    OBVIOUS
  <2>3. view' = [view EXCEPT ![t] = {Pairs(store)}]
    BY <2>1, <2>2
  <2>4. Ledger!Load(t)
    BY <1>1, <2>3 DEF Ledger!Load
  <2> QED
    BY <2>4 DEF Ledger!Next
<1> QED
  BY <1>2, <1>3, <1>4 DEF ReadersChange

\* Imports under the flock and readers without it implement a ledger: one whole
\* addition at a time, no name with two values, each reader one moment of it
\* (import_dbcache_keys.py:108-137).
THEOREM LedgerRefinement == Spec => ImplementsLedger
<1>1. Init => FrozenInv /\ WholeAdditions /\ Ledger!Init
  <2> SUFFICES ASSUME Init PROVE WholeAdditions /\ Ledger!Init
    BY FrozenInitInv
  <2>1. store = NoKeys /\ imported = {} /\ at = [i \in Importers |-> "idle"]
        /\ reader = [t \in Threads |-> {}]
    BY DEF Init, StoreInit
  <2>2. WholeAdditions
    BY <2>1 DEF WholeAdditions
  <2>3. UNION {Pairs(keys) : keys \in imported} = {}
    BY <2>1
  <2>4. [t \in Threads |-> {Pairs(keys) : keys \in Taken(t)}] = [t \in Threads |-> {}]
    BY <2>1 DEF Taken
  <2> QED
    BY <2>1, <2>2, <2>3, <2>4, PairsOfStores DEF Ledger!Init
<1>2. StoreInv /\ FrozenInv /\ [Next]_vars => FrozenInv'
  BY FrozenStep
<1>3. StoreInv /\ WholeAdditions /\ [Next]_vars => WholeAdditions'
  BY StepsOfStore, AdditionStep
<1>4. ASSUME StoreInv, FrozenInv, WholeAdditions, [Next]_vars
      PROVE  [Ledger!Next]_(Ledger!vars)
  <2>1. CASE ImportNext
    BY <1>4, <2>1, StepsOfStore, AdditionStep, ImportsAreLedgerSteps DEF ImportNext, frozenVars
  <2>2. CASE CallNext \/ ProgramNext \/ UNCHANGED vars
    BY <1>4, <2>2, ReadersStep, ReadersAreLedgerSteps
       DEF CallNext, ProgramNext, vars, storeVars, FrozenInv
  <2> QED
    BY <1>4, <2>1, <2>2 DEF Next
<1> QED
  BY <1>1, <1>2, <1>3, <1>4, ImplementsStore, StoreCorrect, PTL
     DEF Spec, ImplementsLedger, Ledger!Spec
=============================================================================
