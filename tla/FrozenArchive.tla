---------------------------- MODULE FrozenArchive ----------------------------
(***************************************************************************)
(* FrozenArchiveReader (casc_resolver.rs), between the two components it   *)
(* depends on: the runtime mode lets it through, or not, both when it is   *)
(* opened and at every read, and it takes its TACT keys, once, from the    *)
(* key store that imports are writing meanwhile, or it has none.           *)
(***************************************************************************)
EXTENDS KeyStore, RuntimeMode

CONSTANTS
    MaxWork,        \* bounds the calls and imports,
    MaxChanges      \* and what the program changes around them

ASSUME BoundsAssumption == MaxWork \in Nat /\ MaxChanges \in Nat

VARIABLES
    reader,     \* the keys of each thread's open reader, a set with at most one map
    floor,      \* ghost: the imports that had returned when the open began, for
                \* a reader that takes keys
    work, changes

frozenVars == <<reader, floor>>
bounds == <<work, changes>>
vars == <<storeVars, doorVars, frozenVars, bounds>>

Init ==
    /\ StoreInit
    /\ DoorInit
    /\ reader = [t \in Threads |-> {}]
    /\ floor = [t \in Threads |-> {}]
    /\ work = 0 /\ changes = 0

Opening(t) == call[t] = "open" /\ point[t] = "casc"

-----------------------------------------------------------------------------

\* The call to open; what the thread had open before is dropped.
Open(t) ==
    /\ Call(t, "open", Local)
    /\ reader' = [reader EXCEPT ![t] = {}]
    /\ floor' = [floor EXCEPT ![t] = imported]

Read(t) ==
    /\ reader[t] # {}
    /\ Call(t, "read", Local)
    /\ UNCHANGED frozenVars

\* Mutant: a store that cannot be read counts as an empty one, as it does in
\* load_tact_keys.
LoadKeysIfReadable(t) ==
    /\ Opening(t)
    /\ Access(t, "Ok")
    /\ \E keys \in {store, NoKeys} : reader' = [reader EXCEPT ![t] = {keys}]
    /\ UNCHANGED floor

\* After indices and archives, read_to_string of the key file, which must exist.
LoadKeys(t) ==
    /\ Opening(t)
    /\ store # NoKeys
    /\ Access(t, "Ok")
    /\ reader' = [reader EXCEPT ![t] = {store}]
    /\ UNCHANGED floor

\* key_file is None: the reader does without keys.
OpenWithoutKeys(t) ==
    /\ Opening(t)
    /\ Access(t, "Ok")
    /\ reader' = [reader EXCEPT ![t] = {NoKeys}]
    /\ floor' = [floor EXCEPT ![t] = {}]

\* The indices, the archives or the key file cannot be read, or the latter is missing.
OpenFails(t) ==
    /\ Opening(t)
    /\ Access(t, "Err")
    /\ UNCHANGED frozenVars

\* read_encoding_key of content that needs some keys: all of it, or an error.
ReadBytes(t, needed) ==
    /\ call[t] = "read"
    /\ \E keys \in reader[t], o \in {"Ok", "Err"} :
        /\ o = "Ok" => needed \subseteq DOMAIN keys
        /\ Access(t, o)
    /\ UNCHANGED frozenVars

\* Every other access, which has nothing to do with a reader.
OtherAccess(t, o) ==
    /\ call[t] \notin {"open", "read"}
    /\ Access(t, o)
    /\ UNCHANGED frozenVars

CallBegins(t) ==
    \/ Open(t)
    \/ Read(t)
    \/ /\ \/ Configure(t)
          \/ \E c \in ResolverCalls, p \in Modes : Call(t, c, p)
          \/ \E c \in {"install", "direct"} : Call(t, c, Local)
       /\ UNCHANGED frozenVars

CallSteps(t) ==
    \/ DoorSteps(t) /\ UNCHANGED frozenVars
    \/ LoadKeys(t) \/ OpenWithoutKeys(t)
    \/ OpenFails(t)
    \/ \E needed \in SUBSET Names : ReadBytes(t, needed)
    \/ \E o \in {"Ok", "Err"} : OtherAccess(t, o)

CallNext ==
    /\ UNCHANGED <<storeVars, changes>>
    /\ \E t \in Threads :
        \/ work < MaxWork /\ work' = work + 1 /\ CallBegins(t)
        \/ UNCHANGED work /\ CallSteps(t)

ImportNext ==
    /\ UNCHANGED <<doorVars, frozenVars, changes>>
    /\ \E i \in Importers :
        \/ /\ work < MaxWork /\ work' = work + 1
           /\ \E keys \in Additions : Harvest(i, keys)
        \/ UNCHANGED work /\ (ImporterStep(i) \/ Abandon(i))

ProgramNext ==
    /\ changes < MaxChanges /\ changes' = changes + 1
    /\ ProgramChanges
    /\ UNCHANGED <<storeVars, frozenVars, work>>

Next == CallNext \/ ImportNext \/ ProgramNext

Spec == Init /\ [][Next]_vars

\* An importer is a process of its own that goes on while it is not killed.
Fairness == \A i \in Importers :
    WF_vars(ImporterStep(i) /\ UNCHANGED <<doorVars, frozenVars, bounds>>)

FairSpec == Spec /\ Fairness

-----------------------------------------------------------------------------
(* Properties *)

\* The state of the readers is of the expected kind.
FrozenTypeOK ==
    /\ reader \in [Threads -> SUBSET Stores]
    /\ floor \in [Threads -> SUBSET Stores]
    /\ work \in 0..MaxWork /\ changes \in 0..MaxChanges

\* The state of the store, the door and the readers is of the expected kind.
TypeOK == StoreTypeOK /\ DoorTypeOK /\ FrozenTypeOK

\* An open reader that was given the store has every key of every import that had
\* returned when open was called, and no key, nor value of one, that the store
\* does not have now: a reader that races an import never sees half a store, and
\* two readers never disagree about a key (casc_resolver.rs:195-200).
ReadersHoldImports ==
    \A t \in Threads : \A keys \in reader[t] :
        /\ IsRestriction(keys, store)
        /\ \A added \in floor[t] : IsRestriction(added, keys)

\* Every import returns: the flock is released on every path out of
\* merge_store, also by a kill, so nobody waits for it forever.
ImportsReturn == \A i \in Importers : at[i] # "idle" ~> at[i] = "idle"
-----------------------------------------------------------------------------
(* The key store implements a ledger *)

\* A store as the pairs that are in it.
Pairs(s) == {<<n, s[n]>> : n \in DOMAIN s}

\* What a reader took from the store, which was there; others took nothing.
Taken(t) == reader[t] \ {NoKeys}

Ledger == INSTANCE KeyLedger WITH
    Readers <- Threads,
    Additions <- {Pairs(keys) : keys \in Additions},
    keys <- Pairs(store),
    confirmed <- UNION {Pairs(keys) : keys \in imported},
    view <- [t \in Threads |-> {Pairs(keys) : keys \in Taken(t)}]

\* Reading, comparing, writing a temporary file and replacing the store under
\* the flock behave as one addition that never contradicts what is there,
\* whoever fails or is killed, and a reader without the lock finds the ledger of
\* one moment (import_dbcache_keys.py:108-137).
ImplementsLedger == Ledger!Spec
=============================================================================
