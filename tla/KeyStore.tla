------------------------------- MODULE KeyStore -------------------------------
(***************************************************************************)
(* import_dbcache_keys.py: merge_store and write_store_atomic, run by      *)
(* several processes over one TACT key store, any of which may fail or be  *)
(* killed, while readers load the store without a lock.                    *)
(*                                                                         *)
(* What a run harvested from its DBCache.bin files is its addition: a      *)
(* partial map from key names to key values, as the store's text is.       *)
(***************************************************************************)
EXTENDS Functions

CONSTANTS
    Importers,
    Names, Values,
    Additions       \* what a run may have harvested

\* A set of partial maps from Names to Values.
Stores == UNION {[N -> Values] : N \in SUBSET Names}

ASSUME AdditionsAssumption == Additions \subseteq Stores

VARIABLES
    store,      \* the keys in the file at path, none when there is no file
    locked,     \* holders of the flock on path.lock
    at,         \* where each importer is
    addition,   \* the keys it harvested
    draft,      \* the keys in its temporary file
    imported    \* ghost: what the imports that returned were asked to add

storeVars == <<store, locked, at, addition, draft, imported>>

NoKeys == [n \in {} |-> n]

StoreInit ==
    /\ store = NoKeys
    /\ locked = {}
    /\ at = [i \in Importers |-> "idle"]
    /\ addition = [i \in Importers |-> NoKeys]
    /\ draft = [i \in Importers |-> NoKeys]
    /\ imported = {}

Holding == {"read", "write", "replace", "return"}
Places == {"idle", "lock"} \cup Holding

Conflict(s, t) == \E n \in DOMAIN s \cap DOMAIN t : s[n] # t[n]

\* Lines for the names that have none yet.
Merge(s, t) == [n \in DOMAIN s \cup DOMAIN t |-> IF n \in DOMAIN s THEN s[n] ELSE t[n]]

Move(i, place) == at' = [at EXCEPT ![i] = place]

\* The call is over: leaving the with block closes the lock file.
Leave(i) ==
    /\ Move(i, "idle")
    /\ locked' = locked \ {i}
    /\ addition' = [addition EXCEPT ![i] = NoKeys]
    /\ draft' = [draft EXCEPT ![i] = NoKeys]

-----------------------------------------------------------------------------

Harvest(i, keys) ==
    /\ at[i] = "idle"
    /\ addition' = [addition EXCEPT ![i] = keys]
    /\ Move(i, "lock")
    /\ UNCHANGED <<store, locked, draft, imported>>

Lock(i) ==
    /\ at[i] = "lock"
    /\ locked = {}
    /\ locked' = {i}
    /\ Move(i, "read")
    /\ UNCHANGED <<store, addition, draft, imported>>

\* Read and parse the store, refuse conflicts, and stop when nothing is new.
ReadStore(i) ==
    /\ at[i] = "read"
    /\ ~Conflict(addition[i], store)
    /\ draft' = [draft EXCEPT ![i] = Merge(store, addition[i])]
    /\ Move(i, IF DOMAIN addition[i] \subseteq DOMAIN store THEN "return" ELSE "write")
    /\ UNCHANGED <<store, locked, addition, imported>>

RefuseConflict(i) ==
    /\ at[i] = "read"
    /\ Conflict(addition[i], store)
    /\ Leave(i)
    /\ UNCHANGED <<store, imported>>

\* Mutant: the text is written to the store itself, which may end anywhere.
WriteInPlace(i) ==
    /\ at[i] = "write"
    /\ \E N \in SUBSET (DOMAIN draft[i] \ DOMAIN store) :
        store' = [n \in DOMAIN store \cup N |-> draft[i][n]]
    /\ Move(i, "replace")
    /\ UNCHANGED <<locked, addition, draft, imported>>

\* The temporary sibling has its whole text, is fsynced and has its mode.
WriteTemporary(i) ==
    /\ at[i] = "write"
    /\ Move(i, "replace")
    /\ UNCHANGED <<store, locked, addition, draft, imported>>

\* os.replace; a reader that has the old file open goes on reading that.
Replace(i) ==
    /\ at[i] = "replace"
    /\ store' = draft[i]
    /\ Move(i, "return")
    /\ UNCHANGED <<locked, addition, draft, imported>>

\* The finally block's unlink finds nothing any more.
Return(i) ==
    /\ at[i] = "return"
    /\ imported' = imported \cup {addition[i]}
    /\ Leave(i)
    /\ UNCHANGED store

\* Mutant: the lock is a file that the importer creates and removes.
AbandonLocked(i) ==
    /\ at[i] # "idle"
    /\ Move(i, "idle")
    /\ addition' = [addition EXCEPT ![i] = NoKeys]
    /\ draft' = [draft EXCEPT ![i] = NoKeys]
    /\ UNCHANGED <<store, locked, imported>>

\* An OSError or, for a store edited by hand, a parse error; or a kill, which
\* also leaves the temporary file, a name that is never used again.
Abandon(i) ==
    /\ at[i] # "idle"
    /\ Leave(i)
    /\ UNCHANGED <<store, imported>>

ImporterStep(i) ==
    \/ Lock(i) \/ ReadStore(i) \/ RefuseConflict(i)
    \/ WriteTemporary(i) \/ Replace(i) \/ Return(i)

StoreNext ==
    \E i \in Importers :
        \/ \E keys \in Additions : Harvest(i, keys)
        \/ ImporterStep(i)
        \/ Abandon(i)

StoreSpec == StoreInit /\ [][StoreNext]_storeVars

-----------------------------------------------------------------------------
(* Properties *)

\* The state is of the expected kind.
StoreTypeOK ==
    /\ store \in Stores
    /\ locked \subseteq Importers
    /\ at \in [Importers -> Places]
    /\ addition \in [Importers -> Stores]
    /\ draft \in [Importers -> Stores]
    /\ imported \subseteq Stores

\* Whatever two imports, failures and kills do, a key that is in the store
\* stays there with its value: the file is replaced by one that was computed
\* from the store as it still is (merge_store under the flock).
KeysNeverChange == [][IsRestriction(store, store')]_store

\* An import that returned, also one that found nothing to add, has all its
\* keys in the store, now and later: main prints added_names and known_names.
ImportsAreKept == \A keys \in imported : IsRestriction(keys, store)
=============================================================================
