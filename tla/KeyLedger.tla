------------------------------ MODULE KeyLedger ------------------------------
(***************************************************************************)
(* What the TACT key store promises the runs that import into it and the   *)
(* readers that load it: a ledger of pairs of a name and a value, to which *)
(* one run's keys are added all at once or not at all, in which no name    *)
(* ever has two values, and of which a reader holds one moment.            *)
(* import_dbcache_keys.py:108-137, casc_resolver.rs FrozenArchiveReader.   *)
(***************************************************************************)

CONSTANTS
    Readers,
    Additions       \* what a run may add, each a set of pairs

VARIABLES
    keys,           \* the ledger
    confirmed,      \* what runs that returned reported as known
    view            \* the moment each reader holds, a set with at most one

vars == <<keys, confirmed, view>>

Init ==
    /\ keys = {}
    /\ confirmed = {}
    /\ view = [r \in Readers |-> {}]

Contradictory(pairs) == \E p, q \in pairs : p[1] = q[1] /\ p[2] # q[2]

Add(new) ==
    /\ ~Contradictory(keys \cup new)
    /\ keys' = keys \cup new
    /\ UNCHANGED <<confirmed, view>>

\* A run returns, which may have found that nothing was new.
Confirm(new) ==
    /\ new \subseteq keys
    /\ confirmed' = confirmed \cup new
    /\ UNCHANGED <<keys, view>>

Load(r) ==
    /\ view' = [view EXCEPT ![r] = {keys}]
    /\ UNCHANGED <<keys, confirmed>>

Drop(r) ==
    /\ view' = [view EXCEPT ![r] = {}]
    /\ UNCHANGED <<keys, confirmed>>

Next ==
    \/ \E new \in Additions : Add(new) \/ Confirm(new)
    \/ \E r \in Readers : Load(r) \/ Drop(r)

Spec == Init /\ [][Next]_vars
=============================================================================
