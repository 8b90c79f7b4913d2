------------------------- MODULE ImmutableNamespace -------------------------
(***************************************************************************)
(* What the resolution cache of one (product, build, schema) promises its  *)
(* users: nothing is there until a complete table directory appears in one *)
(* step; from then on it never changes, and every reader holds exactly it. *)
(* docs/specs/atomic-resolution-cache.md, "Published complete namespaces   *)
(* are immutable"; casc_cache.rs:86-88.                                    *)
(***************************************************************************)

CONSTANTS
    Procs,      \* the processes that read the namespace
    Tables,     \* the complete table directories a builder may publish
    Nothing     \* no namespace, or no open reader

VARIABLES
    namespace,  \* what stands at the namespace's path
    view        \* what each process has open

vars == <<namespace, view>>

Init ==
    /\ namespace \in {Nothing} \cup Tables
    /\ view = [p \in Procs |-> Nothing]

Publish ==
    /\ namespace = Nothing
    /\ namespace' \in Tables
    /\ UNCHANGED view

Open(p) ==
    /\ namespace \in Tables
    /\ view' = [view EXCEPT ![p] = namespace]
    /\ UNCHANGED namespace

\* A reader goes away only with its process.
Close(p) ==
    /\ view' = [view EXCEPT ![p] = Nothing]
    /\ UNCHANGED namespace

Next ==
    \/ Publish
    \/ \E p \in Procs : Open(p) \/ Close(p)

Spec == Init /\ [][Next]_vars
=============================================================================
