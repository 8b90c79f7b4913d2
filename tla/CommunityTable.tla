--------------------------- MODULE CommunityTable ---------------------------
(***************************************************************************)
(* What the community listfile cache promises the queries of a process: a  *)
(* table that is imported as a whole from one version of the listfile, is  *)
(* replaced by no older one, is there when a process has opened it, and    *)
(* stays.  listfile_cache.rs, "BEGIN ... COMMIT" around the import.        *)
(***************************************************************************)
EXTENDS Naturals

CONSTANTS
    Procs,
    LastVersion     \* of the listfile

VARIABLES
    published,      \* the newest version there ever was, 0: none
    rows,           \* the version the table was imported from, 0: no table
    open,           \* the processes that read the table
    answer          \* the version each one's last answer is from, 0: none

vars == <<published, rows, open, answer>>

Init ==
    /\ published = 0
    /\ rows = 0
    /\ open = {}
    /\ answer = [p \in Procs |-> 0]

Publish ==
    /\ published < LastVersion
    /\ published' = published + 1
    /\ UNCHANGED <<rows, open, answer>>

\* The listfile may have been replaced since the import read it.
Import ==
    /\ rows' \in 1..published
    /\ rows <= rows'
    /\ UNCHANGED <<published, open, answer>>

Open(p) ==
    /\ rows # 0
    /\ open' = open \cup {p}
    /\ UNCHANGED <<published, rows, answer>>

Answer(p) ==
    /\ p \in open
    /\ answer' = [answer EXCEPT ![p] = rows]
    /\ UNCHANGED <<published, rows, open>>

\* The next query begins, or one failed.
Forget(p) ==
    /\ answer' = [answer EXCEPT ![p] = 0]
    /\ UNCHANGED <<published, rows, open>>

\* A connection is closed only with its process.
Close(p) ==
    /\ open' = open \ {p}
    /\ answer' = [answer EXCEPT ![p] = 0]
    /\ UNCHANGED <<published, rows>>

Next ==
    \/ Publish
    \/ Import
    \/ \E p \in Procs : Open(p) \/ Answer(p) \/ Forget(p) \/ Close(p)

Spec == Init /\ [][Next]_vars
=============================================================================
