------------------------------ MODULE EntryBook ------------------------------
(***************************************************************************)
(* What listfile lookups promise the threads of several processes: there   *)
(* is one book of entries, which never changes and answers no query in two *)
(* ways, and each lookup reads it at once.  A process may remember entries *)
(* until it ends, and keep what it remembers for good: neither is ever     *)
(* anything but a part of the book.  Only in a process that could not read *)
(* a table may a lookup miss what the book has.  listfile-resolution.md.   *)
(***************************************************************************)

CONSTANTS
    Threads, Procs, ProcOf, Queries,
    Reply,      \* what an entry answers to a query, or None
    None

VARIABLES
    book,
    kept,       \* the entries on disk,
    memory,     \* and in the memory of each process
    failing,    \* the processes that could not read or write a table
    waiting,    \* the threads that look something up
    asked, answer

lookups == <<waiting, asked, answer>>
vars == <<book, kept, memory, failing, lookups>>

Init ==
    /\ \A e, f \in book, q \in Queries : Reply[e][q] # None /\ Reply[f][q] # None => e = f
    /\ kept \subseteq book
    /\ memory = [p \in Procs |-> {}]
    /\ failing = {} /\ waiting = {}
    /\ asked = [t \in Threads |-> None]
    /\ answer = [t \in Threads |-> None]

Ask(t, q) ==
    /\ t \notin waiting
    /\ waiting' = waiting \cup {t}
    /\ asked' = [asked EXCEPT ![t] = q]
    /\ answer' = [answer EXCEPT ![t] = None]
    /\ UNCHANGED <<book, kept, memory, failing>>

Return(t, a) ==
    /\ waiting' = waiting \ {t}
    /\ answer' = [answer EXCEPT ![t] = a]
    /\ UNCHANGED asked

Recall(t) ==
    /\ t \in waiting
    /\ \E e \in memory[ProcOf[t]] :
        Reply[e][asked[t]] # None /\ Return(t, Reply[e][asked[t]])
    /\ UNCHANGED <<book, kept, memory, failing>>

Find(t) ==
    /\ t \in waiting
    /\ \E e \in book :
        /\ Reply[e][asked[t]] # None /\ Return(t, Reply[e][asked[t]])
        /\ memory' = [memory EXCEPT ![ProcOf[t]] = @ \cup {e}]
    /\ UNCHANGED <<book, kept, failing>>

Miss(t) ==
    /\ t \in waiting
    /\ ProcOf[t] \in failing \/ \A e \in book : Reply[e][asked[t]] = None
    /\ Return(t, None)
    /\ UNCHANGED <<book, kept, memory, failing>>

Keep(p) ==
    /\ \E e \in memory[p] : kept' = kept \cup {e}
    /\ UNCHANGED <<book, memory, failing, lookups>>

\* A table cannot be read or written, which may end a lookup without an answer.
Fault(t) ==
    /\ failing' = failing \cup {ProcOf[t]}
    /\ (t \in waiting /\ Return(t, None)) \/ UNCHANGED lookups
    /\ UNCHANGED <<book, kept, memory>>

\* A process ends with its memory and its lookups, and starts again.
Restart(p) ==
    /\ memory' = [memory EXCEPT ![p] = {}]
    /\ failing' = failing \ {p}
    /\ waiting' = {t \in waiting : ProcOf[t] # p}
    /\ asked' = [t \in Threads |-> IF ProcOf[t] = p THEN None ELSE asked[t]]
    /\ answer' = [t \in Threads |-> IF ProcOf[t] = p THEN None ELSE answer[t]]
    /\ UNCHANGED <<book, kept>>

Next ==
    \/ \E t \in Threads :
        \/ \E q \in Queries : Ask(t, q)
        \/ Recall(t) \/ Find(t) \/ Miss(t) \/ Fault(t)
    \/ \E p \in Procs : Keep(p) \/ Restart(p)

Spec == Init /\ [][Next]_vars
=============================================================================
