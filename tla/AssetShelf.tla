------------------------------ MODULE AssetShelf ------------------------------
(***************************************************************************)
(* What extraction promises its callers while the installation is patched: *)
(* a shelf with one place per build, and one for callers that name none.   *)
(* Each call takes effect at one moment between its start and its return:  *)
(* it finds something in a place, or puts whole bytes there, or reads      *)
(* them, of a build that was not superseded when the call began; what it   *)
(* finds may also stand in the place that the call names, however old.     *)
(* What stands in a place may be replaced, but a place never empties, and  *)
(* never holds a build older than the one it is named for.  README.md,     *)
(* "Installed build".                                                      *)
(***************************************************************************)
EXTENDS Naturals

CONSTANTS
    Threads, Procs, ProcOf,
    Places,         \* the builds, and
    NoBuild,        \* the place of calls that name none, below all builds
    Bytes,          \* what may be read, of a build, with zero-filled chunks or not
    Nothing

VARIABLES
    latest,         \* the build last released
    shelf,          \* what stands in each place
    asking,         \* the threads in a call
    since,          \* the build that was the latest when the call began
    wanted,         \* the build it names
    found, read     \* the place or the bytes it got, sets with at most one

outcome == <<asking, found, read>>
vars == <<latest, shelf, since, wanted, outcome>>

Init ==
    /\ latest \in Places \ {NoBuild}
    /\ shelf = [p \in Places |-> Nothing]
    /\ asking = {}
    /\ since \in [Threads -> Places] /\ wanted \in [Threads -> Places]
    /\ found = [t \in Threads |-> {}] /\ read = [t \in Threads |-> {}]

Release ==
    /\ latest' \in Places /\ latest' >= latest
    /\ UNCHANGED <<shelf, since, wanted, outcome>>

Ask(t) ==
    /\ t \notin asking
    /\ asking' = asking \cup {t}
    /\ since' = [since EXCEPT ![t] = latest]
    /\ \E p \in Places : wanted' = [wanted EXCEPT ![t] = p]
    /\ found' = [found EXCEPT ![t] = {}] /\ read' = [read EXCEPT ![t] = {}]
    /\ UNCHANGED <<latest, shelf>>

Return(t, places, bytes) ==
    /\ t \in asking
    /\ asking' = asking \ {t}
    /\ found' = [found EXCEPT ![t] = places]
    /\ read' = [read EXCEPT ![t] = bytes]
    /\ UNCHANGED <<latest, since, wanted>>

\* The place that the call names, or that of a build released since it began.
Find(t) ==
    /\ \E p \in Places :
        /\ shelf[p] # Nothing
        /\ p = wanted[t] \/ (wanted[t] # NoBuild /\ p \in since[t]..latest)
        /\ Return(t, {p}, {})
    /\ UNCHANGED shelf

File(t) ==
    \E p \in Places, b \in Bytes :
        /\ b.build \in since[t]..latest
        /\ IF wanted[t] = NoBuild THEN p = NoBuild
                                  ELSE p \in since[t]..b.build /\ ~b.zeroed
        /\ shelf' = [shelf EXCEPT ![p] = b]
        /\ Return(t, {p}, {})

Read(t) ==
    /\ \E b \in Bytes : b.build \in since[t]..latest /\ Return(t, {}, {b})
    /\ UNCHANGED shelf

\* With an error, or because it only warmed the installation.
Leave(t) == Return(t, {}, {}) /\ UNCHANGED shelf

Crash(p) ==
    /\ asking' = {t \in asking : ProcOf[t] # p}
    /\ found' = [t \in Threads |-> IF ProcOf[t] = p THEN {} ELSE found[t]]
    /\ read' = [t \in Threads |-> IF ProcOf[t] = p THEN {} ELSE read[t]]
    /\ UNCHANGED <<latest, shelf, since, wanted>>

Next ==
    \/ Release
    \/ \E t \in Threads : Ask(t) \/ Find(t) \/ File(t) \/ Read(t) \/ Leave(t)
    \/ \E p \in Procs : Crash(p)

Spec == Init /\ [][Next]_vars
=============================================================================
