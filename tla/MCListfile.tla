------------------------------ MODULE MCListfile ------------------------------
(* Instances of Listfile for TLC: two FileDataIDs, two paths and a second     *)
(* spelling of the first.                                                     *)
EXTENDS Listfile, TLC

CONSTANTS t1, t2, t3, p1, p2, f1, f2, pathA, upperA, pathB

\* Two threads of one process and one of another that shares its data root.
TwoProcesses == (t1 :> p1) @@ (t2 :> p1) @@ (t3 :> p2)
OneThread == (t1 :> p1)

FoldCase == (pathA :> pathA) @@ (upperA :> pathA) @@ (pathB :> pathB)

Tables(l, c) == [local |-> l, community |-> c]

\* Tables that agree: disjoint, overlapping, and with nothing local yet.
Agreements ==
    { Tables({}, {<<f1, upperA>>, <<f2, pathB>>}),
      Tables({<<f1, upperA>>}, {<<f1, upperA>>, <<f2, pathB>>}) }

\* Another path for a FileDataID, another FileDataID for a path, another
\* spelling of a path.
Conflicts ==
    { Tables({<<f1, pathA>>}, {<<f1, pathB>>}),
      Tables({<<f1, pathA>>}, {<<f2, upperA>>}),
      Tables({<<f1, pathA>>}, {<<f1, upperA>>, <<f2, pathB>>}) }

AllWorlds == Agreements \cup Conflicts

Symmetry == Permutations({t1, t2})
=============================================================================
