--------------------------- MODULE MCFrozenArchive ---------------------------
(* Instance of FrozenArchive for TLC. *)
EXTENDS FrozenArchive

CONSTANTS i1, i2, t1, t2, n1, n2, v1, v2

Key(n, v) == [x \in {n} |-> v]

\* Two runs that contradict each other, and one that has the key of the first
\* and a key of its own: an addition may be new, known, or half of each.
MCAdditions == {Key(n1, v1), Key(n1, v2), [x \in {n1, n2} |-> v1]}
=============================================================================
