-------------------------- MODULE MCAssetExtraction --------------------------
(* Instances of AssetExtraction and ScopedPath for TLC. *)
EXTENDS AssetExtraction, ScopedPath, TLC

CONSTANTS t1, t2, t3, p1, p2

\* One thread.
OneThread == (t1 :> p1)

\* Two threads of one process.
OneProcess == (t1 :> p1) @@ (t2 :> p1)

\* Two threads of one process and one of another that shares its disk.
TwoProcesses == (t1 :> p1) @@ (t2 :> p1) @@ (t3 :> p2)

\* The two threads of p1 are interchangeable.
Symmetry == Permutations({t1, t2})

\* The file is encrypted in the second build.
Contents == <<"plain", "encrypted">>
PlainContents == <<"plain", "plain">>
\* Encrypted in the first build, gone in the second.
LostContents == <<"encrypted", "absent">>

-----------------------------------------------------------------------------
(* The destinations that the builds of AssetExtraction are labels of: paths  *)
(* below any of the roots, or outside.                                       *)

Absolute == <<"/", "s">>
AbsoluteShared == <<"/", "c", "data">>
Nearby == <<"data">>

PathsBelow(length) ==
    {root \o rest : root \in {SourceRoot, SharedRoot, <<"data">>, <<"/">>, << >>},
                    rest \in UNION {[1..n -> {"products", "wow", "b1", "b2", "m", ".."}] :
                                       n \in 0..length}}

ASSUME RootsAreApart == RootsApart

ASSUME ScopingIsStableBelow ==
    \A ns \in Namespaces, path \in PathsBelow(4) : ScopingIsStable(ns, path)

ASSUME BuildsStayApartBelow ==
    \A ns, other \in Namespaces, path \in PathsBelow(4), path2 \in PathsBelow(1) :
        BuildsStayApart(ns, other, path, path2)

ASSUME InstalledIsScopedBelow ==
    \A ns, current \in Namespaces, path \in PathsBelow(4) : InstalledIsScoped(ns, current, path)

ASSUME RemappingIsStableBelow == \A path \in PathsBelow(4) : RemappingIsStable(path)
=============================================================================
