----------------------------- MODULE ScopedPath -----------------------------
(***************************************************************************)
(* paths.rs and identity.rs: where a caller's path ends up.  A resolver    *)
(* with an identity files every asset under its product and build below    *)
(* the shared root; a resolver without one only moves paths out of the     *)
(* read-only source root.  Callers keep the paths they get and give them   *)
(* back, so that a path may be scoped any number of times, also by a       *)
(* resolver of another build.                                              *)
(*                                                                         *)
(* A path is the sequence of its components.  Special stands for those     *)
(* that are not names: the root, "." and "..".                             *)
(***************************************************************************)
EXTENDS Naturals, Sequences

CONSTANTS Components, Special, Products, BuildKeys, SourceRoot, SharedRoot

\* AssetIdentity::new takes known products and hexadecimal keys only.
ASSUME PathsAssumption ==
    /\ {"data", "products"} \cup Products \cup BuildKeys \subseteq Components
    /\ ({"products"} \cup Products \cup BuildKeys) \cap Special = {}
    /\ SourceRoot \in Seq(Components) /\ SharedRoot \in Seq(Components)

Paths == Seq(Components)

\* AssetIdentity: its directory below a data root.
Namespaces == {<<"products", product, build>> : product \in Products, build \in BuildKeys}

StartsWith(path, prefix) ==
    Len(prefix) <= Len(path) /\ SubSeq(path, 1, Len(prefix)) = prefix

\* Path::strip_prefix, where it succeeds.
Strip(path, prefix) == SubSeq(path, Len(prefix) + 1, Len(path))

\* relative_data_path: the first root that matches, in this order.
Relative(path) ==
    IF StartsWith(path, SourceRoot) THEN Strip(path, SourceRoot)
    ELSE IF StartsWith(path, SharedRoot) THEN Strip(path, SharedRoot)
    ELSE Strip(path, <<"data">>)

Inside(path) ==
    \E root \in {SourceRoot, SharedRoot, <<"data">>} : StartsWith(path, root)

AllNames(path) == \A i \in 1..Len(path) : path[i] \notin Special

AssetRoot(ns) == SharedRoot \o ns
AssetPath(ns, asset) == AssetRoot(ns) \o asset

\* scoped_cache_path with an identity: the paths it takes, and what it returns.
\* What is below products/ already must be in the identity's own namespace.
Accepted(ns, path) ==
    /\ Inside(path)
    /\ AllNames(Relative(path))
    /\ StartsWith(Relative(path), <<"products">>) => StartsWith(Relative(path), ns)

Asset(ns, path) ==
    IF StartsWith(Relative(path), <<"products">>) THEN Strip(Relative(path), ns)
    ELSE Relative(path)

Scoped(ns, path) == AssetPath(ns, Asset(ns, path))

\* read_current_asset_path: the same asset of the installed build.
Installed(ns, current, scoped) == AssetPath(current, Strip(scoped, AssetRoot(ns)))

\* remap_to_shared_data_path, without an identity.
Remapped(path) ==
    IF StartsWith(path, SourceRoot) THEN SharedRoot \o Strip(path, SourceRoot)
    ELSE IF StartsWith(path, <<"data">>) THEN SharedRoot \o Strip(path, <<"data">>)
    ELSE path

-----------------------------------------------------------------------------
\* The roots are one directory, or none lies in the other.
RootsApart ==
    \/ SourceRoot = SharedRoot
    \/ ~StartsWith(SourceRoot, SharedRoot) /\ ~StartsWith(SharedRoot, SourceRoot)

\* A path that was scoped is accepted again and stays what it is
\* (paths.rs:158-170).
ScopingIsStable(ns, path) == Accepted(ns, path) =>
    Accepted(ns, Scoped(ns, path)) /\ Scoped(ns, Scoped(ns, path)) = Scoped(ns, path)

\* A resolver of another build refuses it, and whatever two resolvers of
\* different builds are given, their files have different paths, none of which
\* leads out of its directory by a ".." (paths.rs:149-168).
BuildsStayApart(ns, other, path, path2) ==
    Accepted(ns, path) /\ Accepted(other, path2) /\ ns # other =>
        /\ ~Accepted(other, Scoped(ns, path))
        /\ Scoped(ns, path) # Scoped(other, path2)
        /\ AllNames(Strip(Scoped(ns, path), AssetRoot(ns)))

\* The same asset of the installed build is always found from a scoped path, and
\* it is what a resolver of that build would have made of it
\* (casc_resolver.rs:407-411).
InstalledIsScoped(ns, current, path) == Accepted(ns, path) =>
    /\ StartsWith(Scoped(ns, path), AssetRoot(ns))
    /\ Installed(ns, current, Scoped(ns, path)) = AssetPath(current, Asset(ns, path))
    /\ Scoped(current, Installed(ns, current, Scoped(ns, path))) =
         Installed(ns, current, Scoped(ns, path))

\* Without an identity a remapped path is not moved again, if the shared root is
\* not itself a relative path below data/ (paths.rs:185-193).
RemappingIsStable(path) ==
    SharedRoot # << >> /\ Head(SharedRoot) # "data" =>
        Remapped(Remapped(path)) = Remapped(path)
=============================================================================
