-------------------------- MODULE ScopedPathProofs --------------------------
(***************************************************************************)
(* Proofs about ScopedPath, for paths of any length and roots anywhere.    *)
(***************************************************************************)
EXTENDS ScopedPath, SequenceTheorems, TLAPS

\* The configured roots.
LEMMA RootsArePaths == SourceRoot \in Paths /\ SharedRoot \in Paths
BY PathsAssumption DEF Paths

-----------------------------------------------------------------------------
(* Prefixes *)

\* A prefix put before a path is found, and taken off again.
LEMMA PrefixOfConcat ==
    ASSUME NEW a \in Paths, NEW b \in Paths
    PROVE  StartsWith(a \o b, a) /\ Strip(a \o b, a) = b
<1> USE DEF Paths
<1>1. /\ a \o b \in Seq(Components) /\ Len(a \o b) = Len(a) + Len(b)
      /\ Len(a) \in Nat /\ Len(b) \in Nat
      /\ \A i \in 1 .. Len(a) + Len(b) : (a \o b)[i] = IF i <= Len(a) THEN a[i] ELSE b[i - Len(a)]
  BY ConcatProperties, LenProperties
<1>2. SubSeq(a \o b, 1, Len(a)) = a
  <2>1. \A i \in 1 .. Len(a) : (a \o b)[i] \in Components
    BY <1>1, ElementOfSeq
  <2>2. /\ SubSeq(a \o b, 1, Len(a)) \in Seq(Components)
        /\ Len(SubSeq(a \o b, 1, Len(a))) = Len(a)
        /\ \A i \in 1 .. Len(a) : SubSeq(a \o b, 1, Len(a))[i] = (a \o b)[i]
    BY <1>1, <2>1, SubSeqProperties
  <2> QED
    BY <1>1, <2>2, SeqEqual
<1>3. SubSeq(a \o b, Len(a) + 1, Len(a) + Len(b)) = b
  <2>1. \A i \in Len(a) + 1 .. Len(a) + Len(b) : (a \o b)[i] \in Components
    BY <1>1, ElementOfSeq
  <2> DEFINE c == SubSeq(a \o b, Len(a) + 1, Len(a) + Len(b))
  <2>2. /\ c \in Seq(Components) /\ Len(c) = Len(b)
        /\ \A i \in 1 .. Len(b) : c[i] = (a \o b)[Len(a) + i]
    BY <1>1, <2>1, SubSeqProperties
  <2>3. \A i \in 1 .. Len(b) : (a \o b)[Len(a) + i] = b[i]
    BY <1>1
  <2> HIDE DEF c
  <2>4. c = b
    BY <2>2, <2>3, SeqEqual
  <2> QED
    BY <2>4 DEF c
<1> QED
  BY <1>1, <1>2, <1>3 DEF StartsWith, Strip

\* A path is its prefix and what is left without it.
LEMMA PrefixAndRest ==
    ASSUME NEW path \in Paths, NEW a \in Paths, StartsWith(path, a)
    PROVE  /\ Strip(path, a) \in Paths /\ path = a \o Strip(path, a)
           /\ Len(path) = Len(a) + Len(Strip(path, a))
<1> USE DEF Paths
<1>1. Len(path) \in Nat /\ Len(a) \in Nat /\ Len(a) <= Len(path)
  BY LenProperties DEF StartsWith
<1>2. \A i \in Len(a) + 1 .. Len(path) : path[i] \in Components
  BY <1>1, ElementOfSeq
<1>3. Strip(path, a) \in Seq(Components) /\ Len(Strip(path, a)) = Len(path) - Len(a)
  BY <1>1, <1>2, SubSeqProperties DEF Strip
<1>4. SubSeq(path, 1, Len(a)) \o SubSeq(path, Len(a) + 1, Len(path)) = SubSeq(path, 1, Len(path))
  <2>1. 1 \in 1 .. Len(path) + 1 /\ Len(a) \in 1 - 1 .. Len(path) /\ Len(path) \in Len(a) .. Len(path)
    BY <1>1
  <2> QED
    BY <2>1, ConcatAdjacentSubSeq, Zenon
<1>5. SubSeq(path, 1, Len(path)) = path
  BY SubSeqFull
<1>6. SubSeq(path, 1, Len(a)) = a
  BY DEF StartsWith
<1>7. path = a \o Strip(path, a)
  BY <1>4, <1>5, <1>6, Zenon DEF Strip
<1> QED
  BY <1>1, <1>3, <1>7

\* What follows a prefix may have another prefix.
LEMMA LongerPrefix ==
    ASSUME NEW path \in Paths, NEW a \in Paths, NEW b \in Paths, StartsWith(path, a)
    PROVE  StartsWith(path, a \o b) <=> StartsWith(Strip(path, a), b)
<1>1. Strip(path, a) \in Paths /\ path = a \o Strip(path, a)
  BY PrefixAndRest
<1>2. a \o b \in Paths
  BY ConcatProperties DEF Paths
<1>3. ASSUME StartsWith(path, a \o b)
      PROVE  StartsWith(Strip(path, a), b)
  <2>1. PICK r \in Paths : path = (a \o b) \o r
    BY <1>2, <1>3, PrefixAndRest
  <2>2. path = a \o (b \o r) /\ b \o r \in Paths
    BY <2>1, ConcatAssociative, ConcatProperties DEF Paths
  <2>3. Strip(path, a) = b \o r
    BY <2>2, PrefixOfConcat
  <2> QED
    BY <2>1, <2>3, PrefixOfConcat
<1>4. ASSUME StartsWith(Strip(path, a), b)
      PROVE  StartsWith(path, a \o b)
  <2>1. PICK r \in Paths : Strip(path, a) = b \o r
    BY <1>1, <1>4, PrefixAndRest
  <2>2. path = a \o (b \o r)
    BY <1>1, <2>1
  <2>3. path = (a \o b) \o r
    BY <2>1, <2>2, ConcatAssociative DEF Paths
  <2> QED
    BY <1>2, <2>1, <2>3, PrefixOfConcat
<1> QED
  BY <1>3, <1>4

\* Of two prefixes of one path, one is a prefix of the other.
LEMMA PrefixesCompare ==
    ASSUME NEW path \in Paths, NEW a \in Paths, NEW b \in Paths,
           StartsWith(path, a), StartsWith(path, b)
    PROVE  /\ StartsWith(a, b) \/ StartsWith(b, a)
           /\ Len(a) = Len(b) => a = b
<1> USE DEF Paths
<1>1. /\ Len(path) \in Nat /\ Len(a) \in Nat /\ Len(a) <= Len(path)
      /\ Len(b) \in Nat /\ Len(b) <= Len(path)
  BY LenProperties DEF StartsWith
<1>2. ASSUME NEW c \in Paths, NEW d \in Paths, StartsWith(path, c), StartsWith(path, d),
             Len(c) <= Len(d)
      PROVE  StartsWith(d, c)
  <2>1. Len(path) \in Nat /\ Len(c) \in Nat /\ Len(d) \in Nat /\ Len(d) <= Len(path)
    BY <1>2, LenProperties DEF StartsWith
  <2>2. \A i \in 1 .. Len(d) : path[i] \in Components
    BY <2>1, ElementOfSeq
  <2>3. \A i \in 1 .. Len(d) : d[i] = path[i]
    BY <1>2, <2>1, <2>2, SubSeqProperties DEF StartsWith
  <2>4. \A i \in 1 .. Len(c) : c[i] = path[i]
    BY <1>2, <2>1, <2>2, SubSeqProperties DEF StartsWith
  <2>5. /\ SubSeq(d, 1, Len(c)) \in Seq(Components) /\ Len(SubSeq(d, 1, Len(c))) = Len(c)
        /\ \A i \in 1 .. Len(c) : SubSeq(d, 1, Len(c))[i] = d[i]
    BY <1>2, <2>1, ElementOfSeq, SubSeqProperties
  <2>6. SubSeq(d, 1, Len(c)) = c
    BY <1>2, <2>1, <2>3, <2>4, <2>5, SeqEqual
  <2> QED
    BY <1>2, <2>6 DEF StartsWith
<1>3. ASSUME Len(a) = Len(b)
      PROVE  a = b
  BY <1>1, <1>3 DEF StartsWith
<1> QED
  BY <1>1, <1>2, <1>3

\* A prefix of a prefix is a prefix.
LEMMA PrefixOfPrefix ==
    ASSUME NEW path \in Paths, NEW a \in Paths, NEW b \in Paths, StartsWith(path, a), StartsWith(a, b)
    PROVE  StartsWith(path, b)
<1>1. PICK r \in Paths : path = a \o r
  BY PrefixAndRest
<1>2. PICK s \in Paths : a = b \o s
  BY PrefixAndRest
<1>3. path = b \o (s \o r) /\ s \o r \in Paths
  BY <1>1, <1>2, ConcatAssociative, ConcatProperties DEF Paths
<1> QED
  BY <1>3, PrefixOfConcat

-----------------------------------------------------------------------------
(* Namespaces and roots *)

\* A namespace has three components, all of them names.
LEMMA NamespaceIs ==
    ASSUME NEW ns \in Namespaces
    PROVE  ns \in Paths /\ Len(ns) = 3 /\ AllNames(ns) /\ StartsWith(ns, <<"products">>)
<1>1. PICK product \in Products, build \in BuildKeys : ns = <<"products", product, build>>
  BY DEF Namespaces
<1>2. ns \in Paths /\ Len(ns) = 3 /\ AllNames(ns)
  BY <1>1, PathsAssumption DEF Paths, AllNames
<1>3. SubSeq(ns, 1, 1) = <<"products">>
  <2>1. \A i \in 1 .. 1 : ns[i] \in Components
    BY <1>2, ElementOfSeq DEF Paths
  <2>2. /\ SubSeq(ns, 1, 1) \in Seq(Components) /\ Len(SubSeq(ns, 1, 1)) = 1
        /\ SubSeq(ns, 1, 1)[1] = ns[1]
    BY <2>1, SubSeqProperties
  <2>3. <<"products">> \in Seq(Components)
    BY PathsAssumption
  <2>4. ns[1] = "products" /\ Len(<<"products">>) = 1 /\ <<"products">>[1] = "products"
    BY <1>1
  <2>5. \A i \in 1 .. 1 : SubSeq(ns, 1, 1)[i] = <<"products">>[i]
    BY <2>2, <2>4
  <2> QED
    BY <2>2, <2>3, <2>4, <2>5, SeqEqual
<1> QED
  BY <1>2, <1>3 DEF StartsWith

\* The components that the code names.
LEMMA DataIsAPath == <<"data">> \in Paths /\ <<"products">> \in Paths
BY PathsAssumption DEF Paths

\* What relative_data_path returns is a path.
LEMMA RelativeIsAPath ==
    ASSUME NEW path \in Paths, Inside(path)
    PROVE  Relative(path) \in Paths
BY PrefixAndRest, DataIsAPath, RootsArePaths DEF Inside, Relative

\* Below the shared root, it is what follows that root.
LEMMA RelativeToShared ==
    ASSUME RootsApart, NEW rest \in Paths
    PROVE  Inside(SharedRoot \o rest) /\ Relative(SharedRoot \o rest) = rest
<1> DEFINE path == SharedRoot \o rest
<1>1. path \in Paths /\ StartsWith(path, SharedRoot) /\ Strip(path, SharedRoot) = rest
  BY PrefixOfConcat, ConcatProperties, RootsArePaths DEF Paths
<1> HIDE DEF path
<1>2. StartsWith(path, SourceRoot) => SourceRoot = SharedRoot
  BY <1>1, PrefixesCompare, RootsArePaths DEF RootsApart
<1>3. Inside(path) /\ Relative(path) = rest
  BY <1>1, <1>2 DEF Inside, Relative
<1> QED
  BY <1>3 DEF path

\* What is left of names are names.
LEMMA NamesOfConcat ==
    ASSUME NEW a \in Paths, NEW b \in Paths
    PROVE  AllNames(a \o b) <=> AllNames(a) /\ AllNames(b)
<1>1. /\ Len(a \o b) = Len(a) + Len(b) /\ Len(a) \in Nat /\ Len(b) \in Nat
      /\ \A i \in 1 .. Len(a) + Len(b) : (a \o b)[i] = IF i <= Len(a) THEN a[i] ELSE b[i - Len(a)]
  BY ConcatProperties, LenProperties DEF Paths
<1>2. ASSUME AllNames(a \o b)
      PROVE  AllNames(a) /\ AllNames(b)
  <2>1. ASSUME NEW i \in 1 .. Len(b)
        PROVE  b[i] = (a \o b)[i + Len(a)] /\ i + Len(a) \in 1 .. Len(a) + Len(b)
    BY <1>1
  <2>2. AllNames(a)
    BY <1>1, <1>2 DEF AllNames
  <2>3. \A i \in 1 .. Len(b) : b[i] \notin Special
    BY <1>1, <1>2, <2>1 DEF AllNames
  <2> QED
    BY <2>2, <2>3 DEF AllNames
<1>3. ASSUME AllNames(a), AllNames(b)
      PROVE  AllNames(a \o b)
  BY <1>1, <1>3 DEF AllNames
<1> QED
  BY <1>2, <1>3

\* The asset of a path that was accepted.
LEMMA AssetIs ==
    ASSUME NEW ns \in Namespaces, NEW path \in Paths, Accepted(ns, path)
    PROVE  Asset(ns, path) \in Paths /\ AllNames(Asset(ns, path))
<1> DEFINE relative == Relative(path)
<1>1. relative \in Paths /\ AllNames(relative)
  BY RelativeIsAPath DEF Accepted
<1>2. CASE StartsWith(relative, <<"products">>)
  <2>1. StartsWith(relative, ns) /\ Asset(ns, path) = Strip(relative, ns)
    BY <1>2 DEF Accepted, Asset
  <2>2. Strip(relative, ns) \in Paths /\ relative = ns \o Strip(relative, ns)
    BY <1>1, <2>1, NamespaceIs, PrefixAndRest
  <2> QED
    BY <1>1, <2>1, <2>2, NamespaceIs, NamesOfConcat
<1>3. CASE ~StartsWith(relative, <<"products">>)
  BY <1>1, <1>3 DEF Asset
<1> QED
  BY <1>2, <1>3

\* The path of an asset in a namespace belongs to that namespace only.
LEMMA AssetPathIs ==
    ASSUME RootsApart, NEW ns \in Namespaces, NEW asset \in Paths, AllNames(asset)
    PROVE  /\ AssetPath(ns, asset) \in Paths
           /\ StartsWith(AssetPath(ns, asset), AssetRoot(ns))
           /\ Strip(AssetPath(ns, asset), AssetRoot(ns)) = asset
           /\ Accepted(ns, AssetPath(ns, asset)) /\ Scoped(ns, AssetPath(ns, asset)) = AssetPath(ns, asset)
           /\ \A other \in Namespaces : Accepted(other, AssetPath(ns, asset)) => other = ns
<1> DEFINE path == AssetPath(ns, asset)
           relative == ns \o asset
<1>1. ns \in Paths /\ AssetRoot(ns) \in Paths /\ relative \in Paths /\ path \in Paths
  BY NamespaceIs, ConcatProperties, RootsArePaths DEF AssetRoot, AssetPath, Paths
<1>2. path = SharedRoot \o relative
  <2>1. (SharedRoot \o ns) \o asset = SharedRoot \o (ns \o asset)
    BY <1>1, ConcatAssociative, RootsArePaths
  <2> QED
    BY <2>1 DEF AssetPath, AssetRoot
<1>3. Inside(path) /\ Relative(path) = relative
  BY <1>1, <1>2, RelativeToShared
<1>4. StartsWith(relative, ns) /\ Strip(relative, ns) = asset
  BY <1>1, PrefixOfConcat
<1>5. StartsWith(relative, <<"products">>)
  BY <1>1, <1>4, NamespaceIs, DataIsAPath, PrefixOfPrefix
<1>6. AllNames(relative)
  BY <1>1, NamespaceIs, NamesOfConcat
<1>7. StartsWith(path, AssetRoot(ns)) /\ Strip(path, AssetRoot(ns)) = asset
  BY <1>1, PrefixOfConcat DEF AssetPath
<1> HIDE DEF relative, path
<1>8. Accepted(ns, path)
  BY <1>3, <1>4, <1>5, <1>6 DEF Accepted
<1>9. Asset(ns, path) = asset
  BY <1>3, <1>4, <1>5 DEF Asset
<1>10. ASSUME NEW other \in Namespaces, Accepted(other, path)
       PROVE  other = ns
  <2>1. StartsWith(relative, other)
    BY <1>3, <1>5, <1>10 DEF Accepted
  <2> QED
    BY <1>1, <1>4, <2>1, NamespaceIs, PrefixesCompare
<1>11. Scoped(ns, path) = path
  BY <1>9 DEF Scoped, path
<1> QED
  BY <1>1, <1>7, <1>8, <1>10, <1>11 DEF path

-----------------------------------------------------------------------------
(* What scoping promises *)

\* A path that was scoped is accepted again and stays what it is, unless one
\* root lies in the other.
THEOREM ScopedStaysScoped ==
    ASSUME RootsApart, NEW ns \in Namespaces, NEW path \in Paths
    PROVE  ScopingIsStable(ns, path)
BY AssetIs, AssetPathIs DEF ScopingIsStable, Scoped

\* Files of different builds have different paths, and no resolver takes a path
\* of another build.
THEOREM BuildsDoNotMix ==
    ASSUME RootsApart, NEW ns \in Namespaces, NEW other \in Namespaces,
           NEW path \in Paths, NEW path2 \in Paths
    PROVE  BuildsStayApart(ns, other, path, path2)
<1> SUFFICES ASSUME Accepted(ns, path), Accepted(other, path2), ns # other
             PROVE  /\ ~Accepted(other, Scoped(ns, path))
                    /\ Scoped(ns, path) # Scoped(other, path2)
                    /\ AllNames(Strip(Scoped(ns, path), AssetRoot(ns)))
  BY DEF BuildsStayApart
<1>1. ~Accepted(other, Scoped(ns, path))
  BY AssetIs, AssetPathIs DEF Scoped
<1>2. Accepted(other, Scoped(other, path2))
  BY AssetIs, AssetPathIs DEF Scoped
<1>3. AllNames(Strip(Scoped(ns, path), AssetRoot(ns)))
  BY AssetIs, AssetPathIs DEF Scoped
<1> QED
  BY <1>1, <1>2, <1>3

\* read_current_asset_path always finds the asset of a scoped path, and names it
\* as a resolver of the installed build would.
THEOREM InstalledPathsAreScoped ==
    ASSUME RootsApart, NEW ns \in Namespaces, NEW current \in Namespaces,
           NEW path \in Paths
    PROVE  InstalledIsScoped(ns, current, path)
<1> SUFFICES ASSUME Accepted(ns, path)
             PROVE  InstalledIsScoped(ns, current, path)
  BY DEF InstalledIsScoped
<1>1. Asset(ns, path) \in Paths /\ AllNames(Asset(ns, path))
  BY AssetIs
<1>2. StartsWith(Scoped(ns, path), AssetRoot(ns)) /\ Strip(Scoped(ns, path), AssetRoot(ns)) = Asset(ns, path)
  BY <1>1, AssetPathIs DEF Scoped
<1>3. Installed(ns, current, Scoped(ns, path)) = AssetPath(current, Asset(ns, path))
  BY <1>2 DEF Installed
<1>4. Scoped(current, AssetPath(current, Asset(ns, path))) = AssetPath(current, Asset(ns, path))
  BY <1>1, AssetPathIs
<1> QED
  BY <1>2, <1>3, <1>4 DEF InstalledIsScoped

\* Without an identity, a remapped path is not moved again.
THEOREM RemappedStaysRemapped ==
    ASSUME RootsApart, NEW path \in Paths
    PROVE  RemappingIsStable(path)
<1> SUFFICES ASSUME SharedRoot # << >>, Head(SharedRoot) # "data"
             PROVE  Remapped(Remapped(path)) = Remapped(path)
  BY DEF RemappingIsStable
<1>1. ASSUME NEW rest \in Paths
      PROVE  Remapped(SharedRoot \o rest) = SharedRoot \o rest
  <2> DEFINE p == SharedRoot \o rest
  <2>1. p \in Paths /\ StartsWith(p, SharedRoot) /\ Strip(p, SharedRoot) = rest
    BY PrefixOfConcat, ConcatProperties, RootsArePaths DEF Paths
  <2>2. ~StartsWith(p, <<"data">>)
    <3>1. /\ Len(SharedRoot) \in Nat /\ Len(SharedRoot) >= 1 /\ SharedRoot[1] # "data"
          /\ Len(rest) \in Nat
      BY EmptySeq, LenProperties, RootsArePaths DEF Paths
    <3>2. p[1] = SharedRoot[1]
      BY <3>1, ConcatProperties, RootsArePaths DEF Paths
    <3>3. ASSUME StartsWith(p, <<"data">>)
          PROVE  p[1] = "data"
      <4>1. PICK r \in Paths : p = <<"data">> \o r
        BY <2>1, <3>3, DataIsAPath, PrefixAndRest
      <4>2. Len(<<"data">>) = 1 /\ <<"data">>[1] = "data" /\ Len(r) \in Nat
        BY LenProperties DEF Paths
      <4>3. (<<"data">> \o r)[1] = <<"data">>[1]
        BY <4>2, ConcatProperties, DataIsAPath DEF Paths
      <4> QED
        BY <4>1, <4>2, <4>3
    <3> QED
      BY <3>1, <3>2, <3>3
  <2> HIDE DEF p
  <2>3. StartsWith(p, SourceRoot) => SourceRoot = SharedRoot
    BY <2>1, PrefixesCompare, RootsArePaths DEF RootsApart
  <2>4. Remapped(p) = p
    BY <2>1, <2>2, <2>3 DEF Remapped, p
  <2> QED
    BY <2>4 DEF p
<1>2. CASE StartsWith(path, SourceRoot)
  BY <1>1, <1>2, PrefixAndRest, RootsArePaths DEF Remapped
<1>3. CASE ~StartsWith(path, SourceRoot) /\ StartsWith(path, <<"data">>)
  BY <1>1, <1>3, PrefixAndRest, DataIsAPath DEF Remapped
<1>4. CASE ~StartsWith(path, SourceRoot) /\ ~StartsWith(path, <<"data">>)
  BY <1>4 DEF Remapped
<1> QED
  BY <1>2, <1>3, <1>4
=============================================================================
