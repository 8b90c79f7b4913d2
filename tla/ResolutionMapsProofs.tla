------------------------- MODULE ResolutionMapsProofs -------------------------
(***************************************************************************)
(* Proofs about ResolutionMaps, for root and encoding files of any length. *)
(***************************************************************************)
EXTENDS ResolutionMaps, TLAPS

-----------------------------------------------------------------------------
(* The inductive invariant *)

\* The first map says what the records up to a place say.
ContentsUpTo(b, e) ==
    \A id \in Fdids :
        IF fdid_to_ck[id] = None THEN ~HasRecord(id, b, e)
                                 ELSE LastContent(id, fdid_to_ck[id], b, e)

\* The second one says what the entries up to a place say.
EncodingsUpTo(b, e) ==
    \A c \in ContentKeys :
        IF ck_to_ek[c] = None THEN ~HasEntry(c, b, e)
                              ELSE LastKey(c, ck_to_ek[c], b, e)

\* root.bin is located by a usable entry of its key, or there is none so far.
LocateInv ==
    /\ pc = "locate" => ~HasEntry(root_key, outer, inner)
    /\ pc = "failed" => ~HasEntry(root_key, EncodingEnd, 1)
    /\ pc \in {"contents", "encodings", "rows", "done"} => root_location \in KeysOf(root_key)

\* How far the first map has got.
ContentsInv ==
    /\ pc = "locate" => \A id \in Fdids : fdid_to_ck[id] = None
    /\ pc = "contents" => ContentsUpTo(outer, inner)
    /\ pc \in {"encodings", "rows", "done"} => ContentsUpTo(RootEnd, 1)

\* How far the second map has got.
EncodingsInv ==
    /\ pc \in {"locate", "contents"} => \A c \in ContentKeys : ck_to_ek[c] = None
    /\ pc = "encodings" => EncodingsUpTo(outer, inner)
    /\ pc \in {"rows", "done"} => EncodingsUpTo(EncodingEnd, 1)

\* The row of a FileDataID is the join of the two maps.
Joined(id) ==
    IF fdid_to_ck[id] = None \/ ck_to_ek[fdid_to_ck[id]] = None
    THEN resolution[id] = None
    ELSE resolution[id] = <<fdid_to_ck[id], ck_to_ek[fdid_to_ck[id]]>>

\* A row that is not pending joins the two maps, and no row is there before.
RowsInv ==
    /\ pc \in {"locate", "contents", "encodings"} => \A id \in Fdids : resolution[id] = None
    /\ pc = "rows" => \A id \in Fdids :
          IF id \in pending THEN fdid_to_ck[id] # None /\ resolution[id] = None ELSE Joined(id)
    /\ pc = "done" => \A id \in Fdids : Joined(id)

IInv == TypeOK /\ LocateInv /\ ContentsInv /\ EncodingsInv /\ RowsInv

-----------------------------------------------------------------------------
(* The order of places *)

\* Nothing lies before the first place of a file.
LEMMA NothingBeforeFirst ==
    ASSUME NEW i \in Nat \ {0}, NEW j \in Nat \ {0}
    PROVE  ~Before(i, j, 1, 1)
BY DEF Before

\* One place further there is one more place behind.
LEMMA BeforeNext ==
    ASSUME NEW i \in Nat, NEW j \in Nat, NEW b \in Nat, NEW e \in Nat
    PROVE  Before(i, j, b, e + 1) <=> Before(i, j, b, e) \/ (i = b /\ j = e)
BY DEF Before

\* The first place of the next block has all of this block behind it.
LEMMA BeforeNextOuter ==
    ASSUME NEW i \in Nat, NEW j \in Nat \ {0}, NEW b \in Nat
    PROVE  Before(i, j, b + 1, 1) <=> i <= b
BY DEF Before

\* Of two places one is before the other.
LEMMA BeforeIsTotal ==
    ASSUME NEW i \in Nat, NEW j \in Nat, NEW k \in Nat, NEW l \in Nat
    PROVE  Before(i, j, k, l) \/ Before(k, l, i, j) \/ (i = k /\ j = l)
BY DEF Before

\* The order of the places goes one way.
LEMMA BeforeIsStrict ==
    ASSUME NEW i \in Nat, NEW j \in Nat, NEW k \in Nat, NEW l \in Nat, Before(i, j, k, l)
    PROVE  ~Before(k, l, i, j)
BY DEF Before

\* What the shape of the files gives every place in them.
LEMMA RecordsHaveType ==
    ASSUME TypeOK
    PROVE  /\ Len(root) \in Nat
           /\ \A i \in 1..Len(root) :
                /\ i \in Nat \ {0}
                /\ root[i].client \in BOOLEAN
                /\ Len(root[i].records) \in Nat
                /\ \A j \in 1..Len(root[i].records) :
                     /\ j \in Nat \ {0}
                     /\ root[i].records[j].fdid \in Fdids
                     /\ root[i].records[j].content \in ContentKeys
<1>1. root \in Seq(Blocks)
  BY DEF TypeOK
<1>2. Len(root) \in Nat
  BY <1>1
<1>3. ASSUME NEW i \in 1..Len(root)
      PROVE  /\ root[i].client \in BOOLEAN
             /\ root[i].records \in Seq(Records)
  <2>1. root[i] \in Blocks
    BY <1>1
  <2>. QED  BY <2>1 DEF Blocks
<1>4. ASSUME NEW i \in 1..Len(root), NEW j \in 1..Len(root[i].records)
      PROVE  /\ root[i].records[j].fdid \in Fdids
             /\ root[i].records[j].content \in ContentKeys
  <2>1. root[i].records[j] \in Records
    BY <1>3
  <2>. QED  BY <2>1 DEF Records
<1>. QED  BY <1>2, <1>3, <1>4

\* ... and the same of the encoding file.
LEMMA EntriesHaveType ==
    ASSUME TypeOK
    PROVE  /\ Len(encoding) \in Nat
           /\ \A i \in 1..Len(encoding) :
                /\ i \in Nat \ {0}
                /\ Len(encoding[i]) \in Nat
                /\ \A j \in 1..Len(encoding[i]) :
                     /\ j \in Nat \ {0}
                     /\ encoding[i][j].content \in ContentKeys
                     /\ encoding[i][j].keys # << >> => encoding[i][j].keys[1] \in EncodingKeys
<1>1. encoding \in Seq(Pages)
  BY DEF TypeOK
<1>2. Len(encoding) \in Nat
  BY <1>1
<1>3. ASSUME NEW i \in 1..Len(encoding)
      PROVE  encoding[i] \in Seq(Entries)
  BY <1>1 DEF Pages
<1>4. ASSUME NEW i \in 1..Len(encoding), NEW j \in 1..Len(encoding[i])
      PROVE  /\ encoding[i][j].content \in ContentKeys
             /\ encoding[i][j].keys # << >> => encoding[i][j].keys[1] \in EncodingKeys
  <2>1. encoding[i][j] \in Entries
    BY <1>3
  <2>2. encoding[i][j].content \in ContentKeys /\ encoding[i][j].keys \in Seq(EncodingKeys)
    BY <2>1 DEF Entries
  <2>. QED  BY <2>2
<1>. QED  BY <1>2, <1>3, <1>4

-----------------------------------------------------------------------------
(* One record, entry or page further *)

\* A record that a client of this locale sees replaces what the map says of its
\* FileDataID, and nothing else.
LEMMA CollectRecordKeepsMap ==
    ASSUME TypeOK, CollectRecord, ContentsUpTo(outer, inner)
    PROVE  ContentsUpTo(outer, inner)'
<1>. DEFINE rec == root[outer].records[inner]
<1>1. /\ root' = root /\ outer' = outer /\ inner' = inner + 1
      /\ outer \in 1..Len(root) /\ root[outer].client
      /\ inner \in 1..Len(root[outer].records)
  BY DEF CollectRecord, AtRecord, NextInner, input
<1>2. fdid_to_ck' = [fdid_to_ck EXCEPT ![rec.fdid] = rec.content]
  BY DEF CollectRecord
<1>3. fdid_to_ck \in [Fdids -> ContentKeys \cup {None}] /\ outer \in Nat /\ inner \in Nat
  BY DEF TypeOK
<1>4. rec.fdid \in Fdids /\ rec.content \in ContentKeys /\ rec.content # None
  BY <1>1, RecordsHaveType, FilesAssumption
<1>5. \A i \in 1..Len(root) : i \in Nat /\ \A j \in 1..Len(root[i].records) : j \in Nat
  BY RecordsHaveType
<1>6. \A i, j \in Nat :
        Before(i, j, outer, inner + 1) <=> Before(i, j, outer, inner) \/ (i = outer /\ j = inner)
  BY <1>3, BeforeNext
<1>. SUFFICES ASSUME NEW id \in Fdids
              PROVE  IF fdid_to_ck'[id] = None
                     THEN ~HasRecord(id, outer, inner)'
                     ELSE LastContent(id, fdid_to_ck[id], outer, inner)'
  BY DEF ContentsUpTo
<1>7. CASE id = rec.fdid
  <2>1. fdid_to_ck'[id] = rec.content
    BY <1>2, <1>3, <1>4, <1>7
  <2>2. RecordOf(id, outer, inner) /\ Before(outer, inner, outer, inner + 1)
    BY <1>1, <1>3, <1>6, <1>7 DEF RecordOf
  <2>3. \A k \in 1..Len(root) : \A l \in 1..Len(root[k].records) :
          ~(Before(outer, inner, k, l) /\ Before(k, l, outer, inner + 1))
    BY <1>3, <1>5, <1>6, BeforeIsStrict DEF Before
  <2>4. LastContent(id, fdid_to_ck[id], outer, inner)'
    BY <1>1, <2>1, <2>2, <2>3 DEF LastContent, RecordOf
  <2>. QED  BY <2>1, <2>4, <1>4
<1>8. CASE id # rec.fdid
  <2>1. fdid_to_ck'[id] = fdid_to_ck[id]
    BY <1>2, <1>3, <1>4, <1>8
  <2>2. ~RecordOf(id, outer, inner)
    BY <1>8 DEF RecordOf
  <2>3. CASE fdid_to_ck[id] = None
    <3>1. ~HasRecord(id, outer, inner)
      BY <2>3 DEF ContentsUpTo
    <3>2. ~HasRecord(id, outer, inner)'
      BY <3>1, <2>2, <1>1, <1>5, <1>6 DEF HasRecord, RecordOf
    <3>. QED  BY <3>2, <2>1, <2>3
  <2>4. CASE fdid_to_ck[id] # None
    <3>1. LastContent(id, fdid_to_ck[id], outer, inner)
      BY <2>4 DEF ContentsUpTo
    <3>2. PICK i \in 1..Len(root) : \E j \in 1..Len(root[i].records) :
            /\ Before(i, j, outer, inner) /\ RecordOf(id, i, j)
            /\ root[i].records[j].content = fdid_to_ck[id]
            /\ \A k \in 1..Len(root) : \A l \in 1..Len(root[k].records) :
                  Before(i, j, k, l) /\ Before(k, l, outer, inner) => ~RecordOf(id, k, l)
      BY <3>1 DEF LastContent
    <3>3. PICK j \in 1..Len(root[i].records) :
            /\ Before(i, j, outer, inner) /\ RecordOf(id, i, j)
            /\ root[i].records[j].content = fdid_to_ck[id]
            /\ \A k \in 1..Len(root) : \A l \in 1..Len(root[k].records) :
                  Before(i, j, k, l) /\ Before(k, l, outer, inner) => ~RecordOf(id, k, l)
      BY <3>2
    <3>4. Before(i, j, outer, inner + 1)
      BY <3>3, <1>5, <1>6
    <3>5. \A k \in 1..Len(root) : \A l \in 1..Len(root[k].records) :
            Before(i, j, k, l) /\ Before(k, l, outer, inner + 1) => ~RecordOf(id, k, l)
      BY <3>3, <2>2, <1>5, <1>6
    <3>6. LastContent(id, fdid_to_ck[id], outer, inner)'
      BY <3>3, <3>4, <3>5, <2>1, <1>1 DEF LastContent, RecordOf
    <3>. QED  BY <3>6, <2>1, <2>4
  <2>. QED  BY <2>3, <2>4
<1>. QED  BY <1>7, <1>8

\* An entry with an encoding key replaces what the map says of its content key,
\* and one without leaves everything as it is.
LEMMA CollectEntryKeepsMap ==
    ASSUME TypeOK, CollectEntry, EncodingsUpTo(outer, inner)
    PROVE  EncodingsUpTo(outer, inner)'
<1>. DEFINE entry == encoding[outer][inner]
<1>1. /\ encoding' = encoding /\ outer' = outer /\ inner' = inner + 1
      /\ outer \in 1..Len(encoding) /\ inner \in 1..Len(encoding[outer])
  BY DEF CollectEntry, AtEntry, NextInner, input
<1>2. ck_to_ek' = IF entry.keys = << >> THEN ck_to_ek
                  ELSE [ck_to_ek EXCEPT ![entry.content] = entry.keys[1]]
  BY DEF CollectEntry
<1>3. ck_to_ek \in [ContentKeys -> EncodingKeys \cup {None}] /\ outer \in Nat /\ inner \in Nat
  BY DEF TypeOK
<1>4. entry.content \in ContentKeys /\ (entry.keys # << >> => entry.keys[1] # None)
  BY <1>1, EntriesHaveType, FilesAssumption
<1>5. \A i \in 1..Len(encoding) : i \in Nat /\ \A j \in 1..Len(encoding[i]) : j \in Nat
  BY EntriesHaveType
<1>6. \A i, j \in Nat :
        Before(i, j, outer, inner + 1) <=> Before(i, j, outer, inner) \/ (i = outer /\ j = inner)
  BY <1>3, BeforeNext
<1>. SUFFICES ASSUME NEW c \in ContentKeys
              PROVE  IF ck_to_ek'[c] = None
                     THEN ~HasEntry(c, outer, inner)'
                     ELSE LastKey(c, ck_to_ek[c], outer, inner)'
  BY DEF EncodingsUpTo
<1>7. CASE entry.content = c /\ entry.keys # << >>
  <2>1. ck_to_ek'[c] = entry.keys[1]
    BY <1>2, <1>3, <1>4, <1>7
  <2>2. EntryOf(c, outer, inner) /\ Before(outer, inner, outer, inner + 1)
    BY <1>1, <1>3, <1>6, <1>7 DEF EntryOf
  <2>3. \A k \in 1..Len(encoding) : \A l \in 1..Len(encoding[k]) :
          ~(Before(outer, inner, k, l) /\ Before(k, l, outer, inner + 1))
    BY <1>3, <1>5, <1>6, BeforeIsStrict DEF Before
  <2>4. LastKey(c, ck_to_ek[c], outer, inner)'
    BY <1>1, <2>1, <2>2, <2>3 DEF LastKey, EntryOf
  <2>. QED  BY <2>1, <2>4, <1>4, <1>7
<1>8. CASE ~(entry.content = c /\ entry.keys # << >>)
  <2>1. ck_to_ek'[c] = ck_to_ek[c]
    BY <1>2, <1>3, <1>4, <1>8
  <2>2. ~EntryOf(c, outer, inner)
    BY <1>8 DEF EntryOf
  <2>3. CASE ck_to_ek[c] = None
    <3>1. ~HasEntry(c, outer, inner)
      BY <2>3 DEF EncodingsUpTo
    <3>2. ~HasEntry(c, outer, inner)'
      BY <3>1, <2>2, <1>1, <1>5, <1>6 DEF HasEntry, EntryOf
    <3>. QED  BY <3>2, <2>1, <2>3
  <2>4. CASE ck_to_ek[c] # None
    <3>1. LastKey(c, ck_to_ek[c], outer, inner)
      BY <2>4 DEF EncodingsUpTo
    <3>2. PICK i \in 1..Len(encoding) : \E j \in 1..Len(encoding[i]) :
            /\ Before(i, j, outer, inner) /\ EntryOf(c, i, j)
            /\ encoding[i][j].keys[1] = ck_to_ek[c]
            /\ \A k \in 1..Len(encoding) : \A l \in 1..Len(encoding[k]) :
                  Before(i, j, k, l) /\ Before(k, l, outer, inner) => ~EntryOf(c, k, l)
      BY <3>1 DEF LastKey
    <3>3. PICK j \in 1..Len(encoding[i]) :
            /\ Before(i, j, outer, inner) /\ EntryOf(c, i, j)
            /\ encoding[i][j].keys[1] = ck_to_ek[c]
            /\ \A k \in 1..Len(encoding) : \A l \in 1..Len(encoding[k]) :
                  Before(i, j, k, l) /\ Before(k, l, outer, inner) => ~EntryOf(c, k, l)
      BY <3>2
    <3>4. Before(i, j, outer, inner + 1)
      BY <3>3, <1>5, <1>6
    <3>5. \A k \in 1..Len(encoding) : \A l \in 1..Len(encoding[k]) :
            Before(i, j, k, l) /\ Before(k, l, outer, inner + 1) => ~EntryOf(c, k, l)
      BY <3>3, <2>2, <1>5, <1>6
    <3>6. LastKey(c, ck_to_ek[c], outer, inner + 1)
      BY <3>3, <3>4, <3>5 DEF LastKey
    <3>7. LastKey(c, ck_to_ek[c], outer, inner)'
      BY <3>6, <2>1, <1>1 DEF LastKey, EntryOf
    <3>. QED  BY <3>7, <2>1, <2>4
  <2>. QED  BY <2>3, <2>4
<1>. QED  BY <1>7, <1>8

\* Between two places with no visible record, the map says the same of both.
LEMMA ContentsShift ==
    ASSUME NEW b, NEW e, NEW b2, NEW e2,
           \A i \in 1..Len(root) : \A j \in 1..Len(root[i].records) :
               root[i].client => (Before(i, j, b, e) <=> Before(i, j, b2, e2)),
           ContentsUpTo(b, e)
    PROVE  ContentsUpTo(b2, e2)
<1>. SUFFICES ASSUME NEW id \in Fdids
              PROVE  IF fdid_to_ck[id] = None THEN ~HasRecord(id, b2, e2)
                                              ELSE LastContent(id, fdid_to_ck[id], b2, e2)
  BY DEF ContentsUpTo
<1>1. HasRecord(id, b2, e2) => HasRecord(id, b, e)
  BY DEF HasRecord, RecordOf
<1>2. LastContent(id, fdid_to_ck[id], b, e) => LastContent(id, fdid_to_ck[id], b2, e2)
  BY DEF LastContent, RecordOf
<1>. QED  BY <1>1, <1>2 DEF ContentsUpTo

\* Between two places with no usable entry, the map says the same of both.
LEMMA EncodingsShift ==
    ASSUME NEW b, NEW e, NEW b2, NEW e2,
           \A i \in 1..Len(encoding) : \A j \in 1..Len(encoding[i]) :
               Before(i, j, b, e) <=> Before(i, j, b2, e2)
    PROVE  /\ EncodingsUpTo(b, e) => EncodingsUpTo(b2, e2)
           /\ \A c : HasEntry(c, b2, e2) => HasEntry(c, b, e)
<1>1. \A c : HasEntry(c, b2, e2) => HasEntry(c, b, e)
  BY DEF HasEntry
<1>2. \A c, k : LastKey(c, k, b, e) => LastKey(c, k, b2, e2)
  BY DEF LastKey
<1>. QED  BY <1>1, <1>2 DEF EncodingsUpTo

\* The places before the next page, or past the end of the file.
LEMMA PageEnds ==
    ASSUME TypeOK
    PROVE  /\ AtPageEnd => \A i \in 1..Len(encoding) : \A j \in 1..Len(encoding[i]) :
                 Before(i, j, outer, inner) <=> Before(i, j, outer + 1, 1)
           /\ outer > Len(encoding) =>
                 \A i \in 1..Len(encoding) : \A j \in 1..Len(encoding[i]) :
                    Before(i, j, outer, inner) <=> Before(i, j, EncodingEnd, 1)
<1>1. outer \in Nat /\ inner \in Nat /\ Len(encoding) \in Nat
  BY EntriesHaveType DEF TypeOK
<1>2. ASSUME NEW i \in 1..Len(encoding), NEW j \in 1..Len(encoding[i])
      PROVE  i \in Nat /\ j \in Nat /\ j >= 1 /\ Len(encoding[i]) \in Nat /\ j <= Len(encoding[i])
  BY EntriesHaveType
<1>. QED  BY <1>1, <1>2 DEF AtPageEnd, EncodingEnd, Before

\* The places before the next block, or past the end of the file.
LEMMA BlockEnds ==
    ASSUME TypeOK
    PROVE  /\ AtBlockEnd => \A i \in 1..Len(root) : \A j \in 1..Len(root[i].records) :
                 root[i].client => (Before(i, j, outer, inner) <=> Before(i, j, outer + 1, 1))
           /\ outer > Len(root) => \A i \in 1..Len(root) : \A j \in 1..Len(root[i].records) :
                 Before(i, j, outer, inner) <=> Before(i, j, RootEnd, 1)
<1>1. outer \in Nat /\ inner \in Nat /\ Len(root) \in Nat
  BY RecordsHaveType DEF TypeOK
<1>2. ASSUME NEW i \in 1..Len(root), NEW j \in 1..Len(root[i].records)
      PROVE  /\ i \in Nat /\ j \in Nat /\ j >= 1
             /\ Len(root[i].records) \in Nat /\ j <= Len(root[i].records)
  BY RecordsHaveType
<1>. QED  BY <1>1, <1>2 DEF AtBlockEnd, RootEnd, Before

\* Nothing is before the first place.
LEMMA NothingAtStart ==
    ASSUME TypeOK
    PROVE  /\ (\A id \in Fdids : fdid_to_ck[id] = None) => ContentsUpTo(1, 1)
           /\ (\A c \in ContentKeys : ck_to_ek[c] = None) => EncodingsUpTo(1, 1)
           /\ ~HasEntry(root_key, 1, 1)
<1>1. \A id : ~HasRecord(id, 1, 1)
  BY RecordsHaveType, NothingBeforeFirst DEF HasRecord
<1>2. \A c : ~HasEntry(c, 1, 1)
  BY EntriesHaveType, NothingBeforeFirst DEF HasEntry
<1>. QED  BY <1>1, <1>2 DEF ContentsUpTo, EncodingsUpTo

-----------------------------------------------------------------------------
(* Every action keeps the invariant *)

\* The steps that stay within one loop's phase, or go on to the next one, leave
\* the files alone and all but one map.
LEMMA TypesAreKept ==
    ASSUME TypeOK, RowsInv, [Next]_vars
    PROVE  TypeOK'
<1>. USE DEF TypeOK, input, cursor
<1>1. CASE LocateEntry
  <2>1. AtEntry => (encoding[outer][inner].keys # << >> =>
                       encoding[outer][inner].keys[1] \in EncodingKeys)
    BY EntriesHaveType DEF AtEntry
  <2>. QED  BY <1>1, <2>1 DEF LocateEntry, Restart, NextInner
<1>2. CASE NotLocated
  BY <1>2 DEF NotLocated, Restart
<1>3. CASE CollectRecord
  <2>1. root[outer].records[inner].content \in ContentKeys
    BY <1>3, RecordsHaveType DEF CollectRecord, AtRecord
  <2>2. fdid_to_ck' \in [Fdids -> ContentKeys \cup {None}]
    BY <1>3, <2>1 DEF CollectRecord
  <2>. QED  BY <1>3, <2>2 DEF CollectRecord, NextInner
<1>4. CASE NextBlock
  BY <1>4 DEF NextBlock, NextOuter
<1>5. CASE RootCollected
  BY <1>5 DEF RootCollected, Restart
<1>6. CASE CollectEntry
  <2>1. encoding[outer][inner].keys # << >> => encoding[outer][inner].keys[1] \in EncodingKeys
    BY <1>6, EntriesHaveType DEF CollectEntry, AtEntry
  <2>2. ck_to_ek' \in [ContentKeys -> EncodingKeys \cup {None}]
    BY <1>6, <2>1 DEF CollectEntry
  <2>. QED  BY <1>6, <2>2 DEF CollectEntry, NextInner
<1>7. CASE NextPage
  BY <1>7 DEF NextPage, NextOuter
<1>8. CASE EncodingCollected
  BY <1>8 DEF EncodingCollected, Restart
<1>9. ASSUME NEW id \in Fdids, InsertRow(id) PROVE TypeOK'
  <2>. DEFINE found == ck_to_ek[fdid_to_ck[id]]
  <2>1. fdid_to_ck[id] \in ContentKeys
    BY <1>9 DEF InsertRow, RowsInv
  <2>2. found # None => <<fdid_to_ck[id], found>> \in ContentKeys \X EncodingKeys
    BY <2>1
  <2>3. resolution' \in [Fdids -> (ContentKeys \X EncodingKeys) \cup {None}]
    BY <1>9, <2>2 DEF InsertRow
  <2>. QED  BY <1>9, <2>3 DEF InsertRow
<1>10. CASE RowsInserted
  BY <1>10 DEF RowsInserted, Restart
<1>11. CASE UNCHANGED vars
  BY <1>11 DEF vars
<1>. QED  BY <1>1, <1>2, <1>3, <1>4, <1>5, <1>6, <1>7, <1>8, <1>9, <1>10, <1>11 DEF Next

\* What was said of a place is still said of it if the files and the map are
\* what they were.
LEMMA ContentsStay ==
    ASSUME UNCHANGED <<root, fdid_to_ck>>
    PROVE  /\ ContentsUpTo(RootEnd, 1) => ContentsUpTo(RootEnd, 1)'
           /\ ContentsUpTo(outer', inner') => ContentsUpTo(outer, inner)'
BY DEF ContentsUpTo, HasRecord, LastContent, RecordOf, RootEnd

\* ... and of the encoding file's.
LEMMA EncodingsStay ==
    ASSUME UNCHANGED <<encoding, ck_to_ek>>
    PROVE  /\ EncodingsUpTo(EncodingEnd, 1) => EncodingsUpTo(EncodingEnd, 1)'
           /\ EncodingsUpTo(outer', inner') => EncodingsUpTo(outer, inner)'
BY DEF EncodingsUpTo, HasEntry, LastKey, EntryOf, EncodingEnd

\* ... and of where the root's own key may lie.
LEMMA EntriesStay ==
    ASSUME UNCHANGED <<encoding, root_key>>
    PROVE  /\ ~HasEntry(root_key, EncodingEnd, 1) => ~HasEntry(root_key, EncodingEnd, 1)'
           /\ ~HasEntry(root_key, outer', inner') => ~HasEntry(root_key, outer, inner)'
           /\ KeysOf(root_key)' = KeysOf(root_key)
BY DEF HasEntry, EntryOf, EncodingEnd, KeysOf

\* Every step keeps what the content keys so far say of the root file.
LEMMA ContentsInvKept ==
    ASSUME IInv, [Next]_vars
    PROVE  ContentsInv'
<1>. USE DEF ContentsInv, input, cursor
<1>. TypeOK /\ ContentsInv
  BY DEF IInv
<1>1. CASE LocateEntry \/ NotLocated
  <2>1. UNCHANGED <<root, fdid_to_ck>> /\ pc = "locate"
    BY <1>1 DEF LocateEntry, NotLocated
  <2>2. pc' \in {"locate", "failed"} \/ (pc' = "contents" /\ outer' = 1 /\ inner' = 1)
    BY <1>1, <2>1 DEF LocateEntry, NotLocated, Restart, NextInner
  <2>3. ContentsUpTo(1, 1)
    BY <2>1, NothingAtStart
  <2>. QED  BY <2>1, <2>2, <2>3, ContentsStay
<1>2. CASE CollectRecord
  BY <1>2, CollectRecordKeepsMap DEF CollectRecord, NextInner
<1>3. CASE NextBlock
  <2>1. UNCHANGED <<root, fdid_to_ck, pc>> /\ pc = "contents" /\ outer' = outer + 1 /\ inner' = 1
    BY <1>3 DEF NextBlock, NextOuter
  <2>2. ContentsUpTo(outer + 1, 1)
    BY <1>3, <2>1, BlockEnds, ContentsShift DEF NextBlock
  <2>. QED  BY <2>1, <2>2, ContentsStay
<1>4. CASE RootCollected
  <2>1. UNCHANGED <<root, fdid_to_ck>> /\ pc = "contents" /\ pc' = "encodings"
    BY <1>4 DEF RootCollected, Restart
  <2>2. ContentsUpTo(RootEnd, 1)
    BY <1>4, <2>1, BlockEnds, ContentsShift DEF RootCollected
  <2>. QED  BY <2>1, <2>2, ContentsStay
<1>5. CASE CollectEntry \/ EncodingCollected \/ RowsInserted \/ \E id \in Fdids : InsertRow(id)
  <2>1. /\ UNCHANGED <<root, fdid_to_ck>>
        /\ pc \in {"encodings", "rows"} /\ pc' \in {"encodings", "rows", "done"}
    BY <1>5 DEF CollectEntry, EncodingCollected, RowsInserted, InsertRow, Restart, NextInner
  <2>. QED  BY <2>1, ContentsStay
<1>6. CASE NextPage
  BY <1>6, ContentsStay DEF NextPage, NextOuter
<1>7. CASE UNCHANGED vars
  BY <1>7, ContentsStay DEF vars
<1>. QED  BY <1>1, <1>2, <1>3, <1>4, <1>5, <1>6, <1>7 DEF Next

\* Every step keeps what the encoding keys so far say of the encoding file.
LEMMA EncodingsInvKept ==
    ASSUME IInv, [Next]_vars
    PROVE  EncodingsInv'
<1>. USE DEF EncodingsInv, input, cursor
<1>. TypeOK /\ EncodingsInv
  BY DEF IInv
<1>1. CASE LocateEntry \/ NotLocated \/ CollectRecord \/ NextBlock
  <2>1. UNCHANGED <<encoding, ck_to_ek>> /\ pc \in {"locate", "contents"}
        /\ pc' \in {"locate", "failed", "contents"}
    BY <1>1 DEF LocateEntry, NotLocated, CollectRecord, NextBlock, Restart, NextInner, NextOuter
  <2>. QED  BY <2>1
<1>2. CASE RootCollected
  <2>1. /\ UNCHANGED <<encoding, ck_to_ek>> /\ pc = "contents"
        /\ pc' = "encodings" /\ outer' = 1 /\ inner' = 1
    BY <1>2 DEF RootCollected, Restart
  <2>. QED  BY <2>1, NothingAtStart, EncodingsStay
<1>3. CASE CollectEntry
  BY <1>3, CollectEntryKeepsMap DEF CollectEntry, NextInner
<1>4. CASE NextPage
  <2>1. /\ UNCHANGED <<encoding, ck_to_ek, pc>> /\ pc \in {"locate", "encodings"}
        /\ outer' = outer + 1 /\ inner' = 1
    BY <1>4 DEF NextPage, NextOuter
  <2>2. pc = "encodings" => EncodingsUpTo(outer + 1, 1)
    BY <1>4, PageEnds, EncodingsShift DEF NextPage
  <2>. QED  BY <2>1, <2>2, EncodingsStay
<1>5. CASE EncodingCollected
  <2>1. UNCHANGED <<encoding, ck_to_ek>> /\ pc = "encodings" /\ pc' = "rows"
    BY <1>5 DEF EncodingCollected, Restart
  <2>2. EncodingsUpTo(EncodingEnd, 1)
    BY <1>5, <2>1, PageEnds, EncodingsShift DEF EncodingCollected
  <2>. QED  BY <2>1, <2>2, EncodingsStay
<1>6. CASE RowsInserted \/ \E id \in Fdids : InsertRow(id)
  <2>1. UNCHANGED <<encoding, ck_to_ek>> /\ pc = "rows" /\ pc' \in {"rows", "done"}
    BY <1>6 DEF RowsInserted, InsertRow, Restart
  <2>. QED  BY <2>1, EncodingsStay
<1>7. CASE UNCHANGED vars
  BY <1>7, EncodingsStay DEF vars
<1>. QED  BY <1>1, <1>2, <1>3, <1>4, <1>5, <1>6, <1>7 DEF Next

\* Every step keeps where the root file was located, or that it was not yet.
LEMMA LocateInvKept ==
    ASSUME IInv, [Next]_vars
    PROVE  LocateInv'
<1>. USE DEF LocateInv, input, cursor
<1>. TypeOK /\ LocateInv
  BY DEF IInv
<1>1. CASE LocateEntry
  <2>. DEFINE entry == encoding[outer][inner]
  <2>1. /\ UNCHANGED <<encoding, root_key>> /\ pc = "locate"
        /\ outer \in 1..Len(encoding) /\ inner \in 1..Len(encoding[outer])
    BY <1>1 DEF LocateEntry, AtEntry
  <2>2. CASE EntryOf(root_key, outer, inner)
    <3>1. pc' = "contents" /\ root_location' = entry.keys[1]
      BY <1>1, <2>2 DEF LocateEntry, Restart, EntryOf
    <3>2. entry.keys[1] \in KeysOf(root_key)
      BY <2>1, <2>2, EntriesHaveType DEF KeysOf, EntryOf
    <3>. QED  BY <2>1, <3>1, <3>2, EntriesStay
  <2>3. CASE ~EntryOf(root_key, outer, inner)
    <3>1. pc' = "locate" /\ outer' = outer /\ inner' = inner + 1
      BY <1>1, <2>3 DEF LocateEntry, NextInner, EntryOf
    <3>2. \A i \in 1..Len(encoding) : i \in Nat /\ \A j \in 1..Len(encoding[i]) : j \in Nat
      BY EntriesHaveType
    <3>3. outer \in Nat /\ inner \in Nat
      BY DEF TypeOK
    <3>4. ~HasEntry(root_key, outer, inner + 1)
      BY <2>1, <2>3, <3>2, <3>3, BeforeNext DEF HasEntry
    <3>. QED  BY <2>1, <3>1, <3>4, EntriesStay
  <2>. QED  BY <2>2, <2>3
<1>2. CASE NotLocated
  <2>1. UNCHANGED <<encoding, root_key>> /\ pc = "locate" /\ pc' = "failed"
    BY <1>2 DEF NotLocated, Restart
  <2>2. ~HasEntry(root_key, EncodingEnd, 1)
    BY <1>2, <2>1, PageEnds, EncodingsShift DEF NotLocated
  <2>. QED  BY <2>1, <2>2, EntriesStay
<1>3. CASE NextPage
  <2>1. /\ UNCHANGED <<encoding, root_key, root_location, pc>> /\ pc \in {"locate", "encodings"}
        /\ outer' = outer + 1 /\ inner' = 1
    BY <1>3 DEF NextPage, NextOuter
  <2>2. pc = "locate" => ~HasEntry(root_key, outer + 1, 1)
    BY <1>3, PageEnds, EncodingsShift DEF NextPage
  <2>. QED  BY <2>1, <2>2, EntriesStay
<1>4. CASE \/ CollectRecord \/ NextBlock \/ RootCollected \/ CollectEntry
           \/ EncodingCollected \/ RowsInserted \/ \E id \in Fdids : InsertRow(id)
  <2>1. /\ UNCHANGED <<encoding, root_key, root_location>>
        /\ pc \in {"contents", "encodings", "rows"}
        /\ pc' \in {"contents", "encodings", "rows", "done"}
    BY <1>4 DEF CollectRecord, NextBlock, RootCollected, CollectEntry, EncodingCollected,
                RowsInserted, InsertRow, Restart, NextInner, NextOuter
  <2>. QED  BY <2>1, EntriesStay
<1>5. CASE UNCHANGED vars
  BY <1>5, EntriesStay DEF vars
<1>. QED  BY <1>1, <1>2, <1>3, <1>4, <1>5 DEF Next

\* Every step keeps that the rows so far join the two maps.
LEMMA RowsInvKept ==
    ASSUME IInv, [Next]_vars
    PROVE  RowsInv'
<1>. USE DEF RowsInv, input, cursor
<1>. TypeOK /\ RowsInv
  BY DEF IInv
<1>1. CASE \/ LocateEntry \/ NotLocated \/ CollectRecord \/ NextBlock
           \/ RootCollected \/ CollectEntry \/ NextPage
  <2>1. /\ UNCHANGED resolution /\ pc \in {"locate", "contents", "encodings"}
        /\ pc' \in {"locate", "failed", "contents", "encodings"}
    BY <1>1 DEF LocateEntry, NotLocated, CollectRecord, NextBlock, RootCollected, CollectEntry,
                NextPage, Restart, NextInner, NextOuter
  <2>. QED  BY <2>1
<1>2. CASE EncodingCollected
  BY <1>2 DEF EncodingCollected, Restart, Joined
<1>3. ASSUME NEW id \in Fdids, InsertRow(id) PROVE RowsInv'
  <2>. DEFINE found == ck_to_ek[fdid_to_ck[id]]
  <2>1. UNCHANGED <<pc, fdid_to_ck, ck_to_ek>> /\ pc = "rows" /\ pending' = pending \ {id}
    BY <1>3 DEF InsertRow
  <2>2. fdid_to_ck[id] # None /\ resolution[id] = None
    BY <1>3 DEF InsertRow
  <2>3. /\ resolution'[id] = IF found = None THEN None ELSE <<fdid_to_ck[id], found>>
        /\ \A other \in Fdids : other # id => resolution'[other] = resolution[other]
    BY <1>3, <2>2 DEF InsertRow, TypeOK
  <2>. QED  BY <2>1, <2>2, <2>3 DEF Joined
<1>4. CASE RowsInserted
  BY <1>4 DEF RowsInserted, Restart, Joined
<1>5. CASE UNCHANGED vars
  BY <1>5 DEF vars, Joined
<1>. QED  BY <1>1, <1>2, <1>3, <1>4, <1>5 DEF Next

-----------------------------------------------------------------------------
(* Theorems *)

\* At each point of the loops the maps and the table say what the files say up
\* to there (casc_cache.rs:228-312, casc_resolver.rs:867-886).
THEOREM LoopsAreCorrect == Spec => []IInv
<1>1. Init => IInv
  <2>. SUFFICES ASSUME Init PROVE IInv
    OBVIOUS
  <2>1. TypeOK
    BY FilesAssumption DEF Init, TypeOK
  <2>2. LocateInv
    BY <2>1, NothingAtStart DEF Init, LocateInv
  <2>. QED  BY <2>1, <2>2 DEF Init, IInv, ContentsInv, EncodingsInv, RowsInv
<1>2. IInv /\ [Next]_vars => IInv'
  <2>1. IInv /\ [Next]_vars => TypeOK'
    BY TypesAreKept DEF IInv
  <2>. QED
    BY <2>1, LocateInvKept, ContentsInvKept, EncodingsInvKept, RowsInvKept DEF IInv
<1>. QED  BY <1>1, <1>2, PTL DEF Spec

\* Every variable has its type.
THEOREM TypeCorrect == Spec => []TypeOK
<1>1. IInv => TypeOK
  BY DEF IInv
<1>. QED  BY <1>1, LoopsAreCorrect, PTL

\* The content key of a FileDataID is that of its last visible record, for root
\* files with any number of blocks and records (casc_cache.rs:231-245).
THEOREM LastRecordsWin == Spec => []LastVisibleRecordWins
<1>1. IInv => LastVisibleRecordWins
  BY DEF IInv, ContentsInv, ContentsUpTo, LastVisibleRecordWins
<1>. QED  BY <1>1, LoopsAreCorrect, PTL

\* There is one last record.
LEMMA LastContentIsOne ==
    ASSUME TypeOK, NEW id, NEW b, NEW e, NEW c, NEW d,
           LastContent(id, c, b, e), LastContent(id, d, b, e)
    PROVE  c = d
<1>1. \A i \in 1..Len(root) : i \in Nat /\ \A j \in 1..Len(root[i].records) : j \in Nat
  BY RecordsHaveType
<1>2. PICK i, j :
        /\ i \in 1..Len(root) /\ j \in 1..Len(root[i].records)
        /\ Before(i, j, b, e) /\ RecordOf(id, i, j) /\ root[i].records[j].content = c
        /\ \A k \in 1..Len(root) : \A l \in 1..Len(root[k].records) :
              Before(i, j, k, l) /\ Before(k, l, b, e) => ~RecordOf(id, k, l)
  BY DEF LastContent
<1>3. PICK m, n :
        /\ m \in 1..Len(root) /\ n \in 1..Len(root[m].records)
        /\ Before(m, n, b, e) /\ RecordOf(id, m, n) /\ root[m].records[n].content = d
        /\ \A k \in 1..Len(root) : \A l \in 1..Len(root[k].records) :
              Before(m, n, k, l) /\ Before(k, l, b, e) => ~RecordOf(id, k, l)
  BY DEF LastContent
<1>4. ~Before(i, j, m, n) /\ ~Before(m, n, i, j)
  BY <1>2, <1>3
<1>5. i = m /\ j = n
  BY <1>1, <1>2, <1>3, <1>4, BeforeIsTotal
<1>. QED  BY <1>2, <1>3, <1>5

\* A table has a row for exactly the FileDataIDs whose last visible record can
\* be resolved, and it joins that record with the last entry of its content key
\* (casc_cache.rs:295-307).
THEOREM RowsFollow == Spec => []RowsFollowLastRecord
<1>1. IInv => RowsFollowLastRecord
  <2>. SUFFICES ASSUME IInv, pc = "done", NEW id \in Fdids
                PROVE  IF resolution[id] = None
                       THEN \A c \in ContentKeys :
                               LastContent(id, c, RootEnd, 1) => ~HasEntry(c, EncodingEnd, 1)
                       ELSE /\ LastContent(id, resolution[id][1], RootEnd, 1)
                            /\ LastKey(resolution[id][1], resolution[id][2], EncodingEnd, 1)
    BY DEF RowsFollowLastRecord
  <2>. DEFINE ck == fdid_to_ck[id]
  <2>1. TypeOK /\ Joined(id) /\ ContentsUpTo(RootEnd, 1) /\ EncodingsUpTo(EncodingEnd, 1)
    BY DEF IInv, RowsInv, ContentsInv, EncodingsInv
  <2>2. ck \in ContentKeys \cup {None}
    BY <2>1 DEF TypeOK
  <2>3. CASE ck = None
    <3>1. resolution[id] = None /\ ~HasRecord(id, RootEnd, 1)
      BY <2>1, <2>3 DEF Joined, ContentsUpTo
    <3>2. \A c : ~LastContent(id, c, RootEnd, 1)
      BY <3>1 DEF LastContent, HasRecord
    <3>. QED  BY <3>1, <3>2
  <2>4. CASE ck # None
    <3>1. ck \in ContentKeys /\ LastContent(id, ck, RootEnd, 1)
      BY <2>1, <2>2, <2>4 DEF ContentsUpTo
    <3>2. CASE ck_to_ek[ck] = None
      <4>1. resolution[id] = None /\ ~HasEntry(ck, EncodingEnd, 1)
        BY <2>1, <3>1, <3>2 DEF Joined, EncodingsUpTo
      <4>2. \A c : LastContent(id, c, RootEnd, 1) => c = ck
        BY <2>1, <3>1, LastContentIsOne
      <4>. QED  BY <4>1, <4>2
    <3>3. CASE ck_to_ek[ck] # None
      <4>1. resolution[id] = <<ck, ck_to_ek[ck]>>
        BY <2>1, <2>4, <3>3 DEF Joined
      <4>2. LastKey(ck, ck_to_ek[ck], EncodingEnd, 1)
        BY <2>1, <3>1, <3>3 DEF EncodingsUpTo
      <4>3. <<ck, ck_to_ek[ck]>> # None
        BY <2>1, <3>1, <3>3, FilesAssumption DEF TypeOK
      <4>4. resolution[id][1] = ck /\ resolution[id][2] = ck_to_ek[ck]
        BY <4>1
      <4>. QED  BY <3>1, <4>1, <4>2, <4>3, <4>4
    <3>. QED  BY <3>2, <3>3
  <2>. QED  BY <2>3, <2>4
<1>. QED  BY <1>1, LoopsAreCorrect, PTL

\* The key of root.bin and the table's key for its content key are keys of that
\* content key, and the same one where the encoding file has one answer; both
\* are missing or none is (casc_resolver.rs:873-880, casc_cache.rs:254-256).
THEOREM LookupsDoAgree == Spec => []LookupsAgree
<1>1. IInv => LookupsAgree
  <2>. SUFFICES ASSUME IInv PROVE LookupsAgree
    OBVIOUS
  <2>1. TypeOK /\ LocateInv /\ EncodingsInv
    BY DEF IInv
  <2>2. root_key \in ContentKeys
    BY <2>1 DEF TypeOK
  <2>3. ASSUME NEW i \in 1..Len(encoding), NEW j \in 1..Len(encoding[i])
        PROVE  Before(i, j, EncodingEnd, 1)
    BY <2>1, <2>3, EntriesHaveType DEF Before, EncodingEnd
  <2>4. KeysOf(root_key) # {} => HasEntry(root_key, EncodingEnd, 1)
    BY <2>3 DEF KeysOf, HasEntry
  <2>5. pc = "failed" => KeysOf(root_key) = {}
    BY <2>1, <2>4 DEF LocateInv
  <2>6. ASSUME pc \in {"rows", "done"}
        PROVE  {root_location, ck_to_ek[root_key]} \subseteq KeysOf(root_key)
    <3>1. root_location \in KeysOf(root_key)
      BY <2>1, <2>6 DEF LocateInv
    <3>2. ck_to_ek[root_key] # None
      BY <2>1, <2>2, <2>4, <2>6, <3>1 DEF EncodingsInv, EncodingsUpTo
    <3>3. LastKey(root_key, ck_to_ek[root_key], EncodingEnd, 1)
      BY <2>1, <2>2, <2>6, <3>2 DEF EncodingsInv, EncodingsUpTo
    <3>4. ck_to_ek[root_key] \in EncodingKeys
      BY <2>1, <2>2, <3>2 DEF TypeOK
    <3>5. ck_to_ek[root_key] \in KeysOf(root_key)
      BY <3>3, <3>4 DEF LastKey, KeysOf
    <3>. QED  BY <3>1, <3>5
  <2>. QED  BY <2>5, <2>6 DEF LookupsAgree
<1>. QED  BY <1>1, LoopsAreCorrect, PTL
=============================================================================
