---------------------------- MODULE ResolutionMaps ----------------------------
(***************************************************************************)
(* casc_cache.rs: what the rows of a resolution namespace say, that        *)
(* NamespacePublisher builds and publishes.  root.bin is a sequence of     *)
(* blocks of records, encoding.bin one of pages of entries; a FileDataID   *)
(* and a content key may occur several times in them.  Two loops collect   *)
(* a map each, a third joins the maps.  Before there is a table, the       *)
(* resolver looks the content key of root.bin itself up in the same        *)
(* encoding file, in a loop of its own and by another rule.                *)
(*                                                                         *)
(* One step is one record, entry or row.  The maps are total: None is      *)
(* the value of a key that is not in them.                                 *)
(***************************************************************************)
EXTENDS Naturals, Sequences

CONSTANTS
    Fdids, ContentKeys, EncodingKeys, None,
    Files           \* the pairs of a root and an encoding file there may be

Records == [fdid : Fdids, content : ContentKeys]
Blocks == [client : BOOLEAN, records : Seq(Records)]
Entries == [content : ContentKeys, keys : Seq(EncodingKeys)]
Pages == Seq(Entries)

ASSUME FilesAssumption ==
    /\ None \notin ContentKeys \cup EncodingKeys \cup (ContentKeys \X EncodingKeys)
    /\ Files \subseteq Seq(Blocks) \X Seq(Pages)

VARIABLES
    root, encoding,     \* the two files
    root_key,           \* the content key of root.bin
    pc,
    outer, inner,       \* where the present loop is: block or page, and in it
    root_location,      \* the encoding key that root.bin is read by
    fdid_to_ck, ck_to_ek,
    pending,            \* FileDataIDs the third loop has not come to
    resolution          \* the table

input == <<root, encoding, root_key>>
cursor == <<outer, inner>>
vars == <<input, pc, cursor, root_location, fdid_to_ck, ck_to_ek, pending, resolution>>

Init ==
    /\ \E f \in Files : root = f[1] /\ encoding = f[2]
    /\ root_key \in ContentKeys
    /\ pc = "locate"
    /\ outer = 1 /\ inner = 1
    /\ root_location = None
    /\ fdid_to_ck = [id \in Fdids |-> None]
    /\ ck_to_ek = [c \in ContentKeys |-> None]
    /\ pending = {}
    /\ resolution = [id \in Fdids |-> None]

Restart(point) == pc' = point /\ outer' = 1 /\ inner' = 1
NextInner == inner' = inner + 1 /\ UNCHANGED <<pc, outer>>
NextOuter == outer' = outer + 1 /\ inner' = 1 /\ UNCHANGED pc

AtEntry == outer \in 1..Len(encoding) /\ inner \in 1..Len(encoding[outer])
AtPageEnd == outer \in 1..Len(encoding) /\ inner > Len(encoding[outer])
AtRecord == outer \in 1..Len(root) /\ root[outer].client /\ inner \in 1..Len(root[outer].records)

\* The block is over, or is not for a client of this locale.
AtBlockEnd ==
    /\ outer \in 1..Len(root)
    /\ ~root[outer].client \/ inner > Len(root[outer].records)

-----------------------------------------------------------------------------
(* resolve_content_key_from_encoding *)

\* Mutant: the first entry of the content key, with a key or not.
LocateAnyEntry ==
    /\ pc = "locate" /\ AtEntry
    /\ IF encoding[outer][inner].content = root_key
       THEN /\ IF encoding[outer][inner].keys = << >>
               THEN Restart("failed") /\ UNCHANGED root_location
               ELSE root_location' = encoding[outer][inner].keys[1] /\ Restart("contents")
       ELSE NextInner /\ UNCHANGED root_location
    /\ UNCHANGED <<input, fdid_to_ck, ck_to_ek, pending, resolution>>

LocateEntry ==
    /\ pc = "locate" /\ AtEntry
    /\ LET entry == encoding[outer][inner]
       IN  IF entry.content = root_key /\ entry.keys # << >>
           THEN root_location' = entry.keys[1] /\ Restart("contents")
           ELSE NextInner /\ UNCHANGED root_location
    /\ UNCHANGED <<input, fdid_to_ck, ck_to_ek, pending, resolution>>

\* "encoding.bin does not map root content key": there is nothing to build from.
NotLocated ==
    /\ pc = "locate" /\ outer > Len(encoding)
    /\ Restart("failed")
    /\ UNCHANGED <<input, root_location, fdid_to_ck, ck_to_ek, pending, resolution>>

-----------------------------------------------------------------------------
(* collect_fdid_to_content_keys *)

\* Mutant: HashMap::entry().or_insert, as in the listfile's indexes.
CollectFirstRecord ==
    /\ pc = "contents" /\ AtRecord
    /\ LET record == root[outer].records[inner]
       IN  fdid_to_ck' = [fdid_to_ck EXCEPT ![record.fdid] =
                             IF @ = None THEN record.content ELSE @]
    /\ NextInner
    /\ UNCHANGED <<input, root_location, ck_to_ek, pending, resolution>>

CollectRecord ==
    /\ pc = "contents" /\ AtRecord
    /\ LET record == root[outer].records[inner]
       IN  fdid_to_ck' = [fdid_to_ck EXCEPT ![record.fdid] = record.content]
    /\ NextInner
    /\ UNCHANGED <<input, root_location, ck_to_ek, pending, resolution>>

NextBlock ==
    /\ pc = "contents" /\ AtBlockEnd
    /\ NextOuter
    /\ UNCHANGED <<input, root_location, fdid_to_ck, ck_to_ek, pending, resolution>>

RootCollected ==
    /\ pc = "contents" /\ outer > Len(root)
    /\ Restart("encodings")
    /\ UNCHANGED <<input, root_location, fdid_to_ck, ck_to_ek, pending, resolution>>

(* collect_content_to_encoding_keys *)

\* An entry without a key leaves what an earlier one said.
CollectEntry ==
    /\ pc = "encodings" /\ AtEntry
    /\ LET entry == encoding[outer][inner]
       IN  ck_to_ek' = IF entry.keys = << >> THEN ck_to_ek
                       ELSE [ck_to_ek EXCEPT ![entry.content] = entry.keys[1]]
    /\ NextInner
    /\ UNCHANGED <<input, root_location, fdid_to_ck, pending, resolution>>

\* The next page of either loop over the encoding file.
NextPage ==
    /\ pc \in {"locate", "encodings"} /\ AtPageEnd
    /\ NextOuter
    /\ UNCHANGED <<input, root_location, fdid_to_ck, ck_to_ek, pending, resolution>>

EncodingCollected ==
    /\ pc = "encodings" /\ outer > Len(encoding)
    /\ Restart("rows")
    /\ pending' = {id \in Fdids : fdid_to_ck[id] # None}
    /\ UNCHANGED <<input, root_location, fdid_to_ck, ck_to_ek, resolution>>

-----------------------------------------------------------------------------
(* insert_resolution_rows: in the order of a hash map, which is any *)

\* Mutant: the first content key without an encoding key ends the loop.
InsertRowsUntilMissing(id) ==
    /\ pc = "rows" /\ id \in pending
    /\ LET found == ck_to_ek[fdid_to_ck[id]]
       IN  /\ resolution' = IF found = None THEN resolution
                            ELSE [resolution EXCEPT ![id] = <<fdid_to_ck[id], found>>]
           /\ pending' = IF found = None THEN {} ELSE pending \ {id}
    /\ UNCHANGED <<input, pc, cursor, root_location, fdid_to_ck, ck_to_ek>>

\* A content key without an encoding key has no row.
InsertRow(id) ==
    /\ pc = "rows" /\ id \in pending
    /\ LET found == ck_to_ek[fdid_to_ck[id]]
       IN  resolution' = IF found = None THEN resolution
                         ELSE [resolution EXCEPT ![id] = <<fdid_to_ck[id], found>>]
    /\ pending' = pending \ {id}
    /\ UNCHANGED <<input, pc, cursor, root_location, fdid_to_ck, ck_to_ek>>

RowsInserted ==
    /\ pc = "rows" /\ pending = {}
    /\ Restart("done")
    /\ UNCHANGED <<input, root_location, fdid_to_ck, ck_to_ek, pending, resolution>>

Next ==
    \/ LocateEntry \/ NotLocated
    \/ CollectRecord \/ NextBlock \/ RootCollected
    \/ CollectEntry \/ NextPage \/ EncodingCollected
    \/ \E id \in Fdids : InsertRow(id)
    \/ RowsInserted

Spec == Init /\ [][Next]_vars

-----------------------------------------------------------------------------
(* What the files say, up to but not including the place <<b, e>> *)

Before(i, j, b, e) == i < b \/ (i = b /\ j < e)

\* The place is a record of id that a client of this locale sees.
RecordOf(id, i, j) == root[i].client /\ root[i].records[j].fdid = id

HasRecord(id, b, e) ==
    \E i \in 1..Len(root) : \E j \in 1..Len(root[i].records) :
        Before(i, j, b, e) /\ RecordOf(id, i, j)

\* Its last one has this content key.
LastContent(id, content, b, e) ==
    \E i \in 1..Len(root) : \E j \in 1..Len(root[i].records) :
        /\ Before(i, j, b, e) /\ RecordOf(id, i, j)
        /\ root[i].records[j].content = content
        /\ \A k \in 1..Len(root) : \A l \in 1..Len(root[k].records) :
              Before(i, j, k, l) /\ Before(k, l, b, e) => ~RecordOf(id, k, l)

\* The place is an entry of the content key that has an encoding key.
EntryOf(content, i, j) ==
    encoding[i][j].content = content /\ encoding[i][j].keys # << >>

HasEntry(content, b, e) ==
    \E i \in 1..Len(encoding) : \E j \in 1..Len(encoding[i]) :
        Before(i, j, b, e) /\ EntryOf(content, i, j)

\* The last of these entries has this first key.
LastKey(content, key, b, e) ==
    \E i \in 1..Len(encoding) : \E j \in 1..Len(encoding[i]) :
        /\ Before(i, j, b, e) /\ EntryOf(content, i, j)
        /\ encoding[i][j].keys[1] = key
        /\ \A k \in 1..Len(encoding) : \A l \in 1..Len(encoding[k]) :
              Before(i, j, k, l) /\ Before(k, l, b, e) => ~EntryOf(content, k, l)

\* The first keys of all entries of a content key.
KeysOf(content) ==
    {k \in EncodingKeys : \E i \in 1..Len(encoding) : \E j \in 1..Len(encoding[i]) :
        EntryOf(content, i, j) /\ encoding[i][j].keys[1] = k}

RootEnd == Len(root) + 1
EncodingEnd == Len(encoding) + 1

-----------------------------------------------------------------------------
(* Properties *)

\* Every variable has its type.
TypeOK ==
    /\ root \in Seq(Blocks) /\ encoding \in Seq(Pages)
    /\ root_key \in ContentKeys
    /\ pc \in {"locate", "contents", "encodings", "rows", "done", "failed"}
    /\ outer \in Nat \ {0} /\ inner \in Nat \ {0}
    /\ root_location \in EncodingKeys \cup {None}
    /\ fdid_to_ck \in [Fdids -> ContentKeys \cup {None}]
    /\ ck_to_ek \in [ContentKeys -> EncodingKeys \cup {None}]
    /\ pending \in SUBSET Fdids
    /\ resolution \in [Fdids -> (ContentKeys \X EncodingKeys) \cup {None}]

\* The content key of a FileDataID is that of its last visible record, whatever
\* records of other locales come after it (casc_cache.rs:231-245).
LastVisibleRecordWins ==
    pc \in {"encodings", "rows", "done"} =>
        \A id \in Fdids :
            IF fdid_to_ck[id] = None THEN ~HasRecord(id, RootEnd, 1)
                                     ELSE LastContent(id, fdid_to_ck[id], RootEnd, 1)

\* A finished table has a row for exactly the FileDataIDs whose last visible
\* record can be resolved: a row never joins the content of one record with the
\* key of another, and an earlier record that could be resolved does not stand
\* in for a last one that cannot (casc_cache.rs:295-307).
RowsFollowLastRecord ==
    pc = "done" =>
        \A id \in Fdids :
            IF resolution[id] = None
            THEN \A c \in ContentKeys :
                    LastContent(id, c, RootEnd, 1) => ~HasEntry(c, EncodingEnd, 1)
            ELSE /\ LastContent(id, resolution[id][1], RootEnd, 1)
                 /\ LastKey(resolution[id][1], resolution[id][2], EncodingEnd, 1)

\* root.bin is located by the first entry of its content key and the table is
\* filled from the last ones.  Both find a key or none does, and they find the
\* same one where the encoding file has one answer
\* (casc_resolver.rs:873-880, casc_cache.rs:254-256).
LookupsAgree ==
    /\ pc = "failed" => KeysOf(root_key) = {}
    /\ pc \in {"rows", "done"} =>
          /\ {root_location, ck_to_ek[root_key]} \subseteq KeysOf(root_key)
          /\ \A key \in EncodingKeys :
                KeysOf(root_key) = {key} => root_location = ck_to_ek[root_key]
=============================================================================
