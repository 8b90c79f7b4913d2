--------------------------- MODULE MCResolutionMaps ---------------------------
(* Instance of ResolutionMaps for TLC. *)
EXTENDS ResolutionMaps

CONSTANTS id1, id2, a, b, k, l

UpTo(n, S) == UNION {[1..m -> S] : m \in 0..n}

Roots(blocks, records) ==
    UpTo(blocks, [client : BOOLEAN,
                  records : UpTo(records, [fdid : {id1, id2}, content : {a, b}])])

Encodings(pages, entries) ==
    UpTo(pages, UpTo(entries, [content : {a, b}, keys : {<< >>, <<k>>, <<l, k>>}]))

\* Every root file of two blocks of two records with a little of an encoding
\* file, and every encoding file of two pages of two entries with a record.
MCFiles ==
    (Roots(2, 2) \X Encodings(1, 1)) \cup (Roots(1, 1) \X Encodings(2, 2))
=============================================================================
