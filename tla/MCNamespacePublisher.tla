------------------------ MODULE MCNamespacePublisher ------------------------
(* Instances of NamespacePublisher for TLC. *)
EXTENDS NamespacePublisher

Dir(enc, root, db, meta, sidecar) ==
    [enc |-> enc, root |-> root, db |-> db, meta |-> meta, sidecar |-> sidecar]

\* Where an in-place builder may have been killed: after the first file, in its
\* transaction, and - rebuilding over an older database - before or in it.  And
\* a namespace that an earlier process completed.
KilledInPlace ==
    { Dir(1, 0, "none", <<0, 0>>, FALSE),
      Dir(1, 1, "uncommitted", <<0, 0>>, TRUE),
      Dir(2, 2, "committed", <<1, 1>>, FALSE),
      Dir(2, 1, "uncommitted", <<0, 0>>, TRUE),
      Dir(1, 1, "committed", <<1, 1>>, FALSE) }

\* The hypothesis of the theorems in NamespacePublisherProofs.
ASSUME KilledInPlaceIsInert == Inert(KilledInPlace)

\* Killed while COMMIT wrote the pages: the metadata row is in the file, other
\* pages are not, and the journal that would undo it lies beside it.
TornCommit == { Dir(1, 1, "torn", <<1, 1>>, TRUE) }
=============================================================================
