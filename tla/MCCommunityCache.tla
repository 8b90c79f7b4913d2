--------------------------- MODULE MCCommunityCache ---------------------------
(* Instance of CommunityCache for TLC. *)
EXTENDS CommunityCache

CONSTANTS p1, p2
=============================================================================
