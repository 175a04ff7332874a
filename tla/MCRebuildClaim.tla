--------------------------- MODULE MCRebuildClaim ---------------------------
(***************************************************************************)
(* Instances of RebuildClaim: m1 is a rebuild requested over the API, the  *)
(* others are ids of scheduled rebuilds.                                   *)
(***************************************************************************)
EXTENDS RebuildClaim

CONSTANTS m1, s1, s2, s3, s4
=============================================================================
