--------------------------- MODULE MCRevisionStore ---------------------------
(* Instances of RevisionStore for TLC. *)
EXTENDS RevisionStore

CONSTANTS k1, k2, v1, v2
=============================================================================
