--------------------------- MODULE MCWireGuardSync ---------------------------
(* Instances of WireGuardSync for TLC. *)
EXTENDS WireGuardSync

CONSTANTS wg0, wg1, p
=============================================================================
