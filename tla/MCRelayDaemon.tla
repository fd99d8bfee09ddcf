---------------------------- MODULE MCRelayDaemon ----------------------------
(* Instances of RelayDaemon for TLC. *)
EXTENDS RelayDaemon, TLC

CONSTANTS a, b, h1, h2

Symmetry == Permutations({h1, h2}) \cup Permutations({a, b})
=============================================================================
