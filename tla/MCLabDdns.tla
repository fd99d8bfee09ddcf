------------------------------ MODULE MCLabDdns ------------------------------
(* LabDdns with one address type and one type with a value of the user. *)
EXTENDS LabDdns

CONSTANTS x, y, v, A, TXT
=============================================================================
