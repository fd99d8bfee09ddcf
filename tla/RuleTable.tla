------------------------------ MODULE RuleTable ------------------------------
(***************************************************************************)
(* What the LabRelay daemon promises of its rules, whatever its handlers,  *)
(* listeners and crashes do: a table with unique listen keys and a durable *)
(* copy.  One rule changes at a time, and not before the change before it  *)
(* was saved, so that a crash takes back at most the last one.             *)
(***************************************************************************)
EXTENDS RelayRules

VARIABLES
    table,   \* the rules in force
    saved    \* what a crash leaves

tableVars == <<table, saved>>

TableInit == table = EmptyConfig /\ saved = EmptyConfig

(* A rule is put, replaced or, with NoRule, removed. *)
Change(id, r) ==
    /\ saved = table
    /\ r = NoRule \/ ~ PortTaken(table, id, r)
    /\ table' = [table EXCEPT ![id] = r]
    /\ UNCHANGED saved

Save == saved' = table /\ UNCHANGED table

Recover == table' = saved /\ UNCHANGED saved

TableNext ==
    \/ \E id \in RuleIds, r \in Rule \cup {NoRule} : Change(id, r)
    \/ Save
    \/ Recover

TableSpec == TableInit /\ [][TableNext]_tableVars
=============================================================================
