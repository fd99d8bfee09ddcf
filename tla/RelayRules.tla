----------------------------- MODULE RelayRules -----------------------------
(***************************************************************************)
(* Port-mapping rules as the Hub and the LabRelay daemon both see them.    *)
(*                                                                         *)
(* A configuration maps a rule id to a rule, or to NoRule when the id is   *)
(* absent.  `port' stands for the pair (listenPort, transportProtocol),    *)
(* the key both sides keep free of conflicts; together with `enabled' and  *)
(* `exp' it also stands for the fields the two sides compare, so that two  *)
(* rules that differ in any of them differ here.  `exp' is the expiry time *)
(* on a coarse clock, 0 for a permanent rule.                              *)
(***************************************************************************)
EXTENDS Integers, FiniteSets

CONSTANTS
    RuleIds,     \* ids of port-mapping rules
    NumPorts,    \* listen ports are 1 .. NumPorts
    MaxExp,      \* the latest expiry time a rule may carry; also bounds the clock
    NoRule       \* "no rule under this id"

ASSUME NumPortsAssumption == NumPorts \in Nat \ {0}
ASSUME MaxExpAssumption   == MaxExp \in Nat

Ports == 1 .. NumPorts
Rule  == [port : Ports, enabled : BOOLEAN, exp : 0 .. MaxExp]

ASSUME NoRuleAssumption == NoRule \notin Rule

(* A rule map: HashMap<String, Rule> in the daemon, the desired set in the Hub. *)
Config == [RuleIds -> Rule \cup {NoRule}]

EmptyConfig == [i \in RuleIds |-> NoRule]

(* is_expired: a permanent rule (expires_at None or 0) never is. *)
IsExpired(r, t) == r.exp > 0 /\ r.exp <= t

(* ensure_port_available: another id of c already holds the listen key of r. *)
PortTaken(c, id, r) ==
    \E other \in RuleIds \ {id} : c[other] # NoRule /\ c[other].port = r.port

(* No two rules of a configuration share a listen key. *)
ConflictFree(c) ==
    \A i, j \in RuleIds :
        i # j /\ c[i] # NoRule /\ c[j] # NoRule => c[i].port # c[j].port
=============================================================================
