---------------------------- MODULE OwnedFirewall ----------------------------
(***************************************************************************)
(* Firewall rules the Hub creates on the router for a WireGuard server     *)
(* (wireguard_service.py), through ensure_firewall and remove_firewall of  *)
(* stun_service.py: one that forwards the tunnel to the LAN, one per DDNS  *)
(* profile.  A rule is owned while the binding kept for it names its uuid  *)
(* and the fingerprint it was created with.                                *)
(*                                                                         *)
(* A PUT or DELETE of the server holds DATA_LOCK and goes through its      *)
(* rules one call after the other; failures are logged and passed over.    *)
(* Somebody may change the table on the router at any time.                *)
(***************************************************************************)
EXTENDS Integers, FiniteSets

CONSTANTS
    Lan,          \* ids of LAN rules: one per interface name
    Ddns,         \* ids of DDNS rules: one per profile
    Contents,     \* what a rule says: the tunnel network, or the listen port
    UserContent,  \* what somebody else wrote
    None,
    MaxRows,      \* rows the router's table holds (maxLen)
    MaxPuts,      \* bound: requests of the APP
    MaxEdits,     \* bound: changes made on the router
    MaxFaults     \* bound: failed router calls, crashes

Keys == Lan \cup Ddns

VARIABLES
    want,    \* what the server's document asks for, per rule id
    job,     \* the rest of the handler: ids to see to, and the step of the current one
    rows,    \* the router's firewall table
    binds,   \* stun_firewall.json
    next,    \* uuids used
    unsure,  \* rule ids with a failed call or a crash
    puts, edits, faults

vars == <<want, job, rows, binds, next, unsure, puts, edits, faults>>

Row     == [uuid : Nat, key : Keys, content : Contents \cup {UserContent}, own : BOOLEAN]
Binding == [uuid : Nat, print : Contents]
Idle    == [todo |-> {}, key |-> None, step |-> "idle"]
Wants   == {w \in [Keys -> Contents \cup {None}] :
              Cardinality({k \in Lan : w[k] # None}) <= 1}

(* The state keeps its types, and the router never has more than MaxRows    *)
(* rows.                                                                    *)
TypeOK ==
    /\ want \in Wants /\ rows \subseteq Row /\ Cardinality(rows) <= MaxRows
    /\ job.todo \subseteq Keys /\ job.key \in Keys \cup {None}
    /\ job.step \in {"idle", "ensure", "recreate", "again"}
    /\ binds \in [Keys -> Binding \cup {None}] /\ next \in Nat /\ unsure \subseteq Keys
    /\ puts \in 0 .. MaxPuts /\ edits \in 0 .. MaxEdits /\ faults \in 0 .. MaxFaults

Init ==
    /\ want = [k \in Keys |-> None] /\ job = Idle /\ rows = {}
    /\ binds = [k \in Keys |-> None] /\ next = 0 /\ unsure = {}
    /\ puts = 0 /\ edits = 0 /\ faults = 0

(* A failed call of the router for rule k *)
Fails(k) == faults < MaxFaults /\ faults' = faults + 1 /\ unsure' = unsure \cup {k}
Works    == UNCHANGED <<faults, unsure>>

(* put, delete: the document is saved, then every rule of the old and of    *)
(* the new server is seen to; a disabled or deleted server wants none.      *)
Put(w) ==
    /\ job.step = "idle" /\ job.todo = {} /\ puts < MaxPuts /\ puts' = puts + 1
    /\ want' = w
    /\ job' = [Idle EXCEPT !.todo = {k \in Keys : want[k] # None \/ w[k] # None}]
    /\ UNCHANGED <<rows, binds, next, unsure, edits, faults>>

(* _sync_ddns_firewalls before _sync_wireguard_lan_firewall, and in each    *)
(* the rules to remove first.                                               *)
Rank(k) == (IF k \in Lan THEN 2 ELSE 0) + (IF want[k] # None THEN 1 ELSE 0)

Begin(k) ==
    /\ job.step = "idle" /\ k \in job.todo /\ \A j \in job.todo : Rank(k) <= Rank(j)
    /\ job' = [todo |-> job.todo \ {k}, key |-> k,
               step |-> IF want[k] # None THEN "ensure" ELSE "recreate"]
    /\ UNCHANGED <<want, rows, binds, next, unsure, puts, edits, faults>>

Ends     == job' = [job EXCEPT !.key = None, !.step = "idle"]
Goes(s)  == job' = [job EXCEPT !.step = s]
Named(k) == {r \in rows : r.key = k}
Bound(k) == IF binds[k] = None THEN {} ELSE {r \in rows : r.uuid = binds[k].uuid}

(* A rule that was changed on the router, or a rule of the LAN rule's name  *)
(* that is not bound: manual_change.                                        *)
Manual(k) ==
    IF Bound(k) = {} THEN k \in Lan /\ Named(k) # {}
    ELSE \E r \in Bound(k) : r.content # binds[k].print

Differs(k) == \E r \in Bound(k) : r.content # want[k]

(* "verify_failed": the caller removes the rule and asks for it again, once.*)
VerifyFailed == IF job.step = "ensure" THEN Goes("recreate") ELSE Ends

(* Mutant: the table's limit is not looked at. *)
FullNever == FALSE

Full == Cardinality(rows) >= MaxRows

Added(k)    == rows \cup {[uuid |-> next, key |-> k, content |-> want[k], own |-> TRUE]}
Matching(k) == {r \in Added(k) : r.key = k /\ r.content = want[k]}

Adds(k) ==
    \/ /\ Works /\ rows' = Added(k)
       /\ \E r \in Matching(k) :
            binds' = [binds EXCEPT ![k] = [uuid |-> r.uuid, print |-> r.content]]
       /\ Ends
    \/ /\ Fails(k) /\ rows' \in {rows, Added(k)} /\ UNCHANGED binds
       /\ (Ends \/ VerifyFailed)                  \* raised, or not read back

ensure_firewall(k) ==
    /\ job.key = k /\ job.step \in {"ensure", "again"}
    /\ \/ Manual(k) /\ Ends /\ Works /\ UNCHANGED <<rows, binds, next>>
       \/ ~ Manual(k) /\ Differs(k) /\ VerifyFailed /\ Works /\ UNCHANGED <<rows, binds, next>>
       \/ ~ Manual(k) /\ Bound(k) # {} /\ ~ Differs(k) /\ Ends /\ Works
          /\ UNCHANGED <<rows, binds, next>>
       \/ /\ Bound(k) = {} /\ ~ Manual(k)
          /\ IF Full THEN Ends /\ Works /\ UNCHANGED <<rows, binds, next>>
             ELSE Adds(k) /\ next' = next + 1
       \/ Fails(k) /\ Ends /\ UNCHANGED <<rows, binds, next>>       \* the read raises
    /\ UNCHANGED <<want, puts, edits>>

Removed == IF want[job.key] # None THEN Goes("again") ELSE Ends

Deletable(k) == {r \in Bound(k) : r.content = binds[k].print}

(* Only the bound rule with its fingerprint is deleted.  What is read back  *)
(* after the delete is not looked at.                                       *)
remove_firewall(k) ==
    /\ job.key = k /\ job.step = "recreate"
    /\ \/ binds[k] = None /\ Removed /\ Works /\ UNCHANGED <<rows, binds>>
       \/ /\ binds[k] # None /\ Works /\ Removed
          /\ rows' = rows \ Deletable(k) /\ binds' = [binds EXCEPT ![k] = None]
       \/ /\ binds[k] # None /\ Fails(k) /\ Ends /\ UNCHANGED binds
          /\ rows' \in {rows, rows \ Deletable(k)}                   \* raised
       \/ /\ Deletable(k) # {} /\ Fails(k) /\ Removed /\ UNCHANGED rows
          /\ binds' = [binds EXCEPT ![k] = None]                     \* not in force
    /\ UNCHANGED <<want, next, puts, edits>>

(* The Hub dies in the handler; nothing takes it up again. *)
Crash ==
    /\ job.todo # {} \/ job.step # "idle"
    /\ faults < MaxFaults /\ faults' = faults + 1
    /\ unsure' = unsure \cup job.todo \cup ({job.key} \ {None}) /\ job' = Idle
    /\ UNCHANGED <<want, rows, binds, next, puts, edits>>

(* Somebody changes, deletes or adds a rule on the router. *)
ByUser(r) == [r EXCEPT !.content = UserContent, !.own = FALSE]

UserEdits ==
    /\ edits < MaxEdits /\ edits' = edits + 1
    /\ \/ \E r \in rows : rows' \in {rows \ {r}, (rows \ {r}) \cup {ByUser(r)}} /\ UNCHANGED next
       \/ /\ Cardinality(rows) < MaxRows /\ next' = next + 1
          /\ \E k \in Keys : rows' = rows \cup {[uuid |-> next, key |-> k,
                                                 content |-> UserContent, own |-> FALSE]}
    /\ UNCHANGED <<want, job, binds, unsure, puts, faults>>

Next ==
    \/ \E w \in Wants : Put(w)
    \/ \E k \in Keys : Begin(k) \/ ensure_firewall(k) \/ remove_firewall(k)
    \/ Crash \/ UserEdits

Handler == \E k \in Keys : Begin(k) \/ ensure_firewall(k) \/ remove_firewall(k)

Spec == Init /\ [][Next]_vars /\ WF_vars(Handler)
-----------------------------------------------------------------------------
(* The Hub neither deletes nor changes a rule that somebody wrote or edited *)
(* on the router.                                                           *)
UserRulesKept == [][\A r \in rows : ~ r.own => r \in rows' \/ edits' # edits]_vars

(* After a request without failed calls, the rules of the Hub on the router *)
(* are those the server asks for: none left over, none twice, none stale.   *)
(* A rule id is exempt once a call for it failed or its handler died (the   *)
(* Hub does not try again), and a wanted rule may be missing because of     *)
(* what the user did or because the table is full.                          *)
OnlyWantedRules ==
    job = Idle => \A k \in Keys \ unsure : \A r \in rows :
      r.key = k /\ r.own => r.content = want[k] /\ Bound(k) = {r}
=============================================================================
