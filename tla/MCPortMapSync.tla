---------------------------- MODULE MCPortMapSync ----------------------------
(***************************************************************************)
(* PortMapSync for TLC, in two scopes: two rules without a lease compete   *)
(* for two ports, or one rule on one port has a lease that expires.        *)
(* `focus' says which; an edit outside its scope is not made.              *)
(***************************************************************************)
EXTENDS PortMapSync

CONSTANTS a, b

VARIABLE focus

mapVars == <<focus, docSaved, rows, cmds, reported, todo, local, pc, batch, acks, late, now,
             edits, faults>>

InScope ==
  IF focus = "ports"
    THEN now = 0 /\ \A k \in DOMAIN rows : rows[k].rule.exp = 0
    ELSE /\ Len(rows) <= 1
         /\ \A k \in DOMAIN rows : rows[k].id = a /\ rows[k].rule.port = 1
         /\ local[b] = NoRule
         /\ local[a] # NoRule => local[a].port = 1

MapsInit == Init /\ focus \in {"ports", "lease"} /\ InScope

MapsNext == Next /\ UNCHANGED focus /\ InScope'

\* PortMapSync's fairness.
MapsFairness ==
  /\ WF_mapVars(AgentStep /\ UNCHANGED focus)
  /\ WF_mapVars(HubReconcile /\ UNCHANGED focus)
  /\ WF_mapVars((DeliverLate \/ LoseLate) /\ UNCHANGED focus)

MapsSpec == MapsInit /\ [][MapsNext]_mapVars /\ MapsFairness
=============================================================================
