----------------------------- MODULE PortMapSync -----------------------------
(***************************************************************************)
(* Port mapping end to end: the APP edits the Hub's desired rules, the     *)
(* agent on the router polls commands, applies them to the LabRelay daemon *)
(* over its control socket, acknowledges them and reports the daemon's     *)
(* rules, which the Hub reconciles with the desired ones                   *)
(* (labrelay/src/agent.rs, sync_portmaps).                                 *)
(*                                                                         *)
(* The daemon is seen through its replies: each request is atomic here,    *)
(* which RelayDaemon justifies (UpsertIsAtomic, DurableWhenIdle).          *)
(*                                                                         *)
(* Failures: responses and requests are lost, repeated (post_json sends    *)
(* again when a response is lost) or processed late; the agent, the Hub    *)
(* and the router restart; the daemon is unreachable or cannot bind a port; *)
(* a control-socket request times out although the daemon carries it out.  *)
(* Each costs one of MaxFaults, and each edit one of MaxEdits, so every    *)
(* behaviour ends with the APP at rest and the network working.            *)
(***************************************************************************)
EXTENDS PortMapHub

CONSTANTS MaxEdits, MaxFaults

ASSUME BoundsAssumption == MaxEdits \in Nat /\ MaxFaults \in Nat

VARIABLES
    local,    \* the daemon's rules
    pc,       \* where the agent is in sync_portmaps
    batch,    \* commands it received and has not applied
    acks,     \* ids of the commands it has applied
    late,     \* requests of the agent the Hub may still process
    now,      \* the clock
    edits, faults

agentVars == <<local, pc, batch, acks>>
vars == <<docSaved, rows, cmds, reported, todo, local, pc, batch, acks, late, now, edits, faults>>

(* A command as the agent receives it. *)
Handed == [cid : CmdIds, act : {"upsert", "stop", "delete"}, id : RuleIds,
           rule : Rule \cup {NoRule}]

(* A request in flight: acknowledged ids, or a reported configuration. *)
Message == [kind : {"ack"}, cids : SUBSET CmdIds]
           \cup [kind : {"status"}, rules : Config]

(* The state keeps its types: the Hub's queue holds only open commands, and *)
(* what the agent holds of them comes from what the Hub handed out.         *)
TypeOK ==
    /\ HubTypeOK
    /\ local \in Config
    /\ pc \in {"poll", "apply", "status"}
    /\ batch \in Seq(Handed)
    /\ acks \subseteq CmdIds
    /\ late \subseteq Message
    /\ now \in 0 .. MaxExp
    /\ edits \in 0 .. MaxEdits
    /\ faults \in 0 .. MaxFaults

(* Either a Hub whose document is in step with the router, or a new Hub that *)
(* has never saved a document, facing a router that already has rules.       *)
Init ==
    /\ docSaved \in BOOLEAN
    /\ rows = <<>>
    /\ cmds = <<>>
    /\ reported = EmptyConfig
    /\ todo = <<>>
    /\ local \in IF docSaved THEN {EmptyConfig}
                 ELSE {c \in Config : ConflictFree(c) /\ \A i \in RuleIds :
                          c[i] # NoRule => c[i].enabled /\ c[i].exp = 0}
    /\ pc = "poll" /\ batch = <<>> /\ acks = {} /\ late = {}
    /\ now = 0 /\ edits = 0 /\ faults = 0
-----------------------------------------------------------------------------
(* Command ids that somebody other than the Hub's queue still holds. *)
Held == acks \cup {batch[k].cid : k \in DOMAIN batch}
             \cup UNION {m.cids : m \in {n \in late : n.kind = "ack"}}

Fault == faults < MaxFaults /\ faults' = faults + 1
NoFault == UNCHANGED faults

(* The APP edits a rule; `crash' is a Hub that dies between its two saves. *)
Edit ==
    /\ edits < MaxEdits /\ edits' = edits + 1
    /\ \E id \in RuleIds, crash \in BOOLEAN :
         /\ IF crash THEN Fault ELSE NoFault
         /\ \/ \E r \in Rule : Create(id, r, Held, crash)
            \/ \E r \in Rule : Update(id, r, Held, crash)
            \/ Delete(id, Held, crash)
            \/ Stop(id, Held, crash)
            \/ Start(id, now, Held, crash)
    /\ UNCHANGED <<local, pc, batch, acks, late, now>>
-----------------------------------------------------------------------------
(* The agent: get_json of the commands. *)
AgentPoll ==
    /\ pc = "poll"
    /\ \E due \in SUBSET Retriable :
         /\ Poll(due)
         /\ batch' = Batch(due)
         /\ pc' = IF Selected(due) = {} THEN "status" ELSE "apply"
    /\ NoFault /\ UNCHANGED <<local, acks, late, now, edits>>

(* The Hub marks commands delivered, but the response is lost. *)
PollLost ==
    /\ pc = "poll"
    /\ \E due \in SUBSET Retriable : Poll(due) /\ Selected(due) # {}
    /\ Fault /\ UNCHANGED <<local, pc, batch, acks, late, now, edits>>

(* What the daemon's rules become when it carries out a command: an upsert *)
(* is refused on a port of another rule and when its rule has expired.     *)
Apply(c) ==
    IF c.act = "upsert"
      THEN IF PortTaken(local, c.id, c.rule)
              \/ (c.rule.enabled /\ c.rule # local[c.id] /\ IsExpired(c.rule, now))
             THEN local
             ELSE [local EXCEPT ![c.id] = c.rule]
      ELSE IF c.act = "delete"
        THEN [local EXCEPT ![c.id] = NoRule]
        ELSE IF local[c.id] = NoRule THEN local
             ELSE [local EXCEPT ![c.id].enabled = FALSE]

(* ctl_request for the next command.  With a fault, the daemon is not there *)
(* or cannot bind the port, and keeps its rules.  Success, refusal, failure *)
(* and timeout are all acknowledged: the Hub closes the command either way. *)
AgentApply ==
    /\ pc = "apply" /\ batch # <<>>
    /\ \/ NoFault /\ local' = Apply(Head(batch))
       \/ Fault /\ local' = local
    /\ acks' = acks \cup {Head(batch).cid}
    /\ batch' = Tail(batch)
    /\ UNCHANGED <<docSaved, rows, cmds, reported, todo, pc, late, now, edits>>

AckMessage == [kind |-> "ack", cids |-> acks]
StatusMessage == [kind |-> "status", rules |-> local]

(* The Hub's handler for a request of the agent. *)
Process(m) ==
    IF m.kind = "ack" THEN Acked(m.cids) ELSE Status(m.rules)

(* post_json succeeds.  With a fault, the response of a first attempt was   *)
(* lost, and a copy of the request is still to be processed.                *)
AgentPost(m, next) ==
    /\ Process(m)
    /\ pc' = next /\ acks' = {}
    /\ \/ NoFault /\ UNCHANGED late
       \/ Fault /\ late' = late \cup {m}
    /\ UNCHANGED <<local, batch, now, edits>>

(* post_json gives up: the cycle ends without a status.  The Hub may still  *)
(* process a request whose sender has stopped waiting.                      *)
AgentPostFails(m) ==
    /\ Fault
    /\ pc' = "poll" /\ acks' = {}
    /\ late' \in {late, late \cup {m}}
    /\ UNCHANGED <<docSaved, rows, cmds, reported, todo, local, batch, now, edits>>

AgentAck == pc = "apply" /\ batch = <<>> /\ AgentPost(AckMessage, "status")
AgentAckFails == pc = "apply" /\ batch = <<>> /\ AgentPostFails(AckMessage)
AgentStatus == pc = "status" /\ AgentPost(StatusMessage, "poll")
AgentStatusFails == pc = "status" /\ AgentPostFails(StatusMessage)

(* A late request reaches the Hub. *)
DeliverLate ==
    /\ \E m \in late : Process(m) /\ late' = late \ {m}
    /\ NoFault /\ UNCHANGED <<local, pc, batch, acks, now, edits>>

(* The Hub's status handler goes on. *)
HubReconcile ==
    /\ ReconcileStep(Held)
    /\ UNCHANGED <<local, pc, batch, acks, late, now, edits, faults>>

LoseLate ==
    /\ \E m \in late : late' = late \ {m}
    /\ UNCHANGED <<docSaved, rows, cmds, reported, todo, local, pc, batch, acks, now, edits, faults>>
-----------------------------------------------------------------------------
(* Restarts. *)

HubRestart ==
    /\ \E running \in SUBSET RuleIds : Restart(running)
    /\ Fault /\ UNCHANGED <<local, pc, batch, acks, late, now, edits>>

AgentRestart ==
    /\ pc' = "poll" /\ batch' = <<>> /\ acks' = {}
    /\ pc # "poll"
    /\ Fault /\ UNCHANGED <<docSaved, rows, cmds, reported, todo, local, late, now, edits>>

(* The router is reset or its binary and configuration replaced. *)
RouterReset ==
    /\ local # EmptyConfig
    /\ local' = EmptyConfig
    /\ pc' = "poll" /\ batch' = <<>> /\ acks' = {}
    /\ Fault /\ UNCHANGED <<docSaved, rows, cmds, reported, todo, late, now, edits>>

Tick ==
    /\ now < MaxExp /\ now' = now + 1
    /\ UNCHANGED <<docSaved, rows, cmds, reported, todo, local, pc, batch, acks, late, edits, faults>>

AgentStep == AgentPoll \/ AgentApply \/ AgentAck \/ AgentStatus

Next ==
    \/ Edit \/ AgentStep \/ HubReconcile \/ DeliverLate \/ LoseLate
    \/ PollLost \/ AgentAckFails \/ AgentStatusFails
    \/ HubRestart \/ AgentRestart \/ RouterReset \/ Tick

(* The agent's loop runs for ever, the Hub's handlers end, and a request in *)
(* flight is processed or lost.                                             *)
Fairness == WF_vars(AgentStep) /\ WF_vars(HubReconcile) /\ WF_vars(DeliverLate \/ LoseLate)

Spec == Init /\ [][Next]_vars /\ Fairness
-----------------------------------------------------------------------------
(* The rules that cannot be installed, whatever the agent does: an enabled *)
(* rule that has expired is refused, and a rule whose port is held by      *)
(* another such rule is refused too.  The set is the largest with that     *)
(* property, so it contains the cycles of rules that want each other's     *)
(* ports.                                                                  *)
Blocked ==
    LET want == Desired
        Closed(S) == \A i \in S :
            /\ want[i] # NoRule /\ want[i] # local[i]
            /\ \/ want[i].enabled /\ IsExpired(want[i], now)
               \/ \E j \in S \ {i} : local[j] # NoRule /\ local[j].port = want[i].port
    IN UNION {S \in SUBSET RuleIds : Closed(S)}

Converged == \A i \in RuleIds \ Blocked : local[i] = Desired[i]

(* Once the APP is at rest and the failures are over, the router's rules   *)
(* become the desired ones and stay so, for every rule that can be         *)
(* installed: whatever was lost, repeated, merged into an open command or  *)
(* closed by a late acknowledgement, the status reports repair it.         *)
Convergence == <>[]Converged

(* The Hub's rules document is unreadable or missing: a status report must *)
(* not be answered by deleting the router's rules (the docstring of        *)
(* _load_portmap_rules_document).                                          *)
NoDeleteWithoutDocument ==
    [][~ docSaved /\ ~ docSaved' =>
         \A k \in DOMAIN cmds' : cmds'[k].act # "delete"]_vars
=============================================================================
