------------------------------ MODULE StunSync ------------------------------
(***************************************************************************)
(* A STUN rule (stun_service.py): the rules document and the command queue *)
(* of the Hub, the native port mapping that the Hub keeps on the router    *)
(* for an enabled rule, the obsolete firewall entry of an earlier build,   *)
(* and sync_stun of labrelay/src/agent.rs with the daemon's copy.          *)
(*                                                                         *)
(* One rule; rules share the pool of ports and the limit of twenty rows    *)
(* per poll, nothing else.  Every request of the APP or of the agent holds *)
(* DATA_LOCK, the calls of the router included, so a handler is one step   *)
(* whose calls may fail: before the router acts, after it, or by reading   *)
(* back what the router has not put in force.  A request of the agent      *)
(* whose sender gave up may be served later.                               *)
(*                                                                         *)
(* Left out: the addresses the STUN server reports and their history, the  *)
(* texts for the user, a change made on the router between the read and    *)
(* the write of one handler.                                               *)
(***************************************************************************)
EXTENDS Integers, Sequences, FiniteSets

CONSTANTS
    Targets,      \* destinations of the rule
    None,         \* no rule, no binding, no fingerprint
    Gone,         \* no mapping on the router
    MaxAttempts,  \* deliveries of one command (5 in the code)
    MaxRequests,  \* bound: requests of the APP
    MaxEdits,     \* bound: changes of the mapping made on the router
    MaxFaults     \* bound: failed router calls, lost or late messages, crashes

VARIABLES
    doc,       \* the rule in stun_rules.json
    cmds,      \* the open rows of stun_commands.json
    map,       \* the mapping on the router: its destination, and whether the user changed it
    bind,      \* the rule's entry in stun_native_portmap.json
    fw,        \* the obsolete firewall entry: on the router, in stun_firewall.json
    local,     \* the daemon's copy of the rule
    agent,     \* sync_stun
    late,      \* requests of the agent that are still to be served
    unsure,    \* history: a write of the Hub had an outcome that its binding does not record
    orphan,    \* history: a POST ended between its mapping and its rule, and none came after
    requests, edits, faults

hub  == <<doc, cmds, map, bind, fw, unsure, orphan>>
vars == <<doc, cmds, map, bind, fw, local, agent, late, unsure, orphan,
          requests, edits, faults>>

Rule    == [enabled : BOOLEAN, target : Targets, mode : {"native", "proxy"}]
Actions == {"upsert", "stop", "delete"}
Ids     == Actions \X (Nat \ {0})
Command == [id : Ids, action : Actions, rule : Rule \cup {None},
            status : {"pending", "delivered"}, attempts : 0 .. MaxAttempts]
Mapping == [target : Targets, edited : BOOLEAN]
Binding == [print : Mapping \cup {None},
            state : {"ready", "verify_failed", "manual_change", "error"}]
Message == [kind : {"ack", "status"}, ids : SUBSET Ids, rule : Rule \cup {None}]
Outcomes == {"ok", "raised", "raised_done", "unconfirmed", "unconfirmed_done"}

Quiet == [pc |-> "poll", todo |-> <<>>, done |-> {}, report |-> None]

(* The state keeps its types; a command is delivered MaxAttempts times at   *)
(* most, and the document has one open row per action.                      *)
TypeOK ==
    /\ doc \in Rule \cup {None} /\ local \in Rule \cup {None}
    /\ cmds \in Seq(Command) /\ Len(cmds) <= Cardinality(Actions)
    /\ map \in Mapping \cup {Gone} /\ bind \in Binding \cup {None}
    /\ fw \in [row : {"none", "own", "edited"}, bound : BOOLEAN]
    /\ agent.pc \in {"poll", "execute", "ack", "status", "report"}
    /\ agent.todo \in Seq(Command) /\ agent.report \in Rule \cup {None}
    /\ late \in SUBSET Message /\ unsure \in BOOLEAN /\ orphan \in BOOLEAN
    /\ requests \in 0 .. MaxRequests /\ edits \in 0 .. MaxEdits /\ faults \in 0 .. MaxFaults

Upsert(rule) == [id |-> <<"upsert", 1>>, action |-> "upsert", rule |-> rule,
                 status |-> "pending", attempts |-> 0]

(* A new Hub, or one that has just migrated the rule of an earlier build:   *)
(* _migrate_legacy_tcp_server saved the rule as router_native and queued it.*)
Init ==
    /\ \/ doc = None /\ cmds = <<>> /\ local = None /\ fw = [row |-> "none", bound |-> FALSE]
       \/ \E t \in Targets, r \in {"own", "edited"} :
            /\ doc = [enabled |-> TRUE, target |-> t, mode |-> "native"]
            /\ cmds = <<Upsert(doc)>>
            /\ local = [doc EXCEPT !.mode = "proxy"]
            /\ fw = [row |-> r, bound |-> TRUE]
    /\ map = Gone /\ bind = None /\ agent = Quiet /\ late = {}
    /\ unsure = FALSE /\ orphan = FALSE /\ requests = 0 /\ edits = 0 /\ faults = 0

Fault     == faults < MaxFaults /\ faults' = faults + 1
Costs(o)  == IF o = "ok" THEN UNCHANGED faults ELSE Fault
Done(o)   == o \in {"ok", "raised_done", "unconfirmed_done"}
Raises(o) == o \in {"raised", "raised_done"}
-----------------------------------------------------------------------------
(* The command queue *)

(* Ids (uuids in the code) are never used twice while somebody still knows  *)
(* them: the first one that nobody does.                                    *)
Known == {cmds[n].id : n \in DOMAIN cmds} \cup {agent.todo[n].id : n \in DOMAIN agent.todo}
         \cup agent.done \cup UNION {m.ids : m \in late}
Fresh(action) ==
    <<action, CHOOSE n \in 1 .. (Cardinality(Known) + 1) : <<action, n>> \notin Known>>

(* The rows at the positions K in their order: a set that holds this one    *)
(* sequence.                                                                *)
InOrder(K) == {p \in [1 .. Cardinality(K) -> K] :
                 \A j, k \in 1 .. Cardinality(K) : j < k => p[j] < p[k]}
Picked(rows, K) == {[n \in 1 .. Cardinality(K) |-> rows[p[n]]] : p \in InOrder(K)}

(* An open row of the same action gives way to the new one. *)
Row(action, rule) == [id |-> Fresh(action), action |-> action, rule |-> rule,
                      status |-> "pending", attempts |-> 0]
Others(rows, action) == Picked(rows, {n \in DOMAIN rows : rows[n].action # action})
queue(rows, action, rule) == {Append(s, Row(action, rule)) : s \in Others(rows, action)}
-----------------------------------------------------------------------------
(* The native port mapping.  The result of a call: the mapping and the      *)
(* binding afterwards, whether the call raised or was "ready", and whether  *)
(* it did something that the binding does not tell.                         *)

Own(rule) == [target |-> rule.target, edited |-> FALSE]
Fingerprint     == IF bind = None THEN None ELSE bind.print
Binds(s)  == [print |-> Fingerprint, state |-> s]

Ready(m)  == [map |-> m, bind |-> [print |-> m, state |-> "ready"], end |-> "ready",
              unsure |-> FALSE]

(* write_and_verify and the look at what it read back *)
Write(rule, o) ==
    IF o = "ok" THEN Ready(Own(rule))
    ELSE [map |-> IF Done(o) THEN Own(rule) ELSE map,
          bind |-> IF Raises(o) THEN bind ELSE Binds("verify_failed"),
          end |-> IF Raises(o) THEN "raised" ELSE "verify_failed",
          unsure |-> Done(o)]

(* The first call, a read, raises for "raised"; a mapping that needs no     *)
(* write has no other outcome.                                              *)
ensure_native_mapping(rule, o) ==
    IF o = "raised" THEN [map |-> map, bind |-> bind, end |-> "raised", unsure |-> FALSE]
    ELSE IF map # Gone /\ Fingerprint \notin {None, map}
    THEN [map |-> map, bind |-> Binds("manual_change"), end |-> "manual_change", unsure |-> FALSE]
    ELSE IF map = Own(rule) THEN Ready(map)
    ELSE Write(rule, o)

(* Mutant: a call that raises is passed over. *)
RemoveQuietly(o) ==
    [map |-> IF Done(o) /\ bind # None THEN Gone ELSE map, bind |-> None, end |-> "ready",
     unsure |-> FALSE]

(* Without a fingerprint the binding has no ruleName either, and no row is  *)
(* found by it.  The row read back after the delete is not looked at.       *)
remove_native_mapping(o) ==
    IF bind = None THEN [map |-> map, bind |-> None, end |-> "ready", unsure |-> FALSE]
    ELSE IF o = "raised" \/ (map # Gone /\ Fingerprint \notin {None, map})
    THEN [map |-> map, bind |-> bind, end |-> "raised", unsure |-> FALSE]
    ELSE IF map = Gone \/ Fingerprint = None
    THEN [map |-> map, bind |-> None, end |-> "ready", unsure |-> FALSE]
    ELSE [map |-> IF Done(o) THEN Gone ELSE map,
          bind |-> IF Raises(o) THEN bind ELSE None,
          end |-> IF Raises(o) THEN "raised" ELSE "ready",
          unsure |-> ~ Done(o)]

MappingCall(r) ==
    /\ map' = r.map /\ bind' = r.bind
    /\ unsure' = (unsure \/ r.unsure)

(* remove_firewall: only an entry that still has our fingerprint is deleted.*)
FwRemoved == [row |-> IF fw.bound /\ fw.row = "own" THEN "none" ELSE fw.row, bound |-> FALSE]
-----------------------------------------------------------------------------
(* Requests of the APP *)

Request == requests < MaxRequests /\ requests' = requests + 1

Refused == UNCHANGED <<doc, cmds>>

NoCall == [map |-> map, bind |-> bind, end |-> "ready", unsure |-> FALSE]

(* POST /api/stun *)
Create(rule, o) ==
    /\ doc = None /\ Request /\ Costs(o)
    /\ LET r == IF rule.enabled THEN ensure_native_mapping(rule, o) ELSE NoCall
       IN /\ MappingCall(r)
          /\ IF r.end = "ready"
             THEN doc' = rule /\ cmds' \in queue(cmds, "upsert", rule) /\ orphan' = FALSE
             ELSE Refused /\ UNCHANGED orphan
    /\ UNCHANGED <<fw, local, agent, late, edits>>

(* PUT /api/stun/<id>: the mapping first, then the obsolete firewall entry, *)
(* whose failure refuses the request after the mapping was changed.         *)
Edit(rule, o, fwFails) ==
    /\ doc # None /\ Request /\ (o = "ok" \/ ~ fwFails)
    /\ Costs(IF fwFails THEN "raised" ELSE o)
    /\ LET r == IF rule.enabled THEN ensure_native_mapping(rule, o) ELSE remove_native_mapping(o)
       IN /\ MappingCall(r)
          /\ IF r.end # "ready" \/ (fwFails /\ fw.bound)
             THEN Refused /\ UNCHANGED fw
             ELSE /\ doc' = rule /\ cmds' \in queue(cmds, "upsert", rule) /\ fw' = FwRemoved
    /\ UNCHANGED <<local, agent, late, orphan, edits>>

(* DELETE /api/stun/<id> *)
Delete(o, fwFails) ==
    /\ doc # None /\ Request /\ (o = "ok" \/ ~ fwFails)
    /\ Costs(IF fwFails THEN "raised" ELSE o)
    /\ LET r == remove_native_mapping(o)
       IN /\ MappingCall(r)
          /\ IF r.end # "ready" \/ (fwFails /\ fw.bound)
             THEN Refused /\ UNCHANGED fw
             ELSE /\ doc' = None /\ cmds' \in queue(cmds, "delete", None) /\ fw' = FwRemoved
    /\ UNCHANGED <<local, agent, late, orphan, edits>>

(* POST /api/stun/<id>/start, /stop *)
Start(o) ==
    /\ doc # None /\ Request /\ Costs(o)
    /\ LET r == ensure_native_mapping(doc, o)
           rule == [doc EXCEPT !.enabled = TRUE]
       IN /\ MappingCall(r)
          /\ IF r.end = "ready" THEN doc' = rule /\ cmds' \in queue(cmds, "upsert", rule) ELSE Refused
    /\ UNCHANGED <<fw, local, agent, late, orphan, edits>>

Stop(o) ==
    /\ doc # None /\ Request /\ Costs(o)
    /\ LET r == remove_native_mapping(o)
       IN /\ MappingCall(r)
          /\ IF r.end = "ready"
             THEN doc' = [doc EXCEPT !.enabled = FALSE] /\ cmds' \in queue(cmds, "stop", None)
             ELSE Refused
    /\ UNCHANGED <<fw, local, agent, late, orphan, edits>>

(* What the handlers do: the rule they save and their call on the mapping.  *)
(* The mode is always native; without a rule there is only POST.            *)
Handled ==
    {[rule |-> r, call |-> IF r.enabled THEN ensure_native_mapping(r, "ok")
                           ELSE IF doc = None THEN NoCall ELSE remove_native_mapping("ok")] :
       r \in {q \in Rule : q.mode = "native"}}
    \cup (IF doc = None THEN {} ELSE {[rule |-> None, call |-> remove_native_mapping("ok")]})

(* Start and stop leave the obsolete firewall entry to others. *)
Toggled(rule) == doc # None /\ rule # None /\ rule.target = doc.target

(* The Hub dies in one of them, or a save fails, after the call on the      *)
(* mapping and the save of its binding: before the rule is saved, or before *)
(* the command is.                                                          *)
HandlerDies ==
    /\ Request /\ Fault
    /\ \E h \in Handled :
         /\ h.call.end = "ready" /\ MappingCall(h.call)
         /\ \/ doc' = doc /\ fw' \in {fw, FwRemoved}
            \/ doc' = h.rule /\ fw' \in {FwRemoved} \cup (IF Toggled(h.rule) THEN {fw} ELSE {})
         /\ orphan' = (doc' = None /\ (orphan \/ (h.rule # None /\ h.rule.enabled)))
    /\ UNCHANGED <<cmds, local, agent, late, edits>>

(* wireguard_service: a change of the server's port moves the rule's target *)
(* in the document, and nothing else (_sync_stun_rule_target_port).         *)
TargetMoves(t) ==
    /\ doc # None /\ Request /\ t # doc.target
    /\ doc' = [doc EXCEPT !.target = t]
    /\ UNCHANGED <<cmds, map, bind, fw, local, agent, late, unsure, orphan, edits, faults>>
-----------------------------------------------------------------------------
(* sync_stun and the three requests it makes *)

Retried == {n \in DOMAIN cmds : cmds[n].status = "delivered" /\ cmds[n].attempts < MaxAttempts}

Sent(c) == [c EXCEPT !.status = "delivered", !.attempts = @ + 1]
HandedOut(todo) == [Quiet EXCEPT !.pc = IF todo = <<>> THEN "status" ELSE "execute",
                                 !.todo = todo]

(* The rows that are delivered for 15 s are handed out again; which those   *)
(* are is not told.                                                         *)
agent_commands ==
    /\ agent.pc = "poll"
    /\ \E again \in SUBSET Retried :
         LET out  == again \cup {n \in DOMAIN cmds : cmds[n].status = "pending"}
             sent == [n \in DOMAIN cmds |-> IF n \in out THEN Sent(cmds[n]) ELSE cmds[n]]
         IN /\ cmds' = sent
            /\ \/ \E todo \in Picked(sent, out) : agent' = HandedOut(todo) /\ UNCHANGED faults
               \/ agent' = agent /\ Fault                   \* the answer is lost
    /\ UNCHANGED <<doc, map, bind, fw, local, late, unsure, orphan, requests, edits>>

Executed(c) ==
    CASE c.action = "upsert" -> c.rule
      [] c.action = "delete" -> None
      [] c.action = "stop"   -> IF local = None THEN None ELSE [local EXCEPT !.enabled = FALSE]

(* One command at the daemon, which may refuse it; the acknowledgement      *)
(* closes the row whether it says ok or not.                                *)
Execute ==
    /\ agent.pc = "execute"
    /\ LET c == Head(agent.todo) IN
         /\ \/ local' = Executed(c) /\ UNCHANGED faults
            \/ UNCHANGED local /\ Fault
         /\ agent' = [agent EXCEPT !.todo = Tail(@), !.done = @ \cup {c.id},
                                   !.pc = IF Len(agent.todo) = 1 THEN "ack" ELSE "execute"]
    /\ UNCHANGED <<hub, late, requests, edits>>

AckedRows(ids) == Picked(cmds, {n \in DOMAIN cmds : cmds[n].id \notin ids})
Reports(m)     == late' = late \cup {m}

Ack ==
    /\ agent.pc = "ack"
    /\ \/ /\ cmds' \in AckedRows(agent.done) /\ agent' = [Quiet EXCEPT !.pc = "status"]
          /\ UNCHANGED <<late, faults>>
       \/ /\ Fault /\ agent' = Quiet /\ UNCHANGED cmds
          /\ \/ UNCHANGED late
             \/ Reports([kind |-> "ack", ids |-> agent.done, rule |-> None])
    /\ UNCHANGED <<doc, map, bind, fw, local, unsure, orphan, requests, edits>>

ReadStatus ==
    /\ agent.pc = "status" /\ agent' = [Quiet EXCEPT !.pc = "report", !.report = local]
    /\ UNCHANGED <<hub, local, late, requests, edits, faults>>

(* Mutant: rules that only the router has are left there. *)
DriftOfDesired(rule) == IF doc = None \/ rule = doc THEN {cmds} ELSE queue(cmds, "upsert", doc)

(* A rule that is missing or different on the router is queued again, one   *)
(* that is not in the document is deleted.                                  *)
Drift(rule) ==
    IF doc = None THEN IF rule = None THEN {cmds} ELSE queue(cmds, "delete", None)
    ELSE IF rule = doc THEN {cmds} ELSE queue(cmds, "upsert", doc)

(* POST /api/router/stun/status.  remove_firewall takes the entry out of    *)
(* the document, and the last line saves what it held before.               *)
agent_status(rule, o) ==
    /\ cmds' \in Drift(rule)
    /\ IF doc # None /\ doc.enabled
       THEN LET r == ensure_native_mapping(doc, o) IN
              /\ MappingCall([r EXCEPT !.bind =
                    IF r.end = "raised" THEN Binds("error") ELSE r.bind])
              /\ fw' = [FwRemoved EXCEPT !.bound = fw.bound]
       ELSE UNCHANGED <<map, bind, unsure, fw>>
    /\ UNCHANGED <<doc, orphan>>

Report(o) ==
    /\ agent.pc = "report" /\ agent' = Quiet
    /\ \/ agent_status(agent.report, o) /\ Costs(o) /\ UNCHANGED late
       \/ /\ o = "raised" /\ Fault /\ UNCHANGED hub
          /\ \/ UNCHANGED late
             \/ Reports([kind |-> "status", ids |-> {}, rule |-> agent.report])
    /\ UNCHANGED <<local, requests, edits>>

ServedLate(m) ==
    /\ late' = late \ {m}
    /\ IF m.kind = "ack" THEN cmds' \in AckedRows(m.ids) /\ UNCHANGED <<doc, map, bind, fw, unsure, orphan>>
       ELSE agent_status(m.rule, "ok")
    /\ UNCHANGED <<local, agent, requests, edits, faults>>

AgentRestart ==
    /\ Fault /\ agent.pc # "poll" /\ agent' = Quiet
    /\ UNCHANGED <<hub, local, late, requests, edits>>

(* Somebody changes the mapping on the router, or deletes it there. *)
UserEdits ==
    /\ map # Gone /\ edits < MaxEdits /\ edits' = edits + 1
    /\ map' \in {Gone} \cup {m \in Mapping : m.edited}
    /\ UNCHANGED <<doc, cmds, bind, fw, local, agent, late, unsure, orphan, requests, faults>>
-----------------------------------------------------------------------------
Sync == agent_commands \/ Execute \/ Ack \/ ReadStatus \/ \E o \in Outcomes : Report(o)

App == \/ \E rule \in {r \in Rule : r.mode = "native"}, o \in Outcomes :
            Create(rule, o) \/ \E f \in BOOLEAN : Edit(rule, o, f)
       \/ \E o \in Outcomes : Start(o) \/ Stop(o) \/ \E f \in BOOLEAN : Delete(o, f)
       \/ HandlerDies
       \/ \E t \in Targets : TargetMoves(t)

LateServed == \E m \in late : ServedLate(m)

Next == Sync \/ App \/ UserEdits \/ AgentRestart \/ LateServed

(* The agent's loop calls sync_stun again and again; a request that waits   *)
(* for DATA_LOCK is served in the end.                                      *)
Spec == Init /\ [][Next]_vars /\ WF_vars(Sync) /\ WF_vars(LateServed)
-----------------------------------------------------------------------------
(* Once requests and failures cease, the daemon's copy of the rule becomes  *)
(* and stays the document's: a command delivered after a newer one, acked   *)
(* without effect or never queued is made good by the status reports.       *)
InStep == local = doc
Convergence == <>[]InStep

(* Under the same conditions an enabled rule has its mapping on the router, *)
(* or the binding tells the APP that the mapping was changed by hand.       *)
Served ==
    doc # None /\ doc.enabled =>
      \/ map = Own(doc) /\ bind = [print |-> map, state |-> "ready"]
      \/ bind # None /\ bind.state = "manual_change"
MappingServed == <>[]Served

(* After a write whose outcome the Hub could not record a mapping may be    *)
(* left behind.  Otherwise every mapping is in the binding, by which a      *)
(* later stop or delete finds it, and it belongs to a rule: none is left of *)
(* a deleted rule.  The one exception is a POST that ended between its      *)
(* mapping and its rule: nothing of the code looks for such a mapping.      *)
NoForgottenMapping ==
    map # Gone /\ ~ unsure => Fingerprint # None /\ (doc # None \/ orphan)

(* What the user changed on the router is neither overwritten nor deleted,  *)
(* and reported as a manual change only if somebody did change it, as long  *)
(* as the binding records the Hub's own writes.                             *)
ManualChangeKept ==
    [][~ unsure' => /\ (map # Gone /\ map.edited => map' = map \/ edits' # edits)
                    /\ (bind' # None /\ bind'.state = "manual_change" => edits' > 0)]_vars
=============================================================================
