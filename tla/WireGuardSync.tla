---------------------------- MODULE WireGuardSync ----------------------------
(***************************************************************************)
(* The WireGuard server of the router (wireguard_service.py on the Hub,    *)
(* sync_wireguard in labrelay/src/agent.rs, labrelay/src/wireguard.rs):    *)
(* the Hub keeps one desired document with a revision, queues an apply or  *)
(* a delete for the agent, and queues it again whenever the agent reports  *)
(* an older revision.  Public endpoints have revisions of their own.       *)
(*                                                                         *)
(* What the kernel is configured with is identified by the revision of the *)
(* document it came from.  The Hub's handlers hold DATA_LOCK and are       *)
(* atomic, but a handler that saves the document and then the queue may    *)
(* die in between.  The queue is a set: commands of one scope supersede    *)
(* each other, and nothing here depends on the order of the others.  The   *)
(* commands that are done or failed are read by nobody and left out, and   *)
(* so are the validation of a document, the firewall rules the Hub asks    *)
(* for afterwards (errors there are ignored) and the agent's "stop", which *)
(* the Hub never queues.                                                   *)
(***************************************************************************)
EXTENDS Integers, FiniteSets

CONSTANTS
    Ifaces,        \* names of WireGuard interfaces
    DefaultIface,  \* labwg0
    Profiles,      \* ids of the endpoint profiles that have an updater
    CmdIds,        \* command ids, a set of naturals, reused once nobody holds them
    MaxAttempts,   \* deliveries after which a delivered command is not retried (5)
    MaxRev,        \* bound: revisions of the document
    MaxObs,        \* bound: endpoints observed by the updaters
    MaxFaults,     \* bound: failures of the network, the agent, the Hub, the router
    NoServer, NoProfile

ASSUME IfaceAssumption == DefaultIface \in Ifaces
ASSUME BoundsAssumption ==
    /\ MaxRev \in Nat /\ MaxObs \in Nat /\ MaxFaults \in Nat
    /\ MaxAttempts \in Nat \ {0} /\ CmdIds \subseteq Nat

VARIABLES
    rev,       \* the document's revision
    server,    \* its server, or NoServer
    tomb,      \* the interface named by the tombstone
    cmds,      \* the open commands
    seen,      \* what the APP last read of the document
    patches,   \* endpoint updates the updaters are about to send
    obs,       \* endpoints observed so far
    mem,       \* the agent's state: the revision it applied, its endpoint profiles
    saved,     \* its state file, in /tmp
    kern,      \* the router's WireGuard interfaces
    pc,        \* where the agent is in its loop
    batch,     \* commands it received and has not applied
    acks,      \* ids of the commands it has applied
    late,      \* requests of the agent the Hub may still process
    faults

hubVars   == <<rev, server, tomb, cmds>>
appVars   == <<seen, patches, obs>>
agentVars == <<mem, saved, kern, pc, batch, acks>>
vars      == <<rev, server, tomb, cmds, seen, patches, obs,
               mem, saved, kern, pc, batch, acks, late, faults>>

(* An endpoint is known by the number of its observation, 0 for "unknown". *)
Endpoint  == [rev : Nat, val : 0 .. MaxObs]
Endpoints == [Profiles -> Endpoint \cup {NoProfile}]
None      == [p \in Profiles |-> NoProfile]
Server    == [iface : Ifaces, eps : Endpoints]
ASSUME NoServerAssumption == NoServer \notin Server /\ NoProfile \notin Endpoint

(* An interface, with the revision that last touched it: "partial" when an *)
(* apply failed half-way.                                                  *)
Interface == [rev : 0 .. MaxRev, state : {"absent", "partial", "set"}]
NoInterfaces == [i \in Ifaces |-> [rev |-> 0, state |-> "absent"]]

Patch == [profile : Profiles, expected : Nat, val : 1 .. MaxObs]

Work == [act : {"apply"}, rev : 1 .. MaxRev, iface : Ifaces, eps : Endpoints]
        \cup [act : {"delete"}, rev : 1 .. MaxRev, iface : Ifaces]
        \cup [act : {"endpoint"}, rev : Nat, patch : Patch]

Command == [id : CmdIds, work : Work, status : {"pending", "delivered"},
            attempts : 0 .. MaxAttempts]

Message == [kind : {"ack"}, ids : SUBSET CmdIds] \cup [kind : {"status"}, rev : 0 .. MaxRev]

AgentState == [rev : 0 .. MaxRev, eps : Endpoints]

(* The state keeps its types: every command, message and endpoint carries a *)
(* revision the Hub has given out, and the ids of commands never run out.   *)
TypeOK ==
    /\ rev \in 0 .. MaxRev
    /\ server \in Server \cup {NoServer}
    /\ tomb \in Ifaces
    /\ cmds \subseteq Command
    /\ seen \in [rev : 0 .. MaxRev, eps : Endpoints]
    /\ patches \subseteq Patch
    /\ obs \in 0 .. MaxObs
    /\ mem \in AgentState /\ saved \in AgentState
    /\ kern \in [Ifaces -> Interface]
    /\ pc \in {"poll", "apply", "status", "save"}
    /\ batch \subseteq [id : CmdIds, work : Work]
    /\ acks \subseteq CmdIds
    /\ late \subseteq Message
    /\ faults \in 0 .. MaxFaults

Blank == [rev |-> 0, eps |-> None]

Init ==
    /\ rev = 0 /\ server = NoServer /\ tomb = DefaultIface /\ cmds = {}
    /\ seen = Blank /\ patches = {} /\ obs = 0
    /\ mem = Blank /\ saved = Blank /\ kern = NoInterfaces
    /\ pc = "poll" /\ batch = {} /\ acks = {}
    /\ late = {} /\ faults = 0
-----------------------------------------------------------------------------
Fault == faults < MaxFaults /\ faults' = faults + 1
NoFault == UNCHANGED faults

(* Command ids that somebody other than the Hub still holds. *)
Held == acks \cup {c.id : c \in batch} \cup UNION {m.ids : m \in {n \in late : n.kind = "ack"}}

(* revisionScope: the server, or one endpoint profile. *)
Scope(w) == IF w.act = "endpoint" THEN {w.patch.profile} ELSE {}

(* Mutant: older commands stay in the queue. *)
SupersededNone(w) == {}

(* queue: open commands of the same scope that are not newer are dropped. *)
Superseded(w) == {c \in cmds : Scope(c.work) = Scope(w) /\ c.work.rev <= w.rev}

queue(w) ==
    LET kept == cmds \ Superseded(w)
        free == CmdIds \ (Held \cup {c.id : c \in kept})
    IN \E id \in free :
         /\ \A other \in free : id <= other
         /\ cmds' = kept \cup {[id |-> id, work |-> w, status |-> "pending", attempts |-> 0]}

(* The document is saved; the Hub dies before the queue is, or goes on. *)
SaveAndQueue(w) == \/ queue(w) /\ NoFault
                   \/ UNCHANGED cmds /\ Fault

ApplyWork(r, s)  == [act |-> "apply", rev |-> r, iface |-> s.iface, eps |-> s.eps]
DeleteWork(r, i) == [act |-> "delete", rev |-> r, iface |-> i]
-----------------------------------------------------------------------------
(* The APP and the endpoint updaters. *)

Current == IF server = NoServer THEN None ELSE server.eps

(* GET /api/wireguard/server *)
AppRead ==
    /\ seen' = [rev |-> rev, eps |-> Current]
    /\ UNCHANGED <<hubVars, patches, obs, agentVars, late, faults>>

(* clean_server on the profiles of a PUT: one it leaves out is removed, one *)
(* it sends back as it was read keeps the endpoint that was read, and one   *)
(* it sends without its endpoint keeps only the revision.                   *)
clean_profiles(sent) ==
    [p \in Profiles |->
        CASE sent[p] = "left out" -> NoProfile
          [] sent[p] = "as read"  -> seen.eps[p]
          [] sent[p] = "bare"     ->
                [rev |-> IF Current[p] = NoProfile THEN 0 ELSE Current[p].rev, val |-> 0]]

(* PUT /api/wireguard/server; expectedRevision is optional. *)
Put ==
    /\ rev < MaxRev
    /\ \E iface \in Ifaces, expected \in {seen.rev, rev},
          sent \in [Profiles -> {"left out", "as read", "bare"}] :
         /\ expected = rev
         /\ server' = [iface |-> iface, eps |-> clean_profiles(sent)]
         /\ rev' = rev + 1
         /\ SaveAndQueue(ApplyWork(rev + 1, server'))
    /\ UNCHANGED <<tomb, seen, patches, obs, agentVars, late>>

(* DELETE /api/wireguard/server *)
Delete ==
    /\ rev < MaxRev
    /\ server' = NoServer
    /\ tomb' = IF server = NoServer THEN DefaultIface ELSE server.iface
    /\ rev' = rev + 1
    /\ SaveAndQueue(DeleteWork(rev + 1, tomb'))
    /\ UNCHANGED <<seen, patches, obs, agentVars, late>>

(* An updater reads the endpoint's revision and finds out a new endpoint. *)
Observe(p) ==
    /\ obs < MaxObs
    /\ Current[p] # NoProfile
    /\ obs' = obs + 1
    /\ patches' = patches \cup
                    {[profile |-> p, expected |-> Current[p].rev, val |-> obs + 1]}
    /\ UNCHANGED <<hubVars, seen, agentVars, late, faults>>

(* The updater's profile exists and has the revision the updater expects. *)
Matches(eps, u) == eps[u.profile] # NoProfile /\ eps[u.profile].rev = u.expected

Updated(u) == [rev |-> u.expected + 1, val |-> u.val]

(* PATCH /api/wireguard/endpoints/<p>: update_endpoint. *)
update_endpoint(u) ==
    /\ u \in patches
    /\ patches' = patches \ {u}
    /\ Matches(Current, u)
    /\ server' = [server EXCEPT !.eps[u.profile] = Updated(u)]
    /\ SaveAndQueue([act |-> "endpoint", rev |-> u.expected + 1, patch |-> u])
    /\ UNCHANGED <<rev, tomb, seen, obs, agentVars, late>>

(* 409 or 400: the profile is gone, or its revision is another one by now. *)
endpoint_conflict(u) ==
    /\ u \in patches
    /\ patches' = patches \ {u}
    /\ ~ Matches(Current, u)
    /\ UNCHANGED <<hubVars, seen, obs, agentVars, late, faults>>
-----------------------------------------------------------------------------
(* Requests of the agent. *)

(* GET .../commands: the pending commands and those of `due', delivered at *)
(* least 15 s ago and not too often.  The limit of 10 commands per poll is *)
(* left out: there is about one open command per scope.                    *)
Retriable == {c \in cmds : c.status = "delivered" /\ c.attempts < MaxAttempts}
Ready(due) == {c \in cmds : c.status = "pending"} \cup due
Delivered(c) == [c EXCEPT !.status = "delivered",
                          !.attempts = IF @ < MaxAttempts THEN @ + 1 ELSE @]

HandOut(due) == cmds' = (cmds \ Ready(due)) \cup {Delivered(c) : c \in Ready(due)}

(* Mutant: the same revision counts as behind. *)
StatusOfEqual(r) ==
    IF r <= rev
      THEN queue(IF server # NoServer THEN ApplyWork(rev, server) ELSE DeleteWork(rev, tomb))
      ELSE UNCHANGED cmds

(* Mutant: a report is stored and nothing else. *)
StatusStoredOnly(r) == UNCHANGED cmds

(* POST .../status: an agent that is behind is sent the document again. *)
Status(r) ==
    IF r < rev
      THEN queue(IF server # NoServer THEN ApplyWork(rev, server) ELSE DeleteWork(rev, tomb))
      ELSE UNCHANGED cmds

Process(m) ==
    /\ IF m.kind = "ack" THEN cmds' = {c \in cmds : c.id \notin m.ids} ELSE Status(m.rev)
    /\ UNCHANGED <<rev, server, tomb>>
-----------------------------------------------------------------------------
(* The agent: sync_wireguard, then the state file. *)

AgentPoll ==
    /\ pc = "poll"
    /\ \E due \in SUBSET Retriable :
         /\ HandOut(due)
         /\ batch' = {[id |-> c.id, work |-> c.work] : c \in Ready(due)}
         /\ pc' = IF Ready(due) = {} THEN "status" ELSE "apply"
    /\ NoFault /\ UNCHANGED <<rev, server, tomb, appVars, mem, saved, kern, acks, late>>

(* The response is lost: the agent gives up for this time. *)
PollLost ==
    /\ pc = "poll"
    /\ \E due \in SUBSET Retriable : Ready(due) # {} /\ HandOut(due)
    /\ pc' = "save"
    /\ Fault /\ UNCHANGED <<rev, server, tomb, appVars, mem, saved, kern, batch, acks, late>>

(* apply_endpoint_update: only the next revision of a known profile. *)
apply_endpoint_update(u) ==
    IF Matches(mem.eps, u) THEN [mem EXCEPT !.eps[u.profile] = Updated(u)] ELSE mem

(* apply_server and delete_server: the interface afterwards. *)
Touched(w, state) == [kern EXCEPT ![w.iface] = [rev |-> w.rev, state |-> state]]

Applied(w) == Touched(w, IF w.act = "apply" THEN "set" ELSE "absent")

(* A server command newer than what the agent has. *)
IsNews(w) == w.act # "endpoint" /\ w.rev > mem.rev

Take(c) ==
    /\ pc = "apply" /\ c \in batch
    /\ batch' = batch \ {c}
    /\ acks' = acks \cup {c.id}
    /\ UNCHANGED <<hubVars, appVars, saved, pc, late>>

AgentApply(c) ==
    /\ Take(c)
    /\ IsNews(c.work)
    /\ kern' = Applied(c.work)
    /\ mem' = [rev |-> c.work.rev,
               eps |-> IF c.work.act = "apply" THEN c.work.eps ELSE mem.eps]
    /\ NoFault

(* Mutant: the revision is recorded although the apply failed. *)
AgentApplyFailsRecorded(c) ==
    /\ Take(c)
    /\ IsNews(c.work)
    /\ kern' = kern
    /\ mem' = [mem EXCEPT !.rev = c.work.rev]
    /\ Fault

(* The kernel or the ip tool fails, before or after it changed something. *)
AgentApplyFails(c) ==
    /\ Take(c)
    /\ IsNews(c.work)
    /\ kern' = kern \/ (c.work.act = "apply" /\ kern' = Touched(c.work, "partial"))
    /\ Fault /\ UNCHANGED mem

(* A stale revision is refused, the same one answered from the cache. *)
AgentSkip(c) ==
    /\ Take(c)
    /\ c.work.act # "endpoint" /\ ~ IsNews(c.work)
    /\ NoFault /\ UNCHANGED <<mem, kern>>

AgentEndpoint(c) ==
    /\ Take(c)
    /\ c.work.act = "endpoint"
    /\ mem' = apply_endpoint_update(c.work.patch)
    /\ NoFault /\ UNCHANGED kern

(* post_json.  With a fault, the response of a first attempt was lost and a *)
(* copy of the request is still to be processed.                            *)
AgentPost(m, next) ==
    /\ Process(m)
    /\ pc' = next /\ acks' = {}
    /\ \/ NoFault /\ UNCHANGED late
       \/ Fault /\ late' = late \cup {m}
    /\ UNCHANGED <<appVars, mem, saved, kern, batch>>

(* post_json gives up, and the rest of sync_wireguard is skipped. *)
AgentPostFails(m) ==
    /\ pc' = "save" /\ acks' = {}
    /\ late' \in {late, late \cup {m}}
    /\ Fault /\ UNCHANGED <<hubVars, appVars, mem, saved, kern, batch>>

AckMessage == [kind |-> "ack", ids |-> acks]
StatusMessage == [kind |-> "status", rev |-> mem.rev]

AgentAck         == pc = "apply" /\ batch = {} /\ AgentPost(AckMessage, "status")
AgentAckFails    == pc = "apply" /\ batch = {} /\ AgentPostFails(AckMessage)
AgentStatus      == pc = "status" /\ AgentPost(StatusMessage, "save")
AgentStatusFails == pc = "status" /\ AgentPostFails(StatusMessage)

(* The end of the loop in run. *)
AgentSave ==
    /\ pc = "save"
    /\ saved' = mem
    /\ pc' = "poll"
    /\ UNCHANGED <<hubVars, appVars, mem, kern, batch, acks, late, faults>>

(* A late request reaches the Hub, or is lost. *)
DeliverLate ==
    /\ \E m \in late : Process(m) /\ late' = late \ {m}
    /\ UNCHANGED <<appVars, agentVars, faults>>

LoseLate ==
    /\ \E m \in late : late' = late \ {m}
    /\ UNCHANGED <<hubVars, appVars, agentVars, faults>>

(* The agent is killed, or could not write its state. *)
AgentRestart ==
    /\ mem' = saved
    /\ pc' = "poll" /\ batch' = {} /\ acks' = {}
    /\ Fault /\ UNCHANGED <<hubVars, appVars, saved, kern, late>>

(* The router reboots: the interfaces and /tmp are gone. *)
Reboot ==
    /\ kern' = NoInterfaces
    /\ mem' = Blank /\ saved' = Blank
    /\ pc' = "poll" /\ batch' = {} /\ acks' = {}
    /\ Fault /\ UNCHANGED <<hubVars, appVars, late>>
-----------------------------------------------------------------------------
AgentStep ==
    \/ AgentPoll \/ AgentAck \/ AgentStatus \/ AgentSave
    \/ \E c \in batch : AgentApply(c) \/ AgentSkip(c) \/ AgentEndpoint(c)

Next ==
    \/ AppRead \/ Put \/ Delete
    \/ \E p \in Profiles : Observe(p)
    \/ \E u \in patches : update_endpoint(u) \/ endpoint_conflict(u)
    \/ AgentStep
    \/ \E c \in batch : AgentApplyFails(c)
    \/ PollLost \/ AgentAckFails \/ AgentStatusFails
    \/ DeliverLate \/ LoseLate \/ AgentRestart \/ Reboot

(* The agent's loop runs for ever, and a request in flight is processed or lost. *)
Fairness == WF_vars(AgentStep) /\ WF_vars(DeliverLate \/ LoseLate)

Spec == Init /\ [][Next]_vars /\ Fairness
-----------------------------------------------------------------------------
(* The kernel is configured as the document says. *)
InStep ==
    IF server # NoServer
      THEN kern[server.iface] = [rev |-> rev, state |-> "set"]
      ELSE rev > 0 => kern[tomb].state = "absent"

(* An agent that has the document's revision has it in the kernel too:     *)
(* neither a half-applied configuration, nor a restart from an old state   *)
(* file, nor a command queued before a crash of the Hub lets it report a   *)
(* revision that the router does not run.                                  *)
AppliedIsDesired == mem.rev = rev => InStep

(* Short of a reboot, the router never goes back to an older revision, so a *)
(* deleted server is not brought back by a command from before the          *)
(* deletion, whatever was delivered twice, late or after a restart.         *)
NoDowngrade ==
    [][kern' # NoInterfaces => \A i \in Ifaces : kern'[i].rev >= kern[i].rev]_vars

(* Once the APP is at rest and the failures are over, the router runs what *)
(* the document says.                                                      *)
Settled == mem.rev = rev /\ InStep
Convergence == <>[]Settled

(* WIREGUARD_MVP.md says that a stale DDNS or STUN result cannot overwrite *)
(* a newer endpoint: an endpoint is only ever replaced by one that was     *)
(* observed later (or forgotten, when a PUT leaves it out).                *)
NewerEndpointKept ==
    [][\A p \in Profiles :
         Current[p] # NoProfile /\ Current'[p] # NoProfile =>
            Current'[p].val \in {0} \cup (Current[p].val .. MaxObs)]_vars
=============================================================================
