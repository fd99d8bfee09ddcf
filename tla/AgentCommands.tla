---------------------------- MODULE AgentCommands ----------------------------
(***************************************************************************)
(* Update and cleanup commands for the router's agent: the handlers of     *)
(* hub.py as followup_stability_patch.py and final_stability_patch.py      *)
(* leave them, the worker thread that reads the release manifest for an    *)
(* update command, the checks for a new release, sync_agent_update of      *)
(* labrelay/src/agent.rs and the installer it spawns.                      *)
(*                                                                         *)
(* One router.  A request holds DATA_LOCK from start to end, so a handler  *)
(* is one step; the worker takes the lock for its load and again for its   *)
(* save, and is two.  An acknowledgement whose sender gave up may still    *)
(* wait for DATA_LOCK, and is then processed at any later time.            *)
(*                                                                         *)
(* Which release a source of the manifest, or the repository the installer *)
(* downloads from, has at a time is up to it: one may be behind another    *)
(* and behind what the router runs.                                        *)
(*                                                                         *)
(* Left out: tokens, messages and results shown to the user, what the      *)
(* cleanup deletes, and a status report that is served late.  The worker   *)
(* for a status query without a command is left out because                *)
(* final_stability_patch replaced its only caller.                         *)
(***************************************************************************)
EXTENDS Integers, Sequences, FiniteSets

CONSTANTS
    None,          \* no manifest, no acknowledgement
    MaxCmds,       \* bound: commands the APP creates
    MaxVersion,    \* bound: releases there are
    FirstVersion,  \* version of the agent at the start
    KeepCommands,  \* the numbers of rows the document may keep (100 in the code)
    PollLimit,     \* rows an answer to a poll carries (5 in the code)
    MaxFaults      \* bound: lost answers of the Hub, restarts

ASSUME VersionsAssumption == MaxVersion \in Nat /\ FirstVersion \in 1 .. MaxVersion
ASSUME BoundsAssumption   == /\ MaxCmds \in Nat /\ MaxFaults \in Nat
                             /\ KeepCommands \subseteq Nat \ {0} /\ PollLimit \in Nat

ASSUME NoneAssumption == None \notin 1 .. MaxVersion

VARIABLES
    keep,      \* rows the document keeps, fixed from the start
    cmds,      \* the commands document
    created,   \* commands created so far
    worker,    \* the manifest worker of each command
    cache,     \* AGENT_RELEASE_CACHE holds a manifest, of some release
    agent,     \* sync_agent_update: rows to do, acknowledgements to send, spawn after them
    install,   \* the installer of each command, and the version it backed up
    version,   \* version of the agent that runs on the router
    late,      \* acknowledgements still waiting at the Hub
    stranded,  \* history: commands that lost their last word, or the thread that prepares them
    peak,      \* history: the highest version that ran since a command was created
    passed,    \* history: the commands whose installer passed all its checks
    faults

vars == <<keep, cmds, created, worker, cache,
          agent, install, version, late, stranded, peak, passed, faults>>

Ids      == 1 .. MaxCmds
Versions == 1 .. MaxVersion
States   == {"preparing", "pending", "accepted", "completed", "failed"}
Active   == {"preparing", "pending", "accepted"}
Row      == [id : Ids, action : {"update", "cleanup"}, state : States,
             target : Versions \cup {None}]
Ack      == [id : Ids, state : {"accepted", "completed", "failed"}]

(* A worker: where it is, whether the cache held a manifest then, the       *)
(* document it loaded, what it will write into the row.                     *)
Worker == [pc : {"off", "lock", "fetch", "load", "save"}, seen : BOOLEAN,
           doc : Seq(Row),
           state : {"pending", "failed"}, target : Versions \cup {None}]

(* sync_agent_update: the rows of the answer that are still to do, the      *)
(* acknowledgements of the first, whether the installer follows them.       *)
Agent == [todo : Seq(Row), acks : Seq(Ack), spawn : BOOLEAN]
Installer == [pc : {"none", "running", "started", "passed", "failed"}, old : Versions]

Off == [pc |-> "off", seen |-> FALSE, doc |-> <<>>, state |-> "failed", target |-> None]
NoInstaller == [pc |-> "none", old |-> FirstVersion]
Quiet == [todo |-> <<>>, acks |-> <<>>, spawn |-> FALSE]

(* The state keeps its types; the document never exceeds the rows it keeps. *)
TypeOK ==
    /\ keep \in KeepCommands
    /\ cmds \in Seq(Row) /\ Len(cmds) <= keep
    /\ created \in 0 .. MaxCmds
    /\ worker \in [Ids -> Worker] /\ \A i \in Ids : Len(worker[i].doc) <= keep
    /\ cache \in BOOLEAN /\ version \in Versions
    /\ agent \in Agent
    /\ install \in [Ids -> Installer]
    /\ late \in SUBSET Ack /\ stranded \in SUBSET Ids
    /\ peak \in [Ids -> 0 .. MaxVersion] /\ passed \in SUBSET Ids
    /\ faults \in 0 .. MaxFaults

Init ==
    /\ keep \in KeepCommands /\ cmds = <<>> /\ created = 0 /\ worker = [i \in Ids |-> Off]
    /\ cache = FALSE /\ version = FirstVersion
    /\ agent = Quiet /\ install = [i \in Ids |-> NoInstaller]
    /\ late = {} /\ stranded = {} /\ peak = [i \in Ids |-> 0] /\ passed = {} /\ faults = 0

Fault == faults < MaxFaults /\ faults' = faults + 1

RowsOf(id) == {n \in DOMAIN cmds : cmds[n].id = id}
State(id)  == IF RowsOf(id) = {} THEN "gone" ELSE cmds[CHOOSE n \in RowsOf(id) : TRUE].state

(* commands[-100:] *)
Kept(rows) == IF Len(rows) <= keep THEN rows
              ELSE SubSeq(rows, Len(rows) - keep + 1, Len(rows))
-----------------------------------------------------------------------------
(* Requests of the APP *)

Queue(action, state) ==
    /\ created < MaxCmds /\ created' = created + 1
    /\ cmds' = Kept(Append(cmds, [id |-> created + 1, action |-> action,
                                  state |-> state, target |-> None]))
    /\ peak' = [peak EXCEPT ![created + 1] = version]

(* POST /api/agent/update: an active update is answered with; otherwise a   *)
(* row is queued and a thread is started that reads the manifest.           *)
update_request ==
    /\ ~ \E n \in DOMAIN cmds : cmds[n].action = "update" /\ cmds[n].state \in Active
    /\ Queue("update", "preparing")
    /\ worker' = [worker EXCEPT ![created + 1] = [Off EXCEPT !.pc = "lock"]]
    /\ UNCHANGED <<keep, cache, agent, install, version,
                   late, stranded, passed, faults>>

cleanup_request ==
    /\ Queue("cleanup", "pending")
    /\ UNCHANGED <<keep, worker, cache, agent, install, version,
                   late, stranded, passed, faults>>
-----------------------------------------------------------------------------
(* agent_release_manifest with force: the repository answers, or else the   *)
(* releases of GitHub, each with the release it happens to have; or neither *)
(* does, and what the cache held at the start, some release, is put back as *)
(* stale; or the cache was empty and it raises.                             *)
Fetched(seen) == Versions \cup (IF seen THEN {} ELSE {None})

(* _start_manifest_refresh: the lock is held until the row is written. *)
WorkerLocks(i) ==
    /\ worker[i].pc = "lock"
    /\ \A j \in Ids : worker[j].pc \in {"off", "lock"}
    /\ worker' = [worker EXCEPT ![i].pc = "fetch", ![i].seen = cache]
    /\ UNCHANGED <<keep, cmds, created, cache, agent, install,
                   version, late, stranded, peak, passed, faults>>

(* Mutant: an exception of the manifest ends the thread. *)
FetchedOrDies(i, v) ==
    IF v = None THEN [worker EXCEPT ![i] = Off]
    ELSE [worker EXCEPT ![i].pc = "load", ![i].target = v, ![i].state = "pending"]

AfterFetch(i, v) ==
    IF v = None THEN [worker EXCEPT ![i].pc = "load", ![i].state = "failed"]
    ELSE [worker EXCEPT ![i].pc = "load", ![i].target = v, ![i].state = "pending"]

WorkerFetches(i) ==
    /\ worker[i].pc = "fetch"
    /\ \E v \in Fetched(worker[i].seen) :
         /\ cache' = (cache \/ v # None)
         /\ worker' = AfterFetch(i, v)
    /\ UNCHANGED <<keep, cmds, created, agent, install, version,
                   late, stranded, peak, passed, faults>>

(* _update_command: load ... *)
WorkerLoads(i) ==
    /\ worker[i].pc = "load"
    /\ worker' = [worker EXCEPT ![i].pc = "save", ![i].doc = cmds]
    /\ UNCHANGED <<keep, cmds, created, cache, agent, install,
                   version, late, stranded, peak, passed, faults>>

(* The rows an older copy of the document takes the last word from. *)
Reopened(doc) == {doc[n].id : n \in {m \in DOMAIN doc :
                     /\ doc[m].state = "accepted"
                     /\ State(doc[m].id) \in {"completed", "failed"}}}

(* ... and save, of the document as it was loaded, if it holds the row. *)
WorkerSaves(i) ==
    /\ worker[i].pc = "save"
    /\ LET w == worker[i]
           Mine == {n \in DOMAIN w.doc : w.doc[n].id = i}
       IN IF Mine = {} THEN UNCHANGED <<cmds, stranded>>
          ELSE /\ cmds' = [n \in DOMAIN w.doc |->
                             IF n \in Mine
                               THEN [w.doc[n] EXCEPT !.state = w.state,
                                       !.target = IF w.state = "pending" THEN w.target ELSE @]
                               ELSE w.doc[n]]
               /\ stranded' = stranded \cup Reopened(w.doc)
    /\ worker' = [worker EXCEPT ![i] = Off]
    /\ UNCHANGED <<keep, created, cache, agent, install, version,
                   late, peak, passed, faults>>

(* start_check, of POST /api/agent/update/check and GET                    *)
(* /api/agent/update/status: its worker ends, and the manifest it read, or  *)
(* the one the Hub is shipped with (_fallback_manifest), is the cached one. *)
(* It takes no part in the manifest lock.  Until then the check has changed *)
(* nothing but check_state, which is shown to the APP and decides whether a *)
(* status query starts another check; the APP can start one at any time.    *)
CheckEnds ==
    /\ ~ cache /\ cache' = TRUE
    /\ UNCHANGED <<keep, cmds, created, worker, agent, install, version,
                   late, stranded, peak, passed, faults>>
-----------------------------------------------------------------------------
(* Requests of the agent *)

(* The first PollLimit pending rows, by position. *)
Answer ==
    LET pending == {k \in DOMAIN cmds : cmds[k].state = "pending"}
    IN {k \in pending : Cardinality({j \in pending : j <= k}) <= PollLimit}

(* The positions of K in their order. *)
InOrder(K) == {p \in [1 .. Cardinality(K) -> K] :
                 \A j, k \in 1 .. Cardinality(K) : j < k => p[j] < p[k]}

(* GET /api/router/agent/commands: the first pending rows, as they are. *)
agent_commands ==
    /\ agent = Quiet /\ Answer # {}
    /\ \E p \in InOrder(Answer) : agent' = [agent EXCEPT !.todo = [n \in DOMAIN p |-> cmds[p[n]]]]
    /\ UNCHANGED <<keep, cmds, created, worker, cache, install,
                   version, late, stranded, peak, passed, faults>>

Say(id, state) == [id |-> id, state |-> state]

(* What the agent does with the first row: the acknowledgements it will     *)
(* send and whether it then spawns the installer.                           *)
Begin ==
    /\ agent.todo # <<>> /\ agent.acks = <<>> /\ ~ agent.spawn
    /\ LET r == Head(agent.todo) IN
       \/ /\ r.action = "cleanup"
          /\ \E end \in {"completed", "failed"} :
               agent' = [agent EXCEPT !.acks = <<Say(r.id, "accepted"), Say(r.id, end)>>]
          /\ UNCHANGED faults
       \/ /\ r.action = "update"      \* the installer cannot be fetched or stored
          /\ agent' = [agent EXCEPT !.acks = <<Say(r.id, "failed")>>]
          /\ UNCHANGED faults
       \/ /\ r.action = "update"
          /\ agent' = [agent EXCEPT !.acks = <<Say(r.id, "accepted")>>, !.spawn = TRUE]
          /\ UNCHANGED faults
       \/ /\ r.action = "update"      \* sh cannot be started
          /\ Fault
          /\ agent' = [agent EXCEPT !.acks = <<Say(r.id, "accepted"), Say(r.id, "failed")>>]
    /\ UNCHANGED <<keep, cmds, created, worker, cache, install,
                   version, late, stranded, peak, passed>>

(* The agent goes on after an acknowledgement: to the next one, to the      *)
(* installer, which ends the round, or to the next row.                     *)
Proceed ==
    /\ agent' = LET rest == Tail(agent.acks) IN
         CASE rest # <<>> -> [agent EXCEPT !.acks = rest]
           [] rest = <<>> /\ agent.spawn -> Quiet
           [] OTHER -> [agent EXCEPT !.acks = <<>>, !.todo = Tail(@)]
    /\ install' = IF Len(agent.acks) = 1 /\ agent.spawn
                    THEN [install EXCEPT ![Head(agent.todo).id] = [pc |-> "running", old |-> version]]
                    ELSE install

(* POST /api/router/agent/ack: the row takes the state, whatever it had. *)
Acknowledged(a) == [n \in DOMAIN cmds |-> IF cmds[n].id = a.id
                                            THEN [cmds[n] EXCEPT !.state = a.state] ELSE cmds[n]]

(* The Hub processes the acknowledgement and the answer arrives. *)
AckAnswered ==
    /\ agent.acks # <<>> /\ cmds' = Acknowledged(Head(agent.acks)) /\ Proceed
    /\ UNCHANGED <<keep, created, worker, cache, version,
                   late, stranded, peak, passed, faults>>

(* The answer is lost: post_json sends it again. *)
AckRepeated ==
    /\ agent.acks # <<>> /\ cmds' = Acknowledged(Head(agent.acks)) /\ Fault
    /\ UNCHANGED <<keep, created, worker, cache, agent, install,
                   version, late, stranded, peak, passed>>

(* post_json gives up, which the agent ignores: the acknowledgement is lost *)
(* or still waits at the Hub.                                               *)
AckAbandoned ==
    /\ agent.acks # <<>> /\ Fault /\ Proceed
    /\ LET a == Head(agent.acks) IN
       \/ late' = late \cup {a} /\ UNCHANGED stranded
       \/ /\ UNCHANGED late
          /\ stranded' = stranded \cup (IF a.state = "accepted" THEN {} ELSE {a.id})
    /\ UNCHANGED <<keep, cmds, created, worker, cache,
                   version, peak, passed>>

(* An acceptance that comes after the last word reopens the row. *)
AckLate(a) ==
    /\ a \in late /\ late' = late \ {a} /\ cmds' = Acknowledged(a)
    /\ stranded' = stranded \cup (IF a.state = "accepted" /\ State(a.id) \in {"completed", "failed"}
                                   THEN {a.id} ELSE {})
    /\ UNCHANGED <<keep, created, worker, cache, agent, install,
                   version, peak, passed, faults>>
-----------------------------------------------------------------------------
(* The installer, scripts/labprobe-install.sh, which the agent starts in    *)
(* the background.  It says how it ended once, with no second try, and not  *)
(* at all on a router without curl.                                         *)

(* The agent is started again, with version v.  What it was about to        *)
(* acknowledge is lost.                                                     *)
Restarted(v) ==
    /\ version' = v /\ agent' = Quiet
    /\ peak' = [i \in Ids |-> IF i <= created /\ peak[i] < v THEN v ELSE peak[i]]
    /\ stranded' = stranded \cup (IF agent.acks = <<>> THEN {} ELSE {Head(agent.todo).id})

(* fail: a check or the download ends it before anything is replaced. *)
InstallerFails(i) ==
    /\ install[i].pc = "running" /\ install' = [install EXCEPT ![i].pc = "failed"]
    /\ UNCHANGED <<keep, cmds, created, worker, cache, agent, version,
                   late, stranded, peak, passed, faults>>

(* The service is stopped, the release that was downloaded is put in place  *)
(* and started.                                                             *)
InstallerStarts(i) ==
    /\ install[i].pc = "running"
    /\ install' = [install EXCEPT ![i].pc = "started"]
    /\ \E v \in Versions : Restarted(v)
    /\ UNCHANGED <<keep, cmds, created, worker, cache, late,
                   passed, faults>>

(* rollback: a step after the service was stopped fails, be it before the   *)
(* new one is started or while the installer waits for the relay's socket   *)
(* and for the Hub.  The backup is put back and started.                    *)
InstallerRollsBack(i) ==
    /\ install[i].pc \in {"running", "started"}
    /\ install' = [install EXCEPT ![i].pc = "failed"]
    /\ Restarted(install[i].old)
    /\ UNCHANGED <<keep, cmds, created, worker, cache, late,
                   passed, faults>>

(* wait_for_relay and wait_for_hub succeed.  The version is not looked at. *)
InstallerPasses(i) ==
    /\ install[i].pc = "started" /\ install' = [install EXCEPT ![i].pc = "passed"]
    /\ passed' = passed \cup {i}
    /\ UNCHANGED <<keep, cmds, created, worker, cache, agent, version,
                   late, stranded, peak, faults>>

InstallerAck(i) == Say(i, IF install[i].pc = "passed" THEN "completed" ELSE "failed")

(* command_ack: processed, still to be processed, or lost. *)
InstallerSays(i) ==
    /\ install[i].pc \in {"passed", "failed"} /\ install' = [install EXCEPT ![i] = NoInstaller]
    /\ \/ cmds' = Acknowledged(InstallerAck(i)) /\ UNCHANGED <<late, stranded, faults>>
       \/ Fault /\ late' = late \cup {InstallerAck(i)} /\ UNCHANGED <<cmds, stranded>>
       \/ stranded' = stranded \cup {i} /\ UNCHANGED <<cmds, late, faults>>
    /\ UNCHANGED <<keep, created, worker, cache, agent,
                   version, peak, passed>>

(* Mutant: the version is not compared with the target. *)
CompletesAny(r) == r.action = "update" /\ r.state = "accepted"

(* Mutant: only acknowledgements complete a row. *)
CompletesNone(r) == FALSE

CompletesRow(r) == r.action = "update" /\ r.state = "accepted" /\ version >= r.target

(* POST /api/router/agent/status: an accepted update whose target the agent *)
(* has reached is completed.                                                *)
agent_status ==
    /\ \E n \in DOMAIN cmds : CompletesRow(cmds[n])
    /\ cmds' = [n \in DOMAIN cmds |-> IF CompletesRow(cmds[n])
                                        THEN [cmds[n] EXCEPT !.state = "completed"] ELSE cmds[n]]
    /\ UNCHANGED <<keep, created, worker, cache, agent, install,
                   version, late, stranded, peak, passed, faults>>
-----------------------------------------------------------------------------
(* The Hub restarts: the document stays, threads, caches and waiting        *)
(* requests are gone.                                                       *)
HubRestart ==
    /\ Fault
    /\ stranded' = stranded \cup {i \in Ids : worker[i].pc # "off"}
                   \cup {a.id : a \in {b \in late : b.state # "accepted"}}
    /\ worker' = [i \in Ids |-> Off] /\ cache' = FALSE
    /\ late' = {}
    /\ UNCHANGED <<keep, cmds, created, agent, install, version, peak, passed>>

AgentRestart ==
    /\ Fault /\ Restarted(version)
    /\ UNCHANGED <<keep, cmds, created, worker, cache, install,
                   late, passed>>

WorkerStep(i) == WorkerLocks(i) \/ WorkerFetches(i) \/ WorkerLoads(i) \/ WorkerSaves(i)
AgentStep == agent_commands \/ Begin \/ AckAnswered
InstallerStep(i) == \/ InstallerFails(i) \/ InstallerStarts(i) \/ InstallerRollsBack(i)
                    \/ InstallerPasses(i) \/ InstallerSays(i)
LateStep == \E a \in late : AckLate(a)

Next ==
    \/ update_request \/ cleanup_request
    \/ (\E i \in Ids : WorkerStep(i) \/ InstallerStep(i))
    \/ CheckEnds \/ AgentStep \/ AckRepeated \/ AckAbandoned
    \/ LateStep \/ agent_status \/ HubRestart \/ AgentRestart

(* Threads run, requests get an answer in the end, the agent polls and      *)
(* reports every few seconds, and each step of the installer has a limit.   *)
(* Nothing is assumed of the APP.                                           *)
Fairness ==
    /\ \A i \in Ids : WF_vars(WorkerStep(i)) /\ WF_vars(InstallerStep(i))
    /\ WF_vars(AgentStep) /\ WF_vars(agent_status) /\ WF_vars(LateStep)

Spec == Init /\ [][Next]_vars /\ Fairness
-----------------------------------------------------------------------------
(* An update is shown as completed only if, since the APP asked for it, the *)
(* agent ran with its target or a newer version, or its own installer has   *)
(* passed every check: whichever of installer, agent and late request said  *)
(* so, and although a worker writes back rows it loaded earlier.            *)
CompletionEarned ==
    \A n \in DOMAIN cmds : LET c == cmds[n] IN
       c.action = "update" /\ c.state = "completed"
         => c.id \in passed \/ (c.target # None /\ peak[c.id] >= c.target)

(* No command is left in "preparing" by a Hub that runs on: whatever the    *)
(* update repository does, its thread makes it pending or failed, and no    *)
(* later save puts the old row back.                                        *)
NonePreparing == \A i \in Ids : State(i) = "preparing" => i \in stranded
PreparingResolves == <>[]NonePreparing

(* Every update the router may see is settled in the end and stays so: a    *)
(* row that stays pending or accepted would have every later request        *)
(* answered with it.  Excepted are accepted rows whose last word was lost,  *)
(* as long as the router does not run their target: once it does, a status  *)
(* report completes them.                                                   *)
Reached(r) == r.target # None /\ version >= r.target
AllSettled ==
    \A n \in DOMAIN cmds : LET r == cmds[n] IN
       r.action = "update" =>
         /\ r.state # "pending"
         /\ r.state = "accepted" => r.id \in stranded /\ ~ Reached(r)
UpdateSettles == <>[]AllSettled
=============================================================================
