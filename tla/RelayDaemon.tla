----------------------------- MODULE RelayDaemon -----------------------------
(***************************************************************************)
(* The LabRelay daemon's Manager (labrelay/src/main.rs): the rule map, the *)
(* persisted configuration, the running listeners, and the RPC handlers    *)
(* that mutate them.  Every connection to the control socket is served by  *)
(* its own task; `operation_lock' serialises the tasks that mutate.  Every *)
(* await at which another task or a crash can intervene is a step.         *)
(*                                                                         *)
(* Left out: the cached RuntimeSnapshot counters and the text of errors,   *)
(* which no decision of the Manager reads, and validate_rule, which the    *)
(* Hub has already applied to every rule it sends.                         *)
(***************************************************************************)
EXTENDS RelayRules

CONSTANTS
    Handlers,      \* tasks serving control-socket connections
    NoHandler,     \* operation_lock is free
    BindMayFail,   \* a process outside LabRelay may own a listen port
    DiskMayFail    \* persisting the configuration may fail (flash full, read-only)

ASSUME NoHandlerAssumption == NoHandler \notin Handlers
ASSUME FaultsAssumption == BindMayFail \in BOOLEAN /\ DiskMayFail \in BOOLEAN

VARIABLES
    rules,      \* Manager.rules: the rule map in memory
    disk,       \* the configuration file
    runtimes,   \* Manager.runtimes: the rule each handle was started with
    live,       \* ids whose listener task still runs
    lock,       \* holder of Manager.operation_lock
    pc,         \* where each handler is
    req,        \* the request each handler serves
    prev,       \* upsert's `previous'
    boot,       \* rules start_enabled has still to start
    now         \* the router's clock

vars == <<rules, disk, runtimes, live, lock, pc, req, prev, boot, now>>

Request == [act : {"upsert"}, id : RuleIds, rule : Rule]
           \cup [act : {"start", "stop", "delete"}, id : RuleIds, rule : {NoRule}]

NoRequest == [act |-> "none", id |-> NoRule, rule |-> NoRule]

Where == {"idle", "lock",
          "upsert", "upsertPersist", "rollback", "rollbackPersist",
          "enable", "enablePersist", "start", "bind", "restore", "restoreBind",
          "stop", "stopPersist", "stopRuntime",
          "delete", "deleteRemove", "deletePersist"}

(* The daemon's state keeps its types: a handler is always at a step of    *)
(* handle_command_fixed, and every rule map holds well-formed rules.       *)
TypeOK ==
    /\ rules \in Config
    /\ disk \in Config
    /\ runtimes \in Config
    /\ live \subseteq RuleIds
    /\ lock \in Handlers \cup {NoHandler}
    /\ pc \in [Handlers -> Where]
    /\ req \in [Handlers -> Request \cup {NoRequest}]
    /\ prev \in [Handlers -> Rule \cup {NoRule}]
    /\ boot \subseteq RuleIds
    /\ now \in 0 .. MaxExp

Init ==
    /\ rules = EmptyConfig
    /\ disk = EmptyConfig
    /\ runtimes = EmptyConfig
    /\ live = {}
    /\ lock = NoHandler
    /\ pc = [x \in Handlers |-> "idle"]
    /\ req = [x \in Handlers |-> NoRequest]
    /\ prev = [x \in Handlers |-> NoRule]
    /\ boot = {}
    /\ now = 0
-----------------------------------------------------------------------------
(* Requests and replies. *)

Goto(x, where) == pc' = [pc EXCEPT ![x] = where]

(* The handler returns: its locals and the guard of operation_lock are dropped. *)
Reply(x) ==
    /\ Goto(x, "idle")
    /\ lock' = NoHandler
    /\ req' = [req EXCEPT ![x] = NoRequest]
    /\ prev' = [prev EXCEPT ![x] = NoRule]

(* A mutating request arrives; the socket is served once start_enabled is done. *)
Receive(x, r) ==
    /\ pc[x] = "idle" /\ boot = {}
    /\ req' = [req EXCEPT ![x] = r]
    /\ Goto(x, "lock")
    /\ UNCHANGED <<rules, disk, runtimes, live, lock, prev, boot, now>>

FirstStep(act) == IF act = "start" THEN "enable" ELSE act

Acquire(x) ==
    /\ pc[x] = "lock" /\ lock = NoHandler
    /\ lock' = x
    /\ Goto(x, FirstStep(req[x].act))
    /\ UNCHANGED <<rules, disk, runtimes, live, req, prev, boot, now>>
-----------------------------------------------------------------------------
(* Persisting: write a temporary file, then rename it over the configuration. *)

Persist(x, from, to) ==
    /\ pc[x] = from
    /\ disk' = rules
    /\ Goto(x, to)
    /\ UNCHANGED <<rules, runtimes, live, lock, req, prev, boot, now>>

PersistAndReply(x, from) ==
    /\ pc[x] = from
    /\ disk' = rules
    /\ Reply(x)
    /\ UNCHANGED <<rules, runtimes, live, boot, now>>

(* `persist().await?': the error is returned at once, with nothing undone. *)
PersistFails(x) ==
    /\ DiskMayFail
    /\ pc[x] \in {"upsertPersist", "rollbackPersist", "enablePersist",
                  "stopPersist", "deletePersist"}
    /\ Reply(x)
    /\ UNCHANGED <<rules, disk, runtimes, live, boot, now>>
-----------------------------------------------------------------------------
(* start_rule, in its three contexts: an upsert, enable_rule ("start"), and *)
(* the restoration of the previous rule after a failed upsert ("restore").  *)

CanStart(id) ==
    /\ rules[id] # NoRule
    /\ ~ PortTaken(rules, id, rules[id])
    /\ ~ IsExpired(rules[id], now)

(* The error of start_rule: upsert rolls back, the other callers return. *)
StartFailed(x) ==
    IF pc[x] \in {"start", "bind"} /\ req[x].act = "upsert"
      THEN Goto(x, "rollback") /\ UNCHANGED <<lock, req, prev>>
      ELSE Reply(x)

(* The checks, then stop_runtime of the listener the id already has. *)
StartCheck(x) ==
    LET id == req[x].id IN
    /\ pc[x] \in {"start", "restore"}
    /\ CanStart(id)
    /\ runtimes' = [runtimes EXCEPT ![id] = NoRule]
    /\ live' = live \ {id}
    /\ Goto(x, IF pc[x] = "start" THEN "bind" ELSE "restoreBind")
    /\ UNCHANGED <<rules, disk, lock, req, prev, boot, now>>

StartRefused(x) ==
    /\ pc[x] \in {"start", "restore"}
    /\ ~ CanStart(req[x].id)
    /\ StartFailed(x)
    /\ UNCHANGED <<rules, disk, runtimes, live, boot, now>>

(* A live listener of this daemon owns the port. *)
PortBound(id) ==
    \E other \in live \ {id} : runtimes[other].port = rules[id].port

Bind(x) ==
    LET id == req[x].id IN
    /\ pc[x] \in {"bind", "restoreBind"}
    /\ ~ PortBound(id)
    /\ runtimes' = [runtimes EXCEPT ![id] = rules[id]]
    /\ live' = live \cup {id}
    /\ Reply(x)
    /\ UNCHANGED <<rules, disk, boot, now>>

BindFails(x) ==
    /\ pc[x] \in {"bind", "restoreBind"}
    /\ BindMayFail \/ PortBound(req[x].id)
    /\ StartFailed(x)
    /\ UNCHANGED <<rules, disk, runtimes, live, boot, now>>
-----------------------------------------------------------------------------
(* upsert *)

UpsertConflict(x) ==
    /\ pc[x] = "upsert"
    /\ PortTaken(rules, req[x].id, req[x].rule)
    /\ Reply(x)
    /\ UNCHANGED <<rules, disk, runtimes, live, boot, now>>

(* The same rule, already running: a no-op that reports success. *)
IsUnchanged(id, r) == r.enabled /\ rules[id] = r /\ runtimes[id] # NoRule

UpsertUnchanged(x) ==
    /\ pc[x] = "upsert"
    /\ ~ PortTaken(rules, req[x].id, req[x].rule)
    /\ IsUnchanged(req[x].id, req[x].rule)
    /\ Reply(x)
    /\ UNCHANGED <<rules, disk, runtimes, live, boot, now>>

(* Mutant: a disabled rule is inserted without ensure_port_available. *)
UpsertInsertUnchecked(x) ==
    /\ pc[x] = "upsert"
    /\ req[x].rule.enabled => ~ PortTaken(rules, req[x].id, req[x].rule)
    /\ ~ IsUnchanged(req[x].id, req[x].rule)
    /\ prev' = [prev EXCEPT ![x] = rules[req[x].id]]
    /\ rules' = [rules EXCEPT ![req[x].id] = req[x].rule]
    /\ Goto(x, "upsertPersist")
    /\ UNCHANGED <<disk, runtimes, live, lock, req, boot, now>>

UpsertInsert(x) ==
    LET id == req[x].id
        r  == req[x].rule
    IN
    /\ pc[x] = "upsert"
    /\ ~ PortTaken(rules, id, r)
    /\ ~ IsUnchanged(id, r)
    /\ prev' = [prev EXCEPT ![x] = rules[id]]
    /\ rules' = [rules EXCEPT ![id] = r]
    /\ Goto(x, "upsertPersist")
    /\ UNCHANGED <<disk, runtimes, live, lock, req, boot, now>>

(* An enabled rule is started; a disabled one goes through stop_rule. *)
UpsertPersist(x) ==
    Persist(x, "upsertPersist", IF req[x].rule.enabled THEN "start" ELSE "stop")

(* Mutant: a failed upsert always removes the rule, a previous one included. *)
RollbackRemoves(x) ==
    /\ pc[x] = "rollback"
    /\ rules' = [rules EXCEPT ![req[x].id] = NoRule]
    /\ Goto(x, "rollbackPersist")
    /\ UNCHANGED <<disk, runtimes, live, lock, req, prev, boot, now>>

(* Mutant: the rollback is not persisted. *)
RollbackUnpersisted(x) ==
    /\ pc[x] = "rollbackPersist"
    /\ IF prev[x] # NoRule /\ prev[x].enabled
         THEN Goto(x, "restore") /\ UNCHANGED <<lock, req, prev>>
         ELSE Reply(x)
    /\ UNCHANGED <<rules, disk, runtimes, live, boot, now>>

(* The start failed: put the previous rule back, or remove a new one. *)
Rollback(x) ==
    /\ pc[x] = "rollback"
    /\ rules' = [rules EXCEPT ![req[x].id] = prev[x]]
    /\ Goto(x, "rollbackPersist")
    /\ UNCHANGED <<disk, runtimes, live, lock, req, prev, boot, now>>

RollbackPersist(x) ==
    IF prev[x] # NoRule /\ prev[x].enabled
      THEN Persist(x, "rollbackPersist", "restore")
      ELSE PersistAndReply(x, "rollbackPersist")
-----------------------------------------------------------------------------
(* stop_rule, enable_rule, delete_rule *)

(* Mutant: `entry(id).or_default()' for `get_mut(id).ok_or_else(..)?': a   *)
(* start or stop of an unknown id inserts a default rule, of port 0.       *)
SetEnabledOrDefault(x, from, flag, to) ==
    LET id == req[x].id IN
    /\ pc[x] = from
    /\ rules' = [rules EXCEPT ![id] =
                   [(IF @ = NoRule THEN [port |-> 0, enabled |-> FALSE, exp |-> 0] ELSE @)
                      EXCEPT !.enabled = flag]]
    /\ Goto(x, to)
    /\ UNCHANGED <<disk, runtimes, live, lock, req, prev, boot, now>>

SetEnabled(x, from, flag, to) ==
    LET id == req[x].id IN
    /\ pc[x] = from
    /\ rules[id] # NoRule
    /\ rules' = [rules EXCEPT ![id] = [@ EXCEPT !.enabled = flag]]
    /\ Goto(x, to)
    /\ UNCHANGED <<disk, runtimes, live, lock, req, prev, boot, now>>

NotFound(x) ==
    /\ pc[x] \in {"stop", "enable"}
    /\ rules[req[x].id] = NoRule
    /\ Reply(x)
    /\ UNCHANGED <<rules, disk, runtimes, live, boot, now>>

StopDisable(x) == SetEnabled(x, "stop", FALSE, "stopPersist")

(* Mutant: stop_rule returns once the rule is disabled and persisted. *)
StopPersistReturns(x) == PersistAndReply(x, "stopPersist")

StopPersist(x) == Persist(x, "stopPersist", "stopRuntime")

(* Mutant: stop_runtime joins the listener task without the timeout and    *)
(* the abort, and this listener does not notice its cancellation.          *)
StopRuntimeJoins(x) ==
    /\ pc[x] = "stopRuntime" /\ req[x].id \notin live
    /\ runtimes' = [runtimes EXCEPT ![req[x].id] = NoRule]
    /\ Reply(x)
    /\ UNCHANGED <<rules, disk, live, boot, now>>

(* stop_runtime: the listener is cancelled and joined; one that does not   *)
(* end within three seconds is aborted, so the step always completes.      *)
StopRuntime(x) ==
    /\ pc[x] = "stopRuntime"
    /\ runtimes' = [runtimes EXCEPT ![req[x].id] = NoRule]
    /\ live' = live \ {req[x].id}
    /\ Reply(x)
    /\ UNCHANGED <<rules, disk, boot, now>>

EnableRule(x)    == SetEnabled(x, "enable", TRUE, "enablePersist")
EnablePersist(x) == Persist(x, "enablePersist", "start")

DeleteStop(x) ==
    /\ pc[x] = "delete"
    /\ runtimes' = [runtimes EXCEPT ![req[x].id] = NoRule]
    /\ live' = live \ {req[x].id}
    /\ Goto(x, "deleteRemove")
    /\ UNCHANGED <<rules, disk, lock, req, prev, boot, now>>

DeleteRemove(x) ==
    /\ pc[x] = "deleteRemove"
    /\ rules' = [rules EXCEPT ![req[x].id] = NoRule]
    /\ Goto(x, "deletePersist")
    /\ UNCHANGED <<disk, runtimes, live, lock, req, prev, boot, now>>

DeletePersist(x) == PersistAndReply(x, "deletePersist")
-----------------------------------------------------------------------------
(* Time, crashes and the start of the daemon. *)

Tick ==
    /\ now < MaxExp
    /\ now' = now + 1
    /\ UNCHANGED <<rules, disk, runtimes, live, lock, pc, req, prev, boot>>

(* A listener notices that its rule has expired and ends; its handle stays. *)
ListenerExpires(id) ==
    /\ id \in live
    /\ IsExpired(runtimes[id], now)
    /\ live' = live \ {id}
    /\ UNCHANGED <<rules, disk, runtimes, lock, pc, req, prev, boot, now>>

(* The process dies, with whatever its handlers were doing, and is started *)
(* again by procd: Manager::load reads the file back.                      *)
Crash ==
    /\ rules' = disk
    /\ runtimes' = EmptyConfig
    /\ live' = {}
    /\ lock' = NoHandler
    /\ pc' = [x \in Handlers |-> "idle"]
    /\ boot' = {i \in RuleIds : disk[i] # NoRule /\ disk[i].enabled
                                /\ ~ IsExpired(disk[i], now)}
    /\ req' = [x \in Handlers |-> NoRequest]
    /\ prev' = [x \in Handlers |-> NoRule]
    /\ UNCHANGED <<disk, now>>

(* start_enabled starts one rule; an error is only logged. *)
BootStart(id) ==
    /\ id \in boot
    /\ boot' = boot \ {id}
    /\ CanStart(id) /\ ~ PortBound(id)
    /\ runtimes' = [runtimes EXCEPT ![id] = rules[id]]
    /\ live' = live \cup {id}
    /\ UNCHANGED <<rules, disk, lock, pc, req, prev, now>>

BootStartFails(id) ==
    /\ id \in boot
    /\ BindMayFail \/ ~ CanStart(id) \/ PortBound(id)
    /\ boot' = boot \ {id}
    /\ UNCHANGED <<rules, disk, runtimes, live, lock, pc, req, prev, now>>
-----------------------------------------------------------------------------
HandlerStep(x) ==
    \/ UpsertConflict(x) \/ UpsertUnchanged(x) \/ UpsertInsert(x) \/ UpsertPersist(x)
    \/ Rollback(x) \/ RollbackPersist(x)
    \/ StartCheck(x) \/ StartRefused(x) \/ Bind(x) \/ BindFails(x)
    \/ NotFound(x) \/ StopDisable(x) \/ StopPersist(x) \/ StopRuntime(x)
    \/ EnableRule(x) \/ EnablePersist(x)
    \/ DeleteStop(x) \/ DeleteRemove(x) \/ DeletePersist(x)

BootStep == \E id \in RuleIds : BootStart(id) \/ BootStartFails(id)

Next ==
    \/ \E x \in Handlers :
          \/ \E r \in Request : Receive(x, r)
          \/ Acquire(x) \/ HandlerStep(x) \/ PersistFails(x)
    \/ BootStep
    \/ Tick
    \/ \E id \in RuleIds : ListenerExpires(id)
    \/ Crash

(* Every task is polled until it ends, and tokio's mutex is first come,    *)
(* first served, so a waiter that keeps being offered the lock gets it.    *)
Fairness ==
    /\ \A x \in Handlers : WF_vars(HandlerStep(x)) /\ SF_vars(Acquire(x))
    /\ WF_vars(BootStep)

Spec == Init /\ [][Next]_vars /\ Fairness
-----------------------------------------------------------------------------
(* Neither the rule map nor the configuration file ever holds two rules on *)
(* one listen port, whatever the handlers, a rollback or a crash do: what  *)
(* ensure_port_available, operation_lock and the rollback of a failed      *)
(* upsert have to keep true together.                                      *)
NoPortClash == ConflictFree(rules) /\ ConflictFree(disk)

(* When no operation is in progress, a handle runs the rule the map shows, *)
(* and that rule is enabled: status reports what really listens.  Needs    *)
(* the rollback of upsert to restore the listener with the rule.           *)
RuntimeMatchesRule ==
    lock = NoHandler =>
        \A i \in RuleIds : runtimes[i] # NoRule =>
            rules[i] = runtimes[i] /\ rules[i].enabled

(* When no operation is in progress the file holds the rule map: a crash   *)
(* loses nothing that was acknowledged and resurrects nothing deleted.     *)
DurableWhenIdle == lock = NoHandler => disk = rules

(* A handler that ends an upsert past its checks leaves either the rule it *)
(* was given, persisted and with its listener if enabled, or exactly the   *)
(* previous rule: a half-replaced rule is never the outcome.               *)
UpsertIsAtomic ==
    [][\A x \in Handlers :
          HandlerStep(x) /\ lock' = NoHandler
          /\ req[x].act = "upsert" /\ pc[x] # "upsert" =>
            LET id == req[x].id
                r  == req[x].rule
            IN \/ /\ rules'[id] = r /\ disk'[id] = r
                  /\ r.enabled => runtimes'[id] = r
               \/ rules'[id] = prev[x] /\ disk'[id] = prev[x]]_vars

(* Every request that waits for operation_lock is eventually answered (or  *)
(* dropped by a crash), although the lock is held while a listener is      *)
(* joined, a port is bound, a rollback runs and the file is written.       *)
RequestsAnswered ==
    \A x \in Handlers : pc[x] = "lock" ~> pc[x] = "idle"

(* The daemon implements the abstract table: seen through the rule map and *)
(* the configuration file, every step of an upsert, its rollback, a start, *)
(* a stop, a deletion and a crash is one change, one save or one recovery  *)
(* of RuleTable, or none of them.                                          *)
Table == INSTANCE RuleTable WITH table <- rules, saved <- disk
ImplementsTable == Table!TableSpec
=============================================================================
