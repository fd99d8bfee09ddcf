# LabProbe Hub: TLA+ models, checks and proofs

LabProbe is a Hub (Python, Flask, `src/hub.py` and the patches `src/hub_entry.py` installs over
it) that a phone APP talks to, and LabRelay (Rust, `src/labrelay/`), which runs on the router: a
daemon that listens on ports and forwards, and an agent that polls the Hub for commands and
reports. The Hub keeps *desired* documents; the router keeps what is *running*; queues of
commands, acknowledgements and status reports bring the two together over a network that loses
and repeats requests, between processes that restart. Around the router's own interface the Hub has
a handful of threads that share a session, caches, queues and tables on the router. These models are
about both.

## Inventory

| Part | State | Operations | Talks to | Hard because of | Correct when |
|---|---|---|---|---|---|
| LabRelay daemon (`main.rs`) | rule map, configuration file, listeners, `operation_lock` | upsert, start, stop, delete, load, expiry | agent, by control socket | a task per connection, awaits, failing binds and writes, crashes | one rule per port; listener = rule = file between operations; upsert all or nothing |
| Port mapping, Hub (`hub.py`, `labrelay_sync_patch.py`, `portmap_persistence_patch.py`, `hub0934_fixes.py`) | rules document, command queue, last status | create, update, delete, start, stop; poll, ack, status; prune at start | APP, agent | two saves per request, merging of open commands, late acks | queue bounded, desired rules without conflict, router converges |
| Store and revision log (`labprobe_storage.py`) | documents, revisions table | save, prune, changes_since, snapshot, initialize | every handler, APP | pruning between pages, empty log, clock | an APP never misses a change silently |
| WireGuard (`wireguard_service.py`, `wireguard.rs`, `agent.rs`) | document with revision, endpoint revisions, queue; agent state file, kernel interfaces | put, delete, endpoint patch; poll, ack, status; apply, delete | APP, DDNS/STUN updaters, agent | half-applied configuration, old state file, two independent revisions | reported revision is running; never back to an older one; converges |
| Agent loop (`agent.rs`) | state file, queued events | one sync per subsystem per cycle, `post_json` with retries | Hub, daemon, kernel | lost responses, restart in the middle of a cycle | each sync is idempotent |
| MQTT revision signal (`hub.py`) | latest revision, client | on_connect, on_disconnect, notify_revision | broker, APP | publishing outside the lock, connections that break | the last revision is announced in the end |
| Lab DDNS (`lab_ddns.py`) | records, stability trackers, back-off | accept_address, run_update, save, delete, worker | Relay, providers, APP | provider call outside the lock, two updaters, restarts | only confirmed addresses are sent; `published` is what was sent; the current address gets published |
| STUN (`stun_service.py`) | rules document, queue, native mapping with its binding, firewall entry | create, edit, delete, repair; poll, ack, status | router RPC, agent, WireGuard | several calls to the router, each may fail at either side | no mapping without a rule or a binding that knows it; both copies converge |
| Firewall automation and configuration sync (`router/firewall_automation.py`, `router_config_sync_patch.py`) | bindings with candidates, snapshot, `reconcile_lock` | adopt, edit, sync, delete; reconcile | router RPC, APP | two threads, two locks, edits on the router | only a confirmed address is written; a rule changed by hand is left alone |
| Firewall rules of WireGuard (`wireguard_service.py`, `stun_service.py`) | ownership bindings | ensure_firewall, remove_firewall | router RPC | one step of several failing, a full table | no rule left over, none of the user touched |
| Agent commands (`followup_stability_patch.py`, `final_stability_patch.py`, `labrelay_sync_patch.py`, `scripts/labprobe-install.sh`) | commands document, manifest cache; the installer's backup | create, prepare, check, poll, ack, status; install, roll back | agent, manifest server | worker between the handlers, restart while preparing, late acks, an installer that starts the new agent before it may roll back | completed is earned; a command does not hang |
| Broadband credentials (`router_relay_credentials_patch.py`) | refresh nonce, pair in memory | refresh, agent's push | router, agent | two sources answer one nonce, restarts | a refresh is answered |
| Control actor, tasks (`router_control_actor_patch.py`, `router_task_manager_patch.py`) | priority queue, counter, one task per kind | submit, run; start, cancel | router RPC | timeouts leave items queued | the counter does not leak, a task ends |
| NAT diagnostic (`router_native_features_patch.py`) | generation, result | start, poll | router | two workers, one detector | the result shown is the latest request's |
| Router session (`router_rpc.py`, `router_ws_patch.py`, `router_be72_sid_wire_patch.py`) | session cache, `login_lock`, configuration | login, call, retry, monitor, PUT configuration | router | shared session that any login ends | a session is used for its own configuration; no login storm |
| Slow cache (`router_slow_cache_patch.py`) | entry, refresh marks, back-off | get, refresh | router | put after the router changed | the cached value becomes right |
| Realtime (`hub_realtime_ws.py`, `router_lite_realtime_patch.py`, `router_ws_patch.py`) | latest values, a queue per APP | publish per lane, connect, replay, send | APP, agent, router | full queues, publishing outside the lock | a connected APP shows the latest |
| Device history (`device_history_patch.py`, `hub0934_fixes.py`, `hub0935_sync_fix.py`, `router_compat.py`) | devices document, watched rows, archive, events, totals of a day | hook, snapshot, events, manual refresh | agent, router | three writers, one without the lock; pushed events in the same log; empty lists; midnight | events and document agree; totals never exceed what happened |
| DDNS providers, IPv6 view, developer transport, agent presence, dashboards | none that a later step depends on | wire formats, views | router, providers | I/O | out of scope |

`PROJECT.json` lists every part with its status, and under `hazards` each place where the code is
hard to test, with the property that would notice.

## What is modelled

Every module is written from the code that runs once `hub_entry.py` has installed its patches: where
a patch replaces a handler of `hub.py`, the patch is modelled. `labrelay/build.rs` can rewrite
`agent.rs`, but returns at once unless `LABRELAY_LEGACY_SOURCE_PATCH` is set; the maintained
source is modelled.

* **RelayRules** - rules as both sides see them: a listen port (standing for port and protocol and
  the other compared fields), `enabled`, an expiry on a coarse clock; `IsExpired`, `PortTaken`
  (`rules_conflict`, `ensure_port_available`).
* **RelayDaemon** - the `Manager`. One handler per control connection; `operation_lock`; one
  action per await of `upsert`, `start_rule`, `stop_rule`, `enable_rule`, `delete_rule`. `rules`,
  `disk`, `runtimes` are the rule map, the file and the handles, `live` the listeners that still
  run (a listener ends by itself when its lease does; its handle stays). `Crash` may happen
  anywhere and is followed by `load` and `start_enabled` (`boot`). `BindMayFail` and `DiskMayFail`
  switch the two environment failures. In `StartFailed` the error of `start_rule` goes where its
  caller sends it: back to `upsert`, which rolls back, or out.
* **PortMapHub** - the documents `portmaps.json` (rows: an id can have several, because a POST may
  carry an existing id), `portmap_commands.json` (open commands only) and the last status. A
  handler runs under `DATA_LOCK` and is one action, except that the status handler queues its
  commands one save at a time (`todo`) and that a crash may separate the two saves of an edit
  (`crash`). `save_portmap_rules` sorts by port; rows of one port are sorted by name, which the
  model leaves open.
* **PortMapSync** - PortMapHub composed with the agent's `sync_portmaps` and a daemon seen through
  its replies. That each request to the daemon is atomic and durable is what RelayDaemon shows
  (`UpsertIsAtomic`, `DurableWhenIdle`). A request that times out at the agent takes effect at once
  or not at all; its late effect would look to the Hub like a late status report, which is
  modelled.
* **RevisionStore** - the `revisions` table as a function from revision numbers to rows, the
  AUTOINCREMENT counter, the documents by entity, a clock in days, and one APP with its revision
  and replica. `Save` is the whole transaction: document, rows, pruning.
* **WireGuardSync** - document, queue, endpoint updaters with their own revisions, the agent's state
  in memory and in `/tmp`, and the kernel's interfaces (which revision last touched each, and
  whether an apply stopped half-way).
* **LabDdns** - one DDNS record in memory (`rec`) and in `lab_ddns.json` (`saved`), the last sample
  (`addr`), and the two executions of `run_update` there can be: the worker's and, as the APP's
  requests hold `DATA_LOCK`, one of the APP. An execution is `Begin` (under the lock: decide), a call
  of the provider per type (without it; it may fail after the provider took the value) and `Finish`
  (under it again: record the outcome). `accept_address` may come between any two of them. `accepted`
  and `streak` are history: what the provider took, and how many samples in a row agreed.
* **RuleTable** - what the daemon promises, in one page: a table with unique ports and a durable copy,
  where one rule changes at a time and not before the previous change was saved. `RelayDaemon`
  implements it (`ImplementsTable`: `INSTANCE` with the rule map and the file), which is checked and,
  when writes succeed, proved.
* **AgentCommands** - the commands document as a sequence of rows cut to `keep`, one of `KeepCommands`,
  the manifest worker (a load, a fetch and a save, each with the handlers in between), poll,
  acknowledgements (also those whose sender gave up and which are served late), status reports as
  `labrelay_sync_patch.py` handles them, and restarts of both sides. Which release the repository,
  GitHub, the stale cache or the manifest shipped with the Hub names is open each time (`Fetched`): a
  source may be behind another and behind what the router runs. Of the cache only matters whether it
  holds a manifest; `check_state` is shown to the APP and starts nothing but another check. The
  installer (`labprobe-install.sh`) keeps what later steps depend on, a backup of the version it
  replaces: it fails before replacing anything, or starts the release it downloaded, whichever that is,
  and then passes its checks or rolls back, which starts the backup; what it says at the end is
  processed, late or lost, since it is sent once and only with curl. `stranded` marks commands that lost
  their last word, or the thread that prepares them; `peak` and `passed` remember which versions ran
  since a command was created and whose installer passed.
* **StunSync** - one STUN rule in the Hub's document, its command, the native mapping on the router
  with the Hub's binding for it, the firewall entry of an earlier build, the agent with the daemon's
  copy. A handler holds `DATA_LOCK` with its router calls inside: one step, whose calls may each fail
  before or after the router acted. `HandlerDies` cuts a handler off, by a crash or a failed save, after
  its call on the mapping and before the document or the queue is saved; `orphan` marks the mapping a
  POST leaves this way. WireGuard's PUT, which moves the target port, is an action here.
* **OwnedFirewall** - the firewall rules of a WireGuard server. A PUT or DELETE walks its rules one call
  at a time; the table has `MaxRows`, and people change it.
* **FirewallFollow** - a binding, the rule it follows, `reconcile` run by the configuration-sync thread
  and by requests, step by step with `reconcile_lock` and `DATA_LOCK`, and the snapshot the APP sees.
  `seen` is history: what the last two reconciles that resolved the target found; `orig` what the Hub
  knew of the rule when somebody edited it while no reconcile was under way.
* **RouterControl** - `RouterControlActor.submit` and `_run` with the bounded priority queue and the
  counter of pending users' RPCs, and on top the life of a `RouterTaskManager` task.
* **RouterSession** - `RouterRpcClient` with its session cache filed by configuration, logins under
  `login_lock`, rejection and the single retry, the monitor's loop, and PUT /config, which replaces the
  configuration and clears the session in two steps, and the logout, which clears it alone. Sessions
  are numbered; a new login ends the one before. A login that the router accepts and
  whose session then fails its check ends the one before too, and leaves none in the cache.
* **NatDiagnostic**, **SlowCache**, **RevisionSignal**, **RouterCredentials** - one small module each:
  generations of the NAT threads; one key of the cache across a change of the router, with a step per
  lock section of `cached` and the `cache.clear` of `write_and_verify`; the retained MQTT message beside
  the saves; the refresh nonce between Hub, router and agent.
* **Realtime** - three lanes that publish to bounded queues, an APP that connects, is replayed and
  reads, terminal deltas that are only right on top of what came before. Whole values stand for the
  rates of the router, which one thread stores and publishes; configuration, task and agent frames are
  left out, since several threads do so.
* **DeviceHistory** - who is online according to the devices document, its watched rows, the archive and
  the event log, with the agent's cycle and its event queue, the durable lane and the manual refresh
  thread as writers. A pushed event (`device_event`) changes the watched row and the archive and appends
  to the same log as the lists do (`add_event`), unless it is an offline event the log already has one
  of from the last 300 seconds. `silent` and `stray` mark devices that a refresh or a cut-off ingestion
  changed in the document or in the log only, and those whose last event was pushed against the document.
* **DeviceTotals** - online seconds and bytes of one device over midnight, resets of the router's counter
  and gaps. `moved` (bytes of a day), `stale` (bytes of earlier days the counter still holds), `brought`
  (those a day's readings found in it) and `carried` are history. A deferred empty list closes the daily
  entry only (`IngestDeferred`).

`MCRelayDaemon`, `MCRevisionStore`, `MCWireGuardSync` and `MCLabDdns` extend their module.
`MCPortMapSync` extends PortMapSync and checks it for two scopes, two rules without leases and one rule
with them. Three modules compose components that share no state any of them would see another change:
`Router` extends AgentCommands and instantiates RouterControl, RouterSession, NatDiagnostic, SlowCache,
RevisionSignal and RouterCredentials;
`RouterRules` extends FirewallFollow and instantiates OwnedFirewall and StunSync; `Devices` extends
DeviceTotals and instantiates DeviceHistory and Realtime. Their constants are those of the components,
so that the proofs are about the specification that is checked. The variable `focus` says which
component a behaviour is about: it is chosen at the start, the others rest in an initial state. A
property of such a run is the conjunction of the components' properties, and the state space is the
sum, not the product, of theirs. The `.cfg` files give values to constants and replace no definition.

Definitions such as `UpsertInsertUnchecked` or `AdvancedTwice`, marked as mutants in `PROJECT.json`, are
mistakes somebody could make in the code. No specification uses them; put in place of the definition
they imitate, they make the named property fail.

## Runs

| Run | Shows |
|---|---|
| `relay` | `NoPortClash`, `RuntimeMatchesRule`, `DurableWhenIdle`, `UpsertIsAtomic`, `ImplementsTable` with two handlers, two rules, two ports, a lease, binds that fail, crashes |
| `relay_live` | with failing writes too, `RequestsAnswered`: a listener that does not end when told delays the requests behind `operation_lock` by its time limit, not for ever |
| `relay_drift` (violation) | with failing writes `RuntimeMatchesRule` fails: `persist().await?` undoes nothing |
| `portmap` | `OneOpenCommand`, `DesiredConflictFree`, `Convergence`: two rules that compete for two ports, or one rule with leases that expire; two edits, one failure |
| `portmap_nodoc` (violation) | a Hub without a rules document deletes the router's rules |
| `revisions` | `ReplicaIsComplete`, `CatchUp` with pruning by age and number, restarts, one-row pages |
| `wireguard` | `AppliedIsDesired`, `NoDowngrade`, `Convergence` with two revisions, an endpoint update, two failures |
| `ddns` | `OnlyConfirmedSent`, `EventuallyPublished` with two changes of address, two requests of the APP, a failure of any kind |
| `router` | `SessionSound`, `NotesExact`, `RequestsSettle`, `RouterViewSettles`: actor and tasks, session, NAT diagnostic, slow cache, MQTT signal, credentials; `CompletionEarned`, `PreparingResolves`, `UpdateSettles`: two commands, two releases, sources that disagree, rollbacks, late, repeated and lost acknowledgements, restarts |
| `router_rules` | `NothingLeftBehind`, `ManualWorkKept`, `OnlyConfirmedWritten`, `TablesConverge`: the rules the Hub follows, owns and maps on the router |
| `firewall_deadlock` (violation) | a request and the configuration-sync thread wait for each other's lock |
| `devices` | `EventsFollowDevices`, `EmptyConfirmed`, `TotalsFit`, `LatestShown`, `ViewsConverge`: device list, totals and realtime rows |

The three violations are disagreements between the code and what its own comments say; `findings` in
`PROJECT.json` quotes both sides.

**Bounds.** Two rules and two ports are the least with a conflict between rules, an exchange of ports
and a rule that is not involved; two handlers the least that race. One failure in `portmap` and two
in `wireguard` cover each failure alone, at every point, and (WireGuard) each pair. `CmdIds` is
large enough that an id is always free, so reusing ids that nobody holds stands for the code's
random ids. `RowCap = 2`, `MaxAge = 1`, `PageLimit = 1` with saves of up to two rows make both kinds
of pruning, page boundaries inside a save and an empty log happen within five revisions and three
days. One DDNS record is enough because records share only the sample and the worker; two addresses
and two moves give a change and a change back, while one address type and one direct type are the
least with a type that is sent next to one that is not. `MaxAttempts = 2` stands for 5, and
`PollLimit = 2` for 20, so that both limits are reached. The actor's `QueueSize = 1` with two users, a
task and a background loader makes the queue full; the realtime `QueueSize = 2` with three lanes makes
it overflow. With two releases and `FirstVersion = 1` an
update may be one, a repetition or, after the first, a step back, and two commands have a second
installer run beside the first. `KeepCommands` (100 in the code) is 1 or 2, chosen at the
start, so that with two commands a row is cut in one case and none in the other. Two configurations, or
two routers, with one change between them are the least with an old thread that meets a new configuration. `MaxRows = 3` of the firewall table leaves too little room
for the rules one server wants beside one of the user. `DayLength = 2` with caps of one tick has gaps
below and at the cap and one midnight; `MaxMoved = 2` lets the counter move, be read, start anew and move
again within a day. One edit and two moves of the followed rule's target are an edit between two
addresses that are each confirmed; the largest runs are `devices` with 887,727 states, `router_rules`
with 640,165 and `router` with 280,583.

**Fairness.** The daemon: a task is polled until it ends (weak fairness of its steps), and tokio's
mutex is fair, so a waiter that is offered the lock again and again gets it (strong fairness of
`Acquire`). The agent: its loop in `run` never ends and logs every error (weak fairness of
`AgentStep`, of `Sync` in StunSync, of `dashboard_push` and of the cycle in DeviceHistory); a request in
flight is processed or lost; the Hub's handlers and threads run until they end, a call of the
router has a timeout, each step of the installer ends by itself or by its limit, and a request whose
sender gave up is served. Time passes: cache entries and back-offs expire, the monitor's loop, the live
poll and the configuration sync come round. A request that waits for `DATA_LOCK` gets it if it is free
again and again (strong fairness of `AppLocks`). APPs that are connected read, and someone keeps asking
the slow cache. Nothing is assumed of the APP's edits, of failures, of crashes or of the wall clock.
Failures and edits are finite in number (`MaxFaults`, `MaxEdits`, `MaxRev`, ...), which says what the
convergence properties mean: once they stop. `Convergence` of PortMapSync leaves out the rules the
daemon must refuse for ever: enabled rules whose lease is over, and rules that want each other's ports
(`Blocked`). `EventuallyPublished` speaks of what the record shows and excepts refused credentials, for
which the code waits for the user. `TablesConverge` leaves out the deadlock of `firewall_deadlock`,
which has a run of its own.

**Deadlock** is checked in the runs about one component. `router`, `router_rules` and `devices`
contain components that rightly come to rest once their bounded requests are done (a NAT diagnostic
nobody repeats, a firewall request that has ended), so TLC's check is off there; that nothing rests
too early is what the liveness properties of those runs say.

## Deviations without a run

Met while modelling, each at the line named; none is hidden by a property, since each is either
excepted by name or outside what the property claims. The first three are stated as definitions, and
TLC shows the trace when the definition is added to the module's `.cfg`.

* `PublishedWasSent` (LabDdns; `lab_ddns.py:848`): after the provider call, the address detected by then
  is recorded as published, not the one sent.
* `PrunedMeansFull` (RevisionStore; `labprobe_storage.py:437`): an emptied log hides pruned changes from
  an APP with revision 0. The full calibration the APP makes every five minutes (`src/README.md:83`)
  bounds the damage.
* `NewerEndpointKept` (WireGuardSync; `wireguard_service.py:418`): a PUT with profiles read earlier puts
  an older endpoint back.
* A Hub restart leaves a command in "preparing", and every later update request is answered with it
  (`followup_stability_patch.py:133`; `stranded`).
* A late acceptance, or the save of a worker that loaded the document before, reopens a command that had
  its last word, until a status report of an agent that runs its target (`hub.py:2690`,
  `followup_stability_patch.py:22`). A "failed" of the installer that is lost, or never sent for want of
  curl (`scripts/labprobe-install.sh:48`), leaves the command accepted, and every later update request is
  answered with it (`stranded`).
* Completed does not mean installed: the installer says so without comparing the version it installed
  with the target (`scripts/labprobe-install.sh:363`), and as it starts the new agent before its last
  checks (line 350), a status report may complete a command that is then rolled back. `CompletionEarned`
  says what is left: the agent did run the target, or the installer did pass its checks.
* A POST that is cut off after it made the router's mapping and before it saved the rule leaves a mapping
  and a binding that nothing looks for (`stun_service.py:507-511`; `orphan`).
* A binding deleted, or a rule edited by hand, while a reconcile has read and not yet written comes
  back, or is overwritten (`router/firewall_automation.py:542`).
* The rollup of a device that left over midnight takes yesterday's seconds
  (`device_history_patch.py:153`; `carried`), and the live row may be ahead of the day by one gap.
* Bytes of yesterday can count for today too: the first reading of a day takes the whole counter
  (`device_history_patch.py:56`), which the router may not have started anew by then (`brought`).
* A pushed device event that comes late or again contradicts the document in the event log until the
  device changes or is reported once more (`hub.py:2315`; `stray`).
* A repeated report of one empty device list counts as its confirmation (`device_history_patch.py:248`).
* Configuration frames are stored and published by two threads without a lock around both
  (`router_config_sync_patch.py:152`), so an older one may come last; they are not modelled.
* Between `on_connect` and `notify_revision` the retained revision may go back for a while
  (`hub.py:226`); the next save corrects it, and only a Hub that saves nothing more leaves it (`beaten`).
* A direct read of an older nonce that ends last takes the completed nonce back
  (`router_relay_credentials_patch.py:250`).
* The monitor stays on the previous router after PUT /config until its session there ends.
* A superseded NAT worker may still restart the router's detector; it stores nothing.

## Proofs

TLAPS checks, for every value of the constants that satisfies the named assumptions:

* `RelayDaemonProofs` - `LockDiscipline`: types, plus: a handler past the lock is its holder, and where a
  handler is fits the request it serves (`LockInv`, `ReqInv`); `TypeCorrect` is its first part.
  `PortsNeverClash`: `NoPortClash` is not inductive, because a rollback puts back a rule whose port
  might have been taken meanwhile; `PrevFree` says it was not, which follows from the lock.
  `IdleIsConsistent` and `FileIsCurrent`, when writes succeed: `OperationInv` says, for each point of an
  operation, how the rule, its listener and `prev` relate, `DiskInv` that the file is behind only just
  before a write. From the same invariants `UpsertAllOrNothing` (`UpsertIsAtomic`, an action property):
  the step with which an upsert ends finds either the new rule saved and served, or `prev` back in map
  and file. `DaemonImplementsTable`, when writes succeed: every step is a step of RuleTable or leaves
  map and file alone; a change finds the port free and the file up to date.
* `RevisionStoreProofs` - `StoreInvariant` and `IncrementalSyncIsComplete`, when the clock is not set
  back: the log is an upward-closed set of revisions (`Upward`), because rows are stamped in order
  (`Chrono`) and both prunings therefore remove oldest rows; the last row of an entity is what the
  document says; and unless a row after its revision is gone, the APP is right about every entity
  without a later row (`ReplicaInv`). With a clock that is set back, `Chrono` fails and the theorem
  with it: TLC finds a skipped change in `MCRevisionStore.cfg` with `ClockMaySlip = TRUE` and
  `RowCap = 4`.
* `WireGuardSyncProofs` - `WireGuardInvariant`, `AgentTellsTheTruth`, `RouterNeverGoesBack`: a server
  command of the document's own revision says what the document says (`CmdInv`), and the kernel, the
  agent's batch and the open commands are ordered by revision (`OrderInv`), because `queue` removes
  what is older. No assumption on the order or number of deliveries. `SettledRouterStays`: a router that
  runs the document's revision (`Settled`) leaves it only by a new revision, a restart of the agent from
  an older state file or a reboot.
* `LabDdnsProofs` - `DdnsInvariant`, `StabilityGate`: that a tracker with two counts implies two
  samples is not inductive, so `CountInv` says that a tracker which counts at all has the last sample
  as its candidate and has counted no more samples than came in a row. `_load` has to forget counts
  for it, because the samples of an earlier run of the Hub are not in the row.
* `PortMapProofs` - `MapTypesKept`, `CommandsMerge`, `DesiredNeverClashes`, `QueueNeverGrows`, from
  `MapInv`: the types; `Apart`, no two rows of different rules want one port, kept because every
  handler that writes a row looks at all others first; and `Unique`, no two open commands of one action
  for one rule, kept because `queue` merges. `QueueNeverGrows` is the number that follows: three commands
  per rule. That `save_portmap_rules` and the merging keep or replace a row rests on lemmas about `Max`,
  `Min` and positions in a sequence, and these on the fact that a nonempty set of naturals has a least
  member (`LeastNat`, from the well-foundedness of inclusion on finite sets).
  `SettledMapsStay`: that the router has the desired rules is not stable by itself, since a command
  queued for an older wish would undo it; together with "every command open, handed out or still to be
  queued is harmless" (`AllHarmless`) it is, because a status report of any age is answered only with
  commands that say what the document says.
* `RouterProofs` - seven components and their composition.
  `CommandTypesKept` and `CompletionsEarned` (AgentCommands): what holds of the row shown has to hold
  of every copy of it: in the document, in the document a worker has loaded and will write back, and in
  the answer the agent works on (`Copies`). Copies agree about a target because the manifest lock lets
  only one worker hold a document (`Exclusive`) and the agent knows a command only once it was handed out
  (`HandedOut`). That a completion is earned has to hold of every completion still under way, an
  installer that passed or a late acknowledgement, too (`Believed`), and a status report earns its own
  because the version that runs counts in `peak` of every command (`Peaked`).
  `SessionsStaySound` (RouterSession): a session is filed under the configuration it was obtained with
  (`Filing`), and the number of logins is bounded by an amortised argument. `Owed` is the number of
  logins the present state can still cause without a further fault or change; `Paid` says that the
  logins made and those owed together do not exceed one for the start, two per fault and three per
  change of the configuration. Each login pays one, however many callers there are, because callers wait
  for `login_lock` and then find the session (`LoggingIn`), and reject only a dead one (`Rejections`).
  The bound is tight. An earlier form of `NoLoginStorm`, with two logins per change, held in the run and
  fails with two changes; the attempt to prove it showed so.
  `NotesStayExact` (RouterControl, NatDiagnostic, SlowCache): the counter of pending calls is exact
  (`Counted`) only if whoever the actor wakes has been waiting; `Awaited` says so: an item still waited
  for belongs to a thread that waits, and no two to the same one, which a timed-out wait keeps by leaving
  its item. That taking an item from the middle of the queue removes one index is a bijection. For the
  NAT diagnostic and the slow cache, what the property says is inductive with the types.
  `RouterTypesKept` (`RouterTypeOK`) and `CompletionsStayEarned`: the types of all seven components and
  `CompletionEarned` for the composed specification. The bounds in the types need facts of their
  own: the control queue holds no more than its size although items outlive their callers
  (`QueueBound`), the revision somebody still carries to the broker never exceeds the store's
  (`SignalTypes`), and every nonce in circulation was given out for a refresh or a restart (`Nonces`).
* `RouterRulesProofs` - `WritesAreConfirmed`, `ManualWorkStands`, `NothingForgotten`, `RulesTypesKept`,
  `SettledRuleStays`. FirewallFollow
  (`FollowInv`): the candidate is what the last reconcile resolved (`Counted`), so a reconcile past its
  decision has an address that the last two found (`Cleared`); only one is past it at a time
  (`OneHolds`), so no other observation comes in between; and after an edit that no reconcile overlapped
  the binding still says what the Hub knew before it, and only a rule that is this again gets to a write
  (`Unmoved`; `orig` remembers it, so that `QuietEditKept` is about any number of edits, of the address
  alone or of other fields). OwnedFirewall (`OwnedInv`): every own row is bound,
  none twice, and where a PUT or DELETE is decides which rows still differ from what the server wants.
  StunSync (`StunInv`): the binding knows the mapping unless a call was left in the dark, and a mapping
  without a rule is that of a POST cut off (`orphan`).
  `RulesTypesKept` (`RulesTypeOK`) adds `OwnedBounds`, the limit of the firewall table, and `SyncInv`: the
  open STUN commands are at most one per action, because `queue` drops the row it replaces, and a row
  that was never handed out has no delivery counted, so that the limit of attempts holds (`Tidy`). A new
  command's id is one that nobody knows any more; that there is one is the pigeonhole principle for the
  finite set of ids still known to the queue, the agent and late requests. `SettledRuleStays`: as
  `SettledMapsStay`, for a STUN rule.
* `DevicesProofs` - `DeviceTypesKept`, `TotalsNeverExceed`, `EventsTellTheDocument`,
  `EmptiedOnlyConfirmed`, `LatestAlwaysShown`. None of the four parts of `TotalsFit` is inductive: the
  seconds of a day must fit into the time of its *last snapshot*, so that the gap may be added (`DayInv`);
  the live row must fit together with the age the next sample adds (`LiveInv`); what the *next* reading of
  the counter makes of the bytes must be due, moved on the day or brought from earlier ones
  (`TrafficInv`, `Due`), for which the counter may hold no more than the day's bytes and the stale ones; and
  nothing is dated in the future
  (`Dated`), which makes midnight a fresh start. The document and its events agree after every ingested
  list and every pushed event that is not marked (`HistoryInv`, with the streak bounded by the empty lists
  that came). That an APP shows the latest
  whole value says, step by step of a publication, that the value is in its queue, about to be put there
  or to be replayed (`FanoutInv`: `Carried`, `Caught`).

In RevisionStore, WireGuardSync and LabDdns `TypeCorrect` is a part of the invariant named first.

The theorems take their assumptions on constants from named `ASSUME`s, which TLC evaluates in the runs:
limits are natural numbers (positive for queues, days, rows kept and delivery attempts), sets of rules and
of threads are finite, and the marks for "none" and "gone" are not values of what they mark.

Only model-checked:

* everything that holds "eventually" (`RequestsAnswered`, `Convergence`, `CatchUp`,
  `EventuallyPublished`, `RequestsSettle`, `RouterViewSettles`, `PreparingResolves`, `UpdateSettles`,
  `TablesConverge`, `ViewsConverge`): the prover does not reason about fairness. Three of them have a
  safety half that is proved: `SettledRouterStays`, `SettledMapsStay` and `SettledRuleStays` say that a
  system that has converged stays so until somebody changes what is wanted, or the router or the
  agent loses its state;
* the three runs that end in a violation, which are about particular traces.

Every invariant and every action property of the passing runs is stated by a theorem.

## What is left

1. The leads-to halves of the convergence properties, beyond this prover.
2. A **CommandQueue** abstraction (deliver at least once, close on ack, queue again on drift) that
   PortMapHub and the WireGuard and STUN queues refine.
3. The agent's loop as one process: the order of its exchanges, its back-off and `post_json`'s retries
   across subsystems, of which each module has its own part.

## Not modelled

DDNS providers and address detection (signed HTTP calls, parsing), router IPv6 views, the developer
transport and other RPC variants, agent presence (derived from the last report whenever it is read),
dashboards and status pages, the forwarding of traffic, the collection of metrics, the installers' other
modes and build scripts: I/O and text, without state a later step depends on. The waiting poll of
`router_relay_credentials_patch.py` is used only by agents built with `LABRELAY_LEGACY_SOURCE_PATCH`;
the maintained agent asks without `wait`. Demand leases of the realtime lanes decide nothing in this
build, because LabRelay always samples. In the modelled parts: validation of input, log and event texts,
timestamps shown to the user, encryption and wire formats of logins.
