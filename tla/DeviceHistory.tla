---------------------------- MODULE DeviceHistory ----------------------------
(***************************************************************************)
(* Which devices the Hub believes to be online.  Three writers feed the    *)
(* devices document: the agent's cycle (POST /hook/ruijie/devices followed *)
(* by the queued device events), the agent's durable lane (POST            *)
(* /api/router/devices/snapshot, refused while the hook is recent) and the *)
(* Hub's own manual refresh thread, which reads the router and writes the  *)
(* archive and the document without asking either.  HTTP handlers hold     *)
(* DATA_LOCK and are single steps; the refresh thread is not.              *)
(***************************************************************************)
EXTENDS Naturals, Sequences, SequencesExt

CONSTANTS
  Macs,                \* devices of the home network
  Configured,          \* the ones config.json lists as watched_devices
  EmptyConfirmations,  \* EMPTY_CONFIRMATIONS: empty lists before one is believed
  None,                \* no list read, no late request
  MaxMoves,            \* bound: devices joining or leaving
  MaxRefresh,          \* bound: manual refreshes
  MaxFaults            \* bound: lost and late requests, glitches, Hub restarts

VARIABLES
  real,       \* devices connected to the router
  agent,      \* the cycle: pc, the list read, known devices, queued events
  lane,       \* the list the durable lane has read and not yet posted
  late,       \* a request that timed out on the agent and is still under way
  online,     \* DEVICES_FILE.online
  watched,    \* the watched rows of DEVICES_FILE that say online
  archive,    \* MACs of DEVICE_ARCHIVE_FILE
  evt,        \* last transition event of EVENTS_FILE per device
  offs,       \* devices with a device_offline event in EVENTS_FILE
  streak,     \* empty_streak, kept in device_snapshot_health.json
  hookRecent, \* lastHookEpoch lies within HOOK_FALLBACK_GRACE_SECONDS
  refresh,    \* the manual refresh thread
  blank,      \* history: how many of the last lists ingested were empty
  silent,     \* history: devices the document changed without an event, or the reverse
  stray,      \* history: devices whose last event was pushed against the document
  moves, refreshes, faults

log == <<evt, offs, silent, stray>>
hubVars == <<online, watched, archive, log, streak, blank>>
bounds == <<moves, refreshes, faults>>
vars == <<real, agent, lane, late, hubVars, hookRecent, refresh, bounds>>

Event == [mac : Macs, on : BOOLEAN]
Request == [kind : {"hook"}, list : SUBSET Macs] \cup [kind : {"event"}, event : Event]
Idle == [pc |-> "idle", list |-> {}, todo |-> {}, loaded |-> {}]

Init ==
  /\ real \in SUBSET Macs
  /\ agent = [pc |-> "collect", list |-> {}, known |-> {}, pending |-> <<>>, retry |-> <<>>]
  /\ lane = None /\ late = None
  /\ online = {} /\ watched = {} /\ archive = {}
  /\ evt = [m \in Macs |-> "none"] /\ offs = {}
  /\ streak = 0 /\ hookRecent = FALSE
  /\ refresh = Idle
  /\ blank = 0 /\ silent = {} /\ stray = {}
  /\ moves = 0 /\ refreshes = 0 /\ faults = 0

-----------------------------------------------------------------------------
(* The Hub's side *)

\* Mutant: a row that was online stays so.
CanonicalKeeps(list) == watched \cup (list \cap Configured)

\* hub0934 canonical_watched_devices: one row per configured MAC, online iff
\* the snapshot has it.
canonical(list) == list \cap Configured

Emptied(list) == list = {} /\ online # {}

\* Mutant: an empty list over an empty document counts too.
StreakCountsEmpty(list) == IF list = {} THEN streak + 1 ELSE 0

\* The streak an ingested list leaves behind.
Streak(list) == IF Emptied(list) THEN streak + 1 ELSE 0

\* Mutant: an empty list is believed at once.
DeferredNever(list) == FALSE

\* An empty list over a non-empty document waits for a second one.
Deferred(list) == Emptied(list) /\ Streak(list) < EmptyConfirmations

\* The event a list records for a device that it shows or no longer shows.
Transition(list, m) ==
  CASE m \in list \ online -> "on"
    [] m \in online \ list -> "off"
    [] OTHER               -> evt[m]

\* The devices the document and a list agree about.
Same(list) == {m \in Macs : (m \in list) <=> (m \in online)}

\* Mutant: a device the archive knows already gets no event.
RecordNew(list) ==
  /\ evt' = [m \in Macs |-> IF m \in list \ archive THEN "on"
                            ELSE IF m \in online \ list THEN "off" ELSE evt[m]]
  /\ offs' = offs \cup (online \ list)

\* The events of a list, appended to EVENTS_FILE.
Record(list) ==
  /\ evt' = [m \in Macs |-> Transition(list, m)]
  /\ offs' = offs \cup (online \ list)

\* DurableDeviceHistory.ingest: transition events and the archive first, the
\* document, its watched rows, the state document and the rollup after them.
ingest(list) ==
  /\ streak' = Streak(list)
  /\ blank' = IF list = {} THEN (IF blank < EmptyConfirmations THEN blank + 1 ELSE blank) ELSE 0
  /\ IF Deferred(list) THEN UNCHANGED <<online, watched, archive, log>>
     ELSE /\ Record(list)
          /\ archive' = archive \cup list \cup online
          /\ online' = list
          /\ watched' = canonical(list)
          /\ silent' = silent \cap Same(list) /\ stray' = stray \cap Same(list)

\* upsert_watched_device_from_event: the row is added when it is missing.
upsert(e) == IF e.on THEN watched \cup {e.mac} ELSE watched \ {e.mac}

\* POST /hook/ruijie/devices as hub0935 installs it; the source is marked
\* only when the list was accepted.
relay_device_hook(list) == ingest(list) /\ hookRecent' = (hookRecent \/ ~Deferred(list))

\* add_event for a pushed event: the log takes it whatever the document says.
add_event(e) ==
  LET told == IF e.on <=> e.mac \in online THEN {e.mac} ELSE {} IN
  /\ evt' = [evt EXCEPT ![e.mac] = IF e.on THEN "on" ELSE "off"]
  /\ offs' = IF e.on THEN offs ELSE offs \cup {e.mac}
  /\ silent' = silent \ told /\ stray' = (stray \cup {e.mac}) \ told

\* POST /api/router/push, type device_event.  An offline event is a duplicate
\* when the log has one of the last 300 seconds.
device_event(e) ==
  /\ \/ add_event(e)
     \/ ~e.on /\ e.mac \in offs /\ UNCHANGED log
  /\ watched' = upsert(e) /\ archive' = archive \cup {e.mac}
  /\ UNCHANGED <<online, streak, blank, hookRecent>>

Handle(request) ==
  \/ request.kind = "hook" /\ relay_device_hook(request.list)
  \/ request.kind = "event" /\ device_event(request.event)

-----------------------------------------------------------------------------
(* The agent's cycle *)

\* A POST: handled and answered, handled with its answer lost, lost before
\* the Hub, or timed out and handled some time later.  told says whether the
\* agent saw it succeed.
Post(request, told) ==
  \/ told /\ Handle(request) /\ UNCHANGED <<late, faults>>
  \/ ~told /\ faults < MaxFaults /\ faults' = faults + 1
     /\ \/ Handle(request) /\ UNCHANGED late
        \/ late = None /\ late' = request /\ UNCHANGED <<hubVars, hookRecent>>
        \/ UNCHANGED <<late, hubVars, hookRecent>>

Events(macs, on) == SetToSeq({[mac |-> m, on |-> on] : m \in macs})

\* collect_user_list and queue_device_events.  A router that answers with an
\* empty list for once is a fault.
Collect ==
  /\ agent.pc = "collect"
  /\ \E list \in {real, {}} :
       /\ list = real \/ faults < MaxFaults
       /\ faults' = IF list = real THEN faults ELSE faults + 1
       /\ agent' = [pc |-> "hook", list |-> list, known |-> list, retry |-> agent.retry,
                    pending |-> agent.pending \o Events(list \ agent.known, TRUE)
                                              \o Events(agent.known \ list, FALSE)]
  /\ UNCHANGED <<real, lane, late, hubVars, hookRecent, refresh, moves, refreshes>>

\* The hook is posted; a failure ends the cycle before the events are flushed.
Hook ==
  /\ agent.pc = "hook"
  /\ \E told \in BOOLEAN :
       /\ Post([kind |-> "hook", list |-> agent.list], told)
       /\ agent' = [agent EXCEPT !.pc = IF told THEN "flush" ELSE "collect"]
  /\ UNCHANGED <<real, lane, refresh, moves, refreshes>>

\* The events that are left, and those for the next cycle.
Flushed(pending, retry) ==
  agent' = [pc |-> agent.pc, list |-> agent.list, known |-> agent.known,
            pending |-> pending, retry |-> retry]

\* flush_device_events, one event: a failed one is kept for the next cycle.
Flush ==
  /\ agent.pc = "flush" /\ agent.pending # <<>>
  /\ \E told \in BOOLEAN :
       /\ Post([kind |-> "event", event |-> Head(agent.pending)], told)
       /\ Flushed(Tail(agent.pending),
                  IF told THEN agent.retry ELSE Append(agent.retry, Head(agent.pending)))
  /\ UNCHANGED <<real, lane, refresh, moves, refreshes>>

CycleEnds ==
  /\ agent.pc = "flush" /\ agent.pending = <<>>
  /\ agent' = [pc |-> "collect", list |-> agent.list, known |-> agent.known,
               pending |-> agent.retry, retry |-> <<>>]
  /\ UNCHANGED <<real, lane, late, hubVars, hookRecent, refresh, bounds>>

\* A timed-out request reaches its handler at last.
LateArrives ==
  /\ late # None
  /\ Handle(late) /\ late' = None
  /\ UNCHANGED <<real, agent, lane, refresh, bounds>>

-----------------------------------------------------------------------------
(* The durable lane: read, then post *)

LaneReads ==
  /\ lane = None
  /\ lane' = real
  /\ UNCHANGED <<real, agent, late, hubVars, hookRecent, refresh, bounds>>

\* fallback_snapshot: refused while the hook is recent.
fallback_snapshot ==
  /\ lane # None
  /\ IF hookRecent THEN UNCHANGED hubVars ELSE ingest(lane)
  /\ lane' = None
  /\ UNCHANGED <<real, agent, late, hookRecent, refresh, bounds>>

\* HOOK_FALLBACK_GRACE_SECONDS without an accepted hook.
HookAges ==
  /\ hookRecent
  /\ hookRecent' = FALSE
  /\ UNCHANGED <<real, agent, lane, late, hubVars, refresh, bounds>>

-----------------------------------------------------------------------------
(* The manual refresh thread: RouterCompat.sync_devices *)

refresh_view ==
  /\ refresh.pc = "idle" /\ refreshes < MaxRefresh
  /\ refresh' = [pc |-> "each", list |-> real, todo |-> real, loaded |-> {}]
  /\ refreshes' = refreshes + 1
  /\ UNCHANGED <<real, agent, lane, late, hubVars, hookRecent, moves, faults>>

\* archive_device_snapshot loads the archive ...
ArchiveLoads ==
  /\ refresh.pc = "each" /\ refresh.todo # {}
  /\ refresh' = [pc |-> "save", list |-> refresh.list, todo |-> refresh.todo, loaded |-> archive]
  /\ UNCHANGED <<real, agent, lane, late, hubVars, hookRecent, bounds>>

\* ... and saves it with this device, whatever was written in between.
ArchiveSaves ==
  /\ refresh.pc = "save"
  /\ \E m \in refresh.todo :
       /\ archive' = refresh.loaded \cup {m}
       /\ refresh' = [pc |-> "each", list |-> refresh.list, todo |-> refresh.todo \ {m},
                      loaded |-> refresh.loaded]
  /\ UNCHANGED <<real, agent, lane, late, online, watched, log, streak, blank,
                 hookRecent, bounds>>

\* The document: no confirmation of an empty list and no transition events.
DocumentSaved ==
  /\ refresh.pc = "each" /\ refresh.todo = {}
  /\ online' = refresh.list /\ watched' = canonical(refresh.list)
  /\ silent' = silent \cup (online \ refresh.list) \cup (refresh.list \ online)
  /\ refresh' = Idle
  /\ UNCHANGED <<real, agent, lane, late, archive, evt, offs, stray, streak, blank, hookRecent,
                 bounds>>

-----------------------------------------------------------------------------
(* The world *)

DeviceMoves ==
  /\ moves < MaxMoves /\ moves' = moves + 1
  /\ \E m \in Macs : real' = IF m \in real THEN real \ {m} ELSE real \cup {m}
  /\ UNCHANGED <<agent, lane, late, hubVars, hookRecent, refresh, refreshes, faults>>

\* The Hub restarts: lastHookEpoch and its threads are gone, the streak and
\* the documents stay, and hub0934 repairs the watched rows.  A request it
\* was handling may have written its events and archive rows and no document.
HubRestart ==
  /\ faults < MaxFaults /\ faults' = faults + 1
  /\ hookRecent' = FALSE /\ refresh' = Idle /\ late' = None
  /\ watched' = canonical(online)
  /\ \/ UNCHANGED <<log, archive, agent>>
     \/ /\ agent.pc = "hook" /\ ~Deferred(agent.list)
        /\ Record(agent.list) /\ UNCHANGED stray
        /\ archive' = archive \cup agent.list \cup online
        /\ silent' = silent \cup (online \ agent.list) \cup (agent.list \ online)
        /\ agent' = [agent EXCEPT !.pc = "collect"]
  /\ UNCHANGED <<real, lane, online, streak, blank, moves, refreshes>>

Next ==
  \/ Collect \/ Hook \/ Flush \/ CycleEnds \/ LateArrives
  \/ LaneReads \/ fallback_snapshot \/ HookAges
  \/ refresh_view \/ ArchiveLoads \/ ArchiveSaves \/ DocumentSaved
  \/ DeviceMoves \/ HubRestart

AgentSteps == Collect \/ Hook \/ Flush \/ CycleEnds
Spec == Init /\ [][Next]_vars /\ WF_vars(AgentSteps)

-----------------------------------------------------------------------------
\* Type invariant.  Only a refresh that refills an emptied document lets the
\* streak run past the confirmations it counts.
TypeOK ==
  /\ real \in SUBSET Macs
  /\ agent \in [pc : {"collect", "hook", "flush"}, list : SUBSET Macs, known : SUBSET Macs,
                pending : Seq(Event), retry : Seq(Event)]
  /\ lane \in (SUBSET Macs) \cup {None}
  /\ late \in Request \cup {None}
  /\ online \in SUBSET Macs /\ watched \in SUBSET Macs /\ archive \in SUBSET Macs
  /\ evt \in [Macs -> {"none", "on", "off"}] /\ offs \in SUBSET Macs
  /\ streak \in 0..(EmptyConfirmations + MaxRefresh) /\ blank \in 0..EmptyConfirmations
  /\ hookRecent \in BOOLEAN
  /\ refresh \in [pc : {"idle", "each", "save"}, list : SUBSET Macs, todo : SUBSET Macs,
                  loaded : SUBSET Macs]
  /\ silent \in SUBSET Macs /\ stray \in SUBSET Macs

\* The event log and the devices document tell one story: a device is in the
\* document exactly when its last event in the log says online, through late
\* and repeated hooks, the lane and restarts.  The exceptions are a device that
\* a refresh or a cut-off ingestion treated in one of the two only, and one
\* whose last event is a pushed one, late or retried, that the document already
\* contradicted when the log took it; the next event of the device that agrees
\* with the document, or the next ingested change, ends either.
EventsFollowDevices ==
  \A m \in Macs \ (silent \cup stray) : (m \in online) <=> (evt[m] = "on")

\* No agent report empties the document at once: it takes EmptyConfirmations
\* empty lists in a row.  The refresh thread is not bound by it.
EmptyConfirmed ==
  [][online # {} /\ online' = {} /\ refresh' = refresh => blank' >= EmptyConfirmations]_vars

\* Once devices stop moving the document and the watched rows settle on the
\* devices that are there, whatever stale list, late hook or retried event
\* was under way.
DevicesRight == online = real /\ watched = real \cap Configured
DevicesConverge == <>[]DevicesRight

=============================================================================
