------------------------------- MODULE Router -------------------------------
(***************************************************************************)
(* The Hub's threads that deal with the router, and the commands that      *)
(* update the agent on it.  The components share no state that one of them *)
(* would see another change, so one of them is chosen at the start and     *)
(* runs while the others rest; the counters that bound them are common.    *)
(* AgentCommands is extended: its definitions are used by their own names. *)
(***************************************************************************)
EXTENDS AgentCommands

CONSTANTS
  \* RouterControl
  Users, Kinds, Loader, QueueSize, TaskPolls, MaxCalls,
  \* RouterSession; its configurations are the routers of SlowCache
  Callers, Monitor, Configs, MaxChanges,
  \* NatDiagnostic
  Requests, MaxStarts, NatPolls,
  \* SlowCache
  Readers, Workers, MaxSwitches,
  \* RevisionSignal, RouterCredentials
  MaxRevision, MaxRefresh,
  MoreFaults   \* bound: faults of the smaller components

VARIABLES
  focus, changes,
  \* RouterControl
  queue, actor, pending, call, task, thread, calls,
  \* RouterSession
  cfg, put, sessions, lock, thr, ws, alive, origin,
  \* NatDiagnostic
  generation, asked, result, natThread, router,
  \* SlowCache
  config, said, scope, entry, refreshing, backoff, reader, switches,
  \* RevisionSignal
  revision, signalled, latest, connected, retained, writer, network, kept, beaten,
  \* RouterCredentials
  requested, completed, best, reads, refreshes, last, push

C == INSTANCE RouterControl WITH
       MaxPolls <- TaskPolls, MaxFaults <- MoreFaults, worker <- actor

S == INSTANCE RouterSession WITH cache <- sessions

N == INSTANCE NatDiagnostic WITH
       MaxPolls <- NatPolls, MaxFaults <- MoreFaults, thread <- natThread

K == INSTANCE SlowCache WITH Scopes <- Configs, Threads <- Readers, thread <- reader

R == INSTANCE RevisionSignal WITH MaxFaults <- MoreFaults

P == INSTANCE RouterCredentials WITH MaxFaults <- MoreFaults

\* Threads are distinct, the queue has room for one item, and "none" is
\* neither a thread nor a session nor a configuration.
ASSUME ThreadsAssumption ==
  /\ C!IsFiniteSet(C!Threads) /\ None \notin C!Item
  /\ Monitor \notin Callers /\ None \notin Callers \cup {Monitor} \cup Configs \cup Nat
  /\ Readers \cap Workers = {}
ASSUME LimitsAssumption ==
  /\ QueueSize \in Nat \ {0} /\ TaskPolls \in Nat /\ MaxStarts \in Nat /\ NatPolls \in Nat
  /\ MaxChanges \in Nat /\ MaxRevision \in Nat \ {0} /\ MaxRefresh \in Nat /\ MoreFaults \in Nat

controlVars == <<queue, actor, pending, call, task, thread, calls>>
sessionVars == <<cfg, put, sessions, lock, thr, ws, alive, origin>>
natVars == <<generation, asked, result, natThread, router>>
cacheVars == <<config, said, scope, entry, refreshing, backoff, reader, switches>>
signalVars == <<revision, signalled, latest, connected, retained, writer, network, kept, beaten>>
pairVars == <<requested, completed, best, reads, refreshes, last, push>>
commandVars == <<keep, cmds, created, worker, cache, agent, install,
                 version, late, stranded, peak, passed>>
routerVars == <<focus, faults, changes, controlVars, sessionVars, natVars, cacheVars, signalVars,
          pairVars, commandVars>>

\* What rests while a component runs.
notControl == <<focus, changes, sessionVars, natVars, cacheVars, signalVars, pairVars, commandVars>>
notSession == <<focus, controlVars, natVars, cacheVars, signalVars, pairVars, commandVars>>
notNat == <<focus, changes, controlVars, sessionVars, cacheVars, signalVars, pairVars, commandVars>>
notCache == <<focus, controlVars, sessionVars, natVars, signalVars, pairVars, commandVars>>
notSignal == <<focus, changes, controlVars, sessionVars, natVars, cacheVars, pairVars, commandVars>>
notPair == <<focus, changes, controlVars, sessionVars, natVars, cacheVars, signalVars, commandVars>>
notCommand == <<focus, changes, controlVars, sessionVars, natVars, cacheVars, signalVars, pairVars>>

\* A component that rests is in one of its initial states.
RouterInit ==
  /\ focus \in {"control", "session", "nat", "cache", "signal", "credentials",
               "commands"}
  /\ C!Init /\ S!Init /\ N!Init /\ K!Init /\ R!Init /\ P!Init /\ Init
  /\ focus # "session" => cfg = CHOOSE c \in Configs : TRUE
  /\ focus # "cache" => config = CHOOSE c \in Configs : TRUE
  /\ focus # "signal" => retained = 0
  /\ focus # "commands" => keep = CHOOSE k \in KeepCommands : TRUE

RouterNext ==
  \/ focus = "control" /\ C!Next /\ UNCHANGED notControl
  \/ focus = "session" /\ S!Next /\ UNCHANGED notSession
  \/ focus = "nat" /\ N!Next /\ UNCHANGED notNat
  \/ focus = "cache" /\ K!Next /\ UNCHANGED notCache
  \/ focus = "signal" /\ R!Next /\ UNCHANGED notSignal
  \/ focus = "credentials" /\ P!Next /\ UNCHANGED notPair
  \/ focus = "commands" /\ Next /\ UNCHANGED notCommand

\* The fairness of the components.
RouterFairness ==
  /\ WF_routerVars(focus = "control" /\ C!Actor /\ UNCHANGED notControl)
  /\ \A t \in C!Threads : WF_routerVars(focus = "control" /\ C!Put(t) /\ UNCHANGED notControl)
  /\ \A k \in Kinds : WF_routerVars(focus = "control" /\ C!TaskStep(k) /\ UNCHANGED notControl)
  /\ \A t \in Callers :
       WF_routerVars(focus = "session" /\ S!CallerStep(t) /\ UNCHANGED notSession)
  /\ WF_routerVars(focus = "session" /\ S!MonitorStep /\ UNCHANGED notSession)
  /\ \A t \in S!Threads : WF_routerVars(focus = "session" /\ S!LoginEnds(t) /\ UNCHANGED notSession)
  /\ WF_routerVars(focus = "session" /\ S!BlockEnds /\ UNCHANGED notSession)
  /\ WF_routerVars(focus = "session" /\ S!ConfigCleared /\ UNCHANGED notSession)
  /\ \A g \in N!Generations : WF_routerVars(focus = "nat" /\ N!Worker(g) /\ UNCHANGED notNat)
  /\ WF_routerVars(focus = "cache" /\ K!Expires /\ UNCHANGED notCache)
  /\ WF_routerVars(focus = "cache" /\ K!BackoffEnds /\ UNCHANGED notCache)
  /\ WF_routerVars(focus = "cache" /\ K!Asks /\ UNCHANGED notCache)
  /\ \A t \in K!All : WF_routerVars(focus = "cache" /\ K!Load(t) /\ UNCHANGED notCache)
  /\ WF_routerVars(focus = "signal" /\ R!Writer /\ UNCHANGED notSignal)
  /\ WF_routerVars(focus = "signal" /\ R!Network /\ UNCHANGED notSignal)
  /\ WF_routerVars(focus = "credentials" /\ P!dashboard_push /\ UNCHANGED notPair)
  /\ WF_routerVars(focus = "credentials" /\ P!PushStored /\ UNCHANGED notPair)
  /\ WF_routerVars(focus = "credentials" /\ P!DirectRead /\ UNCHANGED notPair)
  /\ \A i \in Ids :
       /\ WF_routerVars(focus = "commands" /\ WorkerStep(i) /\ UNCHANGED notCommand)
       /\ WF_routerVars(focus = "commands" /\ InstallerStep(i) /\ UNCHANGED notCommand)
  /\ WF_routerVars(focus = "commands" /\ AgentStep /\ UNCHANGED notCommand)
  /\ WF_routerVars(focus = "commands" /\ agent_status /\ UNCHANGED notCommand)
  /\ WF_routerVars(focus = "commands" /\ LateStep /\ UNCHANGED notCommand)

RouterSpec == RouterInit /\ [][RouterNext]_routerVars /\ RouterFairness

-----------------------------------------------------------------------------
\* The type invariant of the component that runs.
RouterTypeOK ==
  /\ focus = "control" => C!TypeOK
  /\ focus = "session" => S!TypeOK
  /\ focus = "nat" => N!TypeOK
  /\ focus = "cache" => K!TypeOK
  /\ focus = "signal" => R!TypeOK
  /\ focus = "credentials" => P!TypeOK
  /\ focus = "commands" => TypeOK

\* The session cache never offers a session to another configuration, and every
\* login is owed to a start, a change of configuration or a fault.
SessionSound == S!SessionOwn /\ (focus = "session" => S!NoLoginStorm)

\* What the Hub notes about work under way is exact, whatever times out or fails
\* meanwhile: the counter that turns background loaders away counts the users'
\* RPCs that wait, the NAT result shown is the latest request's and somebody
\* works on it, and the mark of a refresh never outlives the refresh.
NotesExact == C!PendingExact /\ N!ResultOfLatest /\ K!RefreshMarked

\* What was asked ends: a long task, a NAT diagnostic and a refresh of the
\* credentials, although RPCs fail, waits time out, pushes are lost and the Hub
\* restarts.
Unsettled ==
  \/ focus = "control" /\ \E k \in Kinds : task[k] \in C!Active
  \/ focus = "nat" /\ N!Running
  \/ focus = "credentials" /\ P!Unanswered

RequestsSettle == Unsettled ~> ~Unsettled

\* Once the faults are over, what the Hub holds about the router is right for
\* good: the session the router accepts, the cached value, the revision that
\* was announced last.
RouterViewSettles ==
  <>[](/\ focus = "session" => S!Settled
       /\ focus = "cache" => K!Right
       /\ focus = "signal" => R!Announced)
=============================================================================
