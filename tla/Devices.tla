------------------------------ MODULE Devices ------------------------------
(***************************************************************************)
(* What the Hub keeps and shows of the terminals, composed.  The three     *)
(* components share no state that one of them would see another change, so *)
(* one of them is chosen at the start and runs while the others rest.      *)
(* DeviceTotals is extended: its definitions are used by their own names.  *)
(***************************************************************************)
EXTENDS DeviceTotals, Sequences, FiniteSets

CONSTANTS
  None,
  \* DeviceHistory
  Macs, Configured, EmptyConfirmations, MaxMoves, MaxRefresh, MaxFaults,
  \* Realtime
  Clients, Values, Terminals, QueueSize, MaxWhole, MaxPushes, MaxDrops

VARIABLES
  focus,
  \* DeviceHistory
  real, agent, lane, late, online, watched, archive, evt, offs, streak, hookRecent,
  refresh, blank, silent, stray, moves, refreshes, faults,
  \* Realtime
  truth, whole, rows, latest, lanes, client, missed, pushes, shifts, drops

H == INSTANCE DeviceHistory

R == INSTANCE Realtime WITH Macs <- Terminals, lane <- lanes, moves <- shifts

\* Both confirmations of an empty list are of at least one (2 in the code), and
\* "none" is not a value.
ASSUME DeviceLimits ==
  /\ EmptyConfirmations \in Nat \ {0} /\ IsFiniteSet(Macs) /\ Configured \subseteq Macs
  /\ MaxRefresh \in Nat /\ MaxWhole \in Nat /\ QueueSize \in Nat \ {0}
  /\ None \notin Values \cup H!Request /\ \A macs \in SUBSET Macs : macs # None

historyVars == <<real, agent, lane, late, online, watched, archive, evt, offs, streak, hookRecent,
                 refresh, blank, silent, stray, moves, refreshes, faults>>
realtimeVars == <<truth, whole, rows, latest, lanes, client, missed, pushes, shifts, drops>>
allVars == <<focus, historyVars, vars, realtimeVars>>

\* A component that rests is in one of its initial states.  The network starts
\* empty or with all devices; some of them move later.
DevicesInit ==
  /\ focus \in {"history", "totals", "realtime"}
  /\ H!Init /\ real \in (IF focus = "history" THEN {{}, Macs} ELSE {{}})
  /\ Init /\ (focus # "totals" => clock = 0 /\ ~present)
  /\ R!Init /\ (focus # "realtime" => truth = R!Empty)

DevicesNext ==
  \/ focus = "history" /\ H!Next /\ UNCHANGED <<focus, vars, realtimeVars>>
  \/ focus = "totals" /\ Next /\ UNCHANGED <<focus, historyVars, realtimeVars>>
  \/ focus = "realtime" /\ R!Next /\ UNCHANGED <<focus, historyVars, vars>>

\* The fairness of the components.
DevicesFairness ==
  /\ WF_allVars(focus = "history" /\ H!AgentSteps /\ UNCHANGED <<focus, vars, realtimeVars>>)
  /\ WF_allVars(focus = "realtime" /\ R!Poll /\ UNCHANGED <<focus, historyVars, vars>>)
  /\ \A l \in R!Lanes :
       WF_allVars(focus = "realtime" /\ R!Enqueue(l) /\ UNCHANGED <<focus, historyVars, vars>>)
  /\ \A c \in Clients :
       WF_allVars(/\ focus = "realtime" /\ (R!Replay(c) \/ R!Send(c))
                  /\ UNCHANGED <<focus, historyVars, vars>>)

DevicesSpec == DevicesInit /\ [][DevicesNext]_allVars /\ DevicesFairness

-----------------------------------------------------------------------------
\* The type invariants of the three components: no queue outgrows its bound,
\* and a streak of empty lists outgrows the confirmations only by refreshes.
DevicesTypeOK ==
  /\ focus = "history" => H!TypeOK
  /\ focus = "totals" => TypeOK
  /\ focus = "realtime" => R!TypeOK

\* The last event of a device in the log says what the device list says, but
\* for the devices that DeviceHistory excepts by name.
EventsFollowDevices == H!EventsFollowDevices

\* Devices leave the list all at once only after the confirmations.
EmptyConfirmed == H!EmptyConfirmed

\* An APP that has read its queue shows the latest whole value.
LatestShown == R!LatestShown

\* Once the devices and the faults rest, both views of them are right for good:
\* the devices document with its watched rows, whatever stale list, late hook
\* or retried event was under way, and the rows of a connected APP, whatever
\* deltas its queue dropped.
ViewsConverge ==
  <>[](/\ focus = "history" => H!DevicesRight
       /\ focus = "realtime" => R!RowsRight)
=============================================================================
