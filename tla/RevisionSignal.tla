--------------------------- MODULE RevisionSignal ---------------------------
(***************************************************************************)
(* The retained MQTT message that tells every APP the Hub's revision       *)
(* (MqttRevisionPublisher in hub.py).  save_json holds DATA_LOCK while it  *)
(* writes a document and notifies, so the notifications of all requests    *)
(* are one thread here.  The MQTT client's own thread runs on_connect and  *)
(* on_disconnect beside it: both take the publisher's lock for a moment    *)
(* only, and publish after releasing it.                                   *)
(***************************************************************************)
EXTENDS Naturals

CONSTANTS
  MaxRevision,  \* bound: revisions written
  MaxFaults     \* bound: connections lost, publishes that fail

VARIABLES
  revision,   \* of the store
  signalled,  \* the last revision of a document whose saves are signalled
  latest,     \* _latest_revision
  connected,  \* the publisher's flag
  retained,   \* what the broker hands to a subscriber
  writer,     \* the thread in save_json: pc and the revision it wrote
  network,    \* the MQTT thread: pc and the revision it read
  kept,       \* a message the library keeps for the next connection, or 0
  beaten,     \* the message published last is older than what was notified
  faults

vars == <<revision, signalled, latest, connected, retained, writer, network, kept, beaten, faults>>

Idle == [pc |-> "idle", revision |-> 0]

Max2(a, b) == IF a > b THEN a ELSE b

\* The Hub starts with the revision its store has, not connected; the broker
\* may hold the message of an earlier run.
Init ==
  /\ revision = 1 /\ signalled = 1 /\ latest = 1
  /\ connected = FALSE /\ retained \in {0, 1}
  /\ writer = Idle /\ network = Idle /\ kept = 0 /\ beaten = FALSE /\ faults = 0

-----------------------------------------------------------------------------
(* save_json and notify_revision *)

\* STORE.save, of a signalled document or of another one.
Save ==
  /\ writer.pc = "idle" /\ revision < MaxRevision
  /\ revision' = revision + 1
  /\ \/ signalled' = revision + 1 /\ writer' = [pc |-> "notify", revision |-> revision + 1]
     \/ UNCHANGED <<signalled, writer>>
  /\ UNCHANGED <<latest, connected, retained, network, beaten, faults, kept>>

\* A revision that is not new is not announced; on_connect may have seen it.
Notify ==
  /\ writer.pc = "notify"
  /\ IF writer.revision <= latest THEN writer' = Idle /\ UNCHANGED latest
     ELSE writer' = [writer EXCEPT !.pc = "publish"] /\ latest' = writer.revision
  /\ UNCHANGED <<revision, signalled, connected, retained, network, beaten, faults, kept>>

\* Published if the flag says connected.  When the connection is gone already
\* the library keeps the message for the next one.
PublishNotified ==
  /\ writer.pc = "publish"
  /\ writer' = Idle
  /\ IF connected /\ network.pc # "lost"
       THEN retained' = writer.revision /\ beaten' = FALSE /\ UNCHANGED kept
     ELSE /\ kept' = IF connected THEN writer.revision ELSE kept
          /\ UNCHANGED <<retained, beaten>>
  /\ UNCHANGED <<revision, signalled, latest, connected, network, faults>>

-----------------------------------------------------------------------------
(* The MQTT client's thread *)

\* on_connect: the flag is set first, ...
Connect ==
  /\ network.pc = "idle" /\ ~connected
  /\ connected' = TRUE
  /\ network' = [pc |-> "read", revision |-> 0]
  /\ UNCHANGED <<revision, signalled, latest, retained, writer, beaten, faults, kept>>

\* ... then, under the lock, the newest revision is read ...
ConnectReads ==
  LET newest == Max2(latest, revision) IN
  /\ network.pc = "read"
  /\ latest' = newest
  /\ network' = [pc |-> "publish", revision |-> newest]
  /\ UNCHANGED <<revision, signalled, connected, retained, writer, beaten, faults, kept>>

\* Mutant: nothing is announced on a new connection.
ConnectForgets ==
  /\ network.pc = "publish" /\ network' = Idle
  /\ UNCHANGED <<revision, signalled, latest, connected, retained, writer, kept, beaten, faults>>

\* ... and published without it.
ConnectPublishes ==
  /\ network.pc = "publish"
  /\ retained' = network.revision
  /\ beaten' = (network.revision < latest)
  /\ network' = Idle
  /\ UNCHANGED <<revision, signalled, latest, connected, writer, faults, kept>>

\* A kept message follows on the new connection, after on_connect's own.
Resend ==
  /\ network.pc = "idle" /\ connected /\ kept > 0
  /\ retained' = kept /\ beaten' = (kept < latest) /\ kept' = 0
  /\ UNCHANGED <<revision, signalled, latest, connected, writer, network, faults>>

\* The connection breaks, and some time later on_disconnect runs.
Lose ==
  /\ network.pc = "idle" /\ connected /\ faults < MaxFaults
  /\ faults' = faults + 1
  /\ network' = [pc |-> "lost", revision |-> 0]
  /\ UNCHANGED <<revision, signalled, latest, connected, retained, writer, beaten, kept>>

Disconnect ==
  /\ network.pc = "lost"
  /\ connected' = FALSE /\ network' = Idle
  /\ UNCHANGED <<revision, signalled, latest, retained, writer, beaten, faults, kept>>

-----------------------------------------------------------------------------
Writer == Notify \/ PublishNotified
Network == Connect \/ ConnectReads \/ ConnectPublishes \/ Resend \/ Disconnect

Next == Save \/ Writer \/ Network \/ Lose

\* The client reconnects in the background for ever; a save finishes.
Fairness == WF_vars(Writer) /\ WF_vars(Network)

Spec == Init /\ [][Next]_vars /\ Fairness

-----------------------------------------------------------------------------
\* Type invariant: nothing is announced that was not written.
TypeOK ==
  /\ revision \in 1..MaxRevision /\ signalled \in 1..revision /\ latest \in 1..revision
  /\ connected \in BOOLEAN /\ retained \in 0..revision
  /\ writer \in [pc : {"idle", "notify", "publish"}, revision : 0..revision]
  /\ network \in [pc : {"idle", "read", "publish", "lost"}, revision : 0..revision]
  /\ kept \in 0..revision /\ beaten \in BOOLEAN /\ faults \in 0..MaxFaults

\* No signal is lost: a save notified while the connection was down, breaking
\* or just being made is announced in the end, by the save or by on_connect.
\* (Not when on_connect, having read before the save, published after it, or
\* a message kept for the reconnect followed a newer one.)
Announced == connected => retained >= signalled \/ beaten
SignalArrives == <>[]Announced

=============================================================================
