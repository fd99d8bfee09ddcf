------------------------------ MODULE Realtime ------------------------------
(***************************************************************************)
(* The Hub's WebSocket fan-out (hub_realtime_ws.py).  Three lanes publish  *)
(* to a bounded queue per connected APP: whole values (the router's rates, *)
(* from the one thread of the eWeb monitor), the terminal deltas of        *)
(* LabRelay's pushes and the full terminal snapshots of the Hub's own      *)
(* five-second poll.  A lane stores its value under a lock and publishes   *)
(* after releasing it; a full queue gives up its oldest frame, in two      *)
(* calls another lane can come between.  A new APP registers, is replayed  *)
(* what the Hub has, then reads its queue.  Left out: configuration, task  *)
(* and agent frames, which several threads store and publish, so that one  *)
(* may overtake another; and the demand leases (the answer to LabRelay is  *)
(* patched to be always active, so they decide nothing).                   *)
(***************************************************************************)
EXTENDS Naturals, Sequences

CONSTANTS
  Clients,             \* APP connections
  Values,              \* what a sample can say of a terminal
  None,                \* the terminal is not in the list; no value yet
  Macs,                \* terminals
  QueueSize,           \* CLIENT_QUEUE_SIZE (8)
  EmptyConfirmations,  \* of the live poll (2)
  MaxWhole,            \* bound: whole frames published
  MaxPushes,           \* bound: pushes of LabRelay
  MaxMoves,            \* bound: changes on the router
  MaxDrops             \* bound: connections that fail

VARIABLES
  truth,   \* the router's terminal list
  whole,   \* the number of the latest whole value
  rows,    \* _devices of the cache
  latest,  \* latest of the live poll, with its empty streak
  lane,    \* per lane: pc, the frame and the clients it still goes to
  client,  \* per client: pc, what its APP shows and its queue
  missed,  \* clients whose newest whole frame was dropped from a full queue
  pushes, moves, drops

vars == <<truth, whole, rows, latest, lane, client, missed, pushes, moves, drops>>

Lanes == {"whole", "push", "poll"}
List == [Macs -> Values \cup {None}]
Empty == [m \in Macs |-> None]
Frame(kind, value) == [kind |-> kind, value |-> value]
NoFrame == Frame("none", None)
Idle == [pc |-> "idle", frame |-> NoFrame, todo |-> {}]
Fresh == [pc |-> "new", whole |-> 0, rows |-> Empty, frames |-> <<>>]

Init ==
  /\ truth \in List /\ whole = 0 /\ rows = Empty
  /\ latest = [rows |-> Empty, known |-> FALSE, streak |-> 0]
  /\ lane = [l \in Lanes |-> Idle]
  /\ client = [c \in Clients |-> Fresh]
  /\ missed = {} /\ pushes = 0 /\ moves = 0 /\ drops = 0

Moves ==
  /\ moves < MaxMoves /\ moves' = moves + 1
  /\ \E list \in List \ {truth} : truth' = list
  /\ UNCHANGED <<whole, rows, latest, lane, client, missed, pushes, drops>>

-----------------------------------------------------------------------------
(* The lanes store their values *)

Stored(l, frame) == lane' = [lane EXCEPT ![l] = [pc |-> "stored", frame |-> frame, todo |-> {}]]

\* accept_router_fast: merged under the lock; a new epoch makes every frame new.
accept_router_fast ==
  /\ lane["whole"].pc = "idle" /\ whole < MaxWhole
  /\ whole' = whole + 1
  /\ Stored("whole", Frame("whole", whole + 1))
  /\ UNCHANGED <<truth, rows, latest, client, missed, pushes, moves, drops>>

\* The rows of a push that differ from the cached ones.  A terminal that left
\* the list has no row, so the delta does not mention it.
Delta(list) == [m \in Macs |-> IF list[m] # rows[m] THEN list[m] ELSE None]

accept_push ==
  /\ lane["push"].pc = "idle" /\ pushes < MaxPushes
  /\ pushes' = pushes + 1
  /\ rows' = truth
  /\ Stored("push", Frame("delta", Delta(truth)))
  /\ UNCHANGED <<truth, whole, latest, client, missed, moves, drops>>

\* poll_once reads the router's list, ...
PollReads ==
  /\ lane["poll"].pc = "idle"
  /\ lane' = [lane EXCEPT !["poll"] = [pc |-> "read", frame |-> Frame("snapshot", truth), todo |-> {}]]
  /\ UNCHANGED <<truth, whole, rows, latest, client, missed, pushes, moves, drops>>

\* ... puts an unexpected empty list off once, and keeps and publishes the rest.
Deferred(list) ==
  list = Empty /\ latest.rows # Empty /\ latest.streak + 1 < EmptyConfirmations

PollKeeps ==
  LET list == lane["poll"].frame.value
      streak == IF list = Empty /\ latest.rows # Empty THEN latest.streak + 1 ELSE 0
  IN
  /\ lane["poll"].pc = "read"
  /\ IF Deferred(list)
       THEN latest' = [latest EXCEPT !.streak = streak] /\ lane' = [lane EXCEPT !["poll"] = Idle]
       ELSE /\ latest' = [rows |-> list, known |-> TRUE, streak |-> streak]
            /\ lane' = [lane EXCEPT !["poll"].pc = "stored"]
  /\ UNCHANGED <<truth, whole, rows, client, missed, pushes, moves, drops>>

-----------------------------------------------------------------------------
(* _publish and _enqueue *)

\* Mutant: an APP registers after the replay.
RegisteredLate == {c \in Clients : client[c].pc = "loop"}

Registered == {c \in Clients : client[c].pc \notin {"new", "gone"}}

\* The lane puts its frame to the clients it still goes to.
Putting(l, todo) ==
  lane' = [lane EXCEPT ![l] =
             IF todo = {} THEN Idle ELSE [pc |-> "put", frame |-> @.frame, todo |-> todo]]

\* The clients of this moment, under the lock; then one after the other.
Publish(l) ==
  /\ lane[l].pc = "stored" /\ Putting(l, Registered)
  /\ UNCHANGED <<truth, whole, rows, latest, client, missed, pushes, moves, drops>>

At(l) == CHOOSE c \in lane[l].todo : TRUE
Queued(l) == client[At(l)].frames
Full(frames) == Len(frames) >= QueueSize

NextClient(l) == Putting(l, lane[l].todo \ {At(l)})

HasWhole(frames) == \E i \in DOMAIN frames : frames[i].kind = "whole"

Fits(l) ==
  /\ lane[l].pc \in {"put", "retry"} /\ ~Full(Queued(l))
  /\ client' = [client EXCEPT ![At(l)].frames = Append(@, lane[l].frame)]
  /\ missed' = IF lane[l].frame.kind = "whole" THEN missed \ {At(l)} ELSE missed
  /\ NextClient(l)
  /\ UNCHANGED <<truth, whole, rows, latest, pushes, moves, drops>>

\* queue.Full, for the first time ...
FindsFull(l) ==
  /\ lane[l].pc = "put" /\ Full(Queued(l))
  /\ lane' = [lane EXCEPT ![l].pc = "room"]
  /\ UNCHANGED <<truth, whole, rows, latest, client, missed, pushes, moves, drops>>

\* ... so the oldest frame goes, if the client has not taken them all ...
MakesRoom(l) ==
  /\ lane[l].pc = "room"
  /\ lane' = [lane EXCEPT ![l].pc = "retry"]
  /\ IF Queued(l) = <<>> THEN UNCHANGED <<client, missed>>
     ELSE /\ client' = [client EXCEPT ![At(l)].frames = Tail(@)]
          /\ missed' = IF HasWhole(Queued(l)) /\ ~HasWhole(Tail(Queued(l)))
                       THEN missed \cup {At(l)} ELSE missed
  /\ UNCHANGED <<truth, whole, rows, latest, pushes, moves, drops>>

\* ... and for the second time: another lane took the place.
GivesUp(l) ==
  /\ lane[l].pc = "retry" /\ Full(Queued(l))
  /\ missed' = IF lane[l].frame.kind = "whole" THEN missed \cup {At(l)} ELSE missed
  /\ NextClient(l)
  /\ UNCHANGED <<truth, whole, rows, latest, client, pushes, moves, drops>>

-----------------------------------------------------------------------------
(* _connect: the thread of one APP connection *)

Register(c) ==
  /\ client[c].pc = "new"
  /\ client' = [client EXCEPT ![c].pc = "replay_whole"]
  /\ UNCHANGED <<truth, whole, rows, latest, lane, missed, pushes, moves, drops>>

Replayed(s, pc, w, r) == [pc |-> pc, whole |-> w, rows |-> r, frames |-> s.frames]

\* _send_initial_snapshots: the cached values, each read and sent in turn,
\* then (the live poll's wrapper) the latest full snapshot if there is one.
Replay(c) ==
  LET s == client[c]
      Goes(pc, w, r) == client' = [client EXCEPT ![c] = Replayed(s, pc, w, r)]
  IN
  /\ \/ s.pc = "replay_whole" /\ Goes("replay_rows", whole, s.rows)
     \/ s.pc = "replay_rows" /\ Goes("replay_latest", s.whole, rows)
     \/ s.pc = "replay_latest"
        /\ Goes("loop", s.whole, IF latest.known THEN latest.rows ELSE s.rows)
  /\ UNCHANGED <<truth, whole, rows, latest, lane, missed, pushes, moves, drops>>

\* What the APP shows after a frame: a delta changes rows, a snapshot all.
Shown(view, f) ==
  CASE f.kind = "whole" -> [view EXCEPT !.whole = f.value]
    [] f.kind = "delta" -> [view EXCEPT !.rows =
         [m \in Macs |-> IF f.value[m] = None THEN @[m] ELSE f.value[m]]]
    [] f.kind = "snapshot" -> [view EXCEPT !.rows = f.value]

Taken(s) == [s EXCEPT !.frames = Tail(s.frames)]

Send(c) ==
  /\ client[c].pc = "loop" /\ client[c].frames # <<>>
  /\ client' = [client EXCEPT ![c] = Shown(Taken(client[c]), Head(client[c].frames))]
  /\ UNCHANGED <<truth, whole, rows, latest, lane, missed, pushes, moves, drops>>

\* A send fails: the client is unregistered.  Its queue goes on being filled by
\* lanes that took it before, for nobody.
Disconnect(c) ==
  /\ client[c].pc \notin {"new", "gone"} /\ drops < MaxDrops
  /\ drops' = drops + 1
  /\ client' = [client EXCEPT ![c] = [Fresh EXCEPT !.pc = "gone"]]
  /\ UNCHANGED <<truth, whole, rows, latest, lane, missed, pushes, moves>>

-----------------------------------------------------------------------------
Enqueue(l) == Publish(l) \/ Fits(l) \/ FindsFull(l) \/ MakesRoom(l) \/ GivesUp(l)
Poll == PollReads \/ PollKeeps

Next ==
  \/ Moves \/ accept_router_fast \/ accept_push \/ Poll
  \/ \E l \in Lanes : Enqueue(l)
  \/ \E c \in Clients : Register(c) \/ Replay(c) \/ Send(c) \/ Disconnect(c)

\* The poll runs every five seconds for ever; publishing and serving are
\* threads that run when they can.
Fairness ==
  /\ WF_vars(Poll)
  /\ \A l \in Lanes : WF_vars(Enqueue(l))
  /\ \A c \in Clients : WF_vars(Replay(c) \/ Send(c))

Spec == Init /\ [][Next]_vars /\ Fairness

-----------------------------------------------------------------------------
Frames == [kind : {"whole"}, value : 1..MaxWhole] \cup [kind : {"delta", "snapshot"}, value : List]

\* Type invariant; no queue outgrows its bound, whoever puts at once.
TypeOK ==
  /\ truth \in List /\ whole \in 0..MaxWhole /\ rows \in List
  /\ latest \in [rows : List, known : BOOLEAN, streak : 0..EmptyConfirmations]
  /\ \A l \in Lanes :
       /\ lane[l].pc \in {"idle", "read", "stored", "put", "room", "retry"}
       /\ lane[l].frame \in Frames \cup {NoFrame} /\ lane[l].todo \subseteq Clients
  /\ \A c \in Clients :
       /\ client[c].pc \in {"new", "replay_whole", "replay_rows", "replay_latest", "loop", "gone"}
       /\ client[c].whole \in 0..MaxWhole /\ client[c].rows \in List
       /\ client[c].frames \in Seq(Frames) /\ Len(client[c].frames) <= QueueSize

\* Nothing of the whole lane is on its way to c.
Settled(c) ==
  /\ client[c].pc = "loop" /\ client[c].frames = <<>>
  /\ lane["whole"].pc = "idle" \/ (lane["whole"].pc # "stored" /\ c \notin lane["whole"].todo)

\* An APP that has read its queue shows the latest whole value: none published
\* while it registered and was replayed falls between the two, and an older
\* one queued meanwhile does not stay.  Only a full queue loses the newest.
LatestShown == \A c \in Clients \ missed : Settled(c) => client[c].whole = whole

\* Whatever deltas a full queue or the replay lost, and although no delta says
\* that a terminal left, an APP that stays connected ends up showing the
\* router's list: the full snapshots repair it.
RowsRight == \A c \in Clients : client[c].pc = "loop" => client[c].rows = truth
RowsConverge == <>[]RowsRight

=============================================================================
