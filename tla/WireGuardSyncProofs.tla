------------------------- MODULE WireGuardSyncProofs -------------------------
(***************************************************************************)
(* Proofs about WireGuardSync, for any interfaces, profiles, command ids   *)
(* and bounds: the agent never claims a revision the kernel does not run,  *)
(* and the router never goes back to an older one.                         *)
(*                                                                         *)
(* The argument: a server command of the document's own revision says what *)
(* the document says (CmdInv), because every queueing takes both from the  *)
(* document at once; and at any time the open server commands all have one *)
(* revision, at least that of the commands the agent is working on and of  *)
(* anything it ever did to an interface (OrderInv), because queueing       *)
(* removes what is older.                                                  *)
(***************************************************************************)
EXTENDS WireGuardSync, TLAPS

(* A command about the server, not about an endpoint. *)
IsServer(w) == w.act # "endpoint"

(* The command says what a document with server s and tombstone t says. *)
Says(w, s, t) ==
    IF s # NoServer
      THEN w.act = "apply" /\ w.iface = s.iface
      ELSE w.act = "delete" /\ w.iface = t

FromDocument(w) == Says(w, server, tomb)

Fits(w) == IsServer(w) => w.rev <= rev /\ (w.rev = rev => FromDocument(w))

CmdInv == (\A c \in cmds : Fits(c.work)) /\ (\A b \in batch : Fits(b.work))

RevInv ==
    /\ saved.rev <= mem.rev /\ mem.rev <= rev
    /\ rev = 0 => server = NoServer

OrderInv ==
    /\ \A i \in Ifaces : kern[i].rev <= rev
    /\ \A c, d \in cmds :
          IsServer(c.work) /\ IsServer(d.work) => c.work.rev = d.work.rev
    /\ \A c, d \in batch :
          IsServer(c.work) /\ IsServer(d.work) => c.work.rev = d.work.rev
    /\ \A b \in batch, c \in cmds :
          IsServer(b.work) /\ IsServer(c.work) => b.work.rev <= c.work.rev
    /\ \A c \in cmds, i \in Ifaces : IsServer(c.work) => kern[i].rev <= c.work.rev
    /\ \A b \in batch, i \in Ifaces : IsServer(b.work) => kern[i].rev <= b.work.rev

Inv == TypeOK /\ RevInv /\ CmdInv /\ OrderInv /\ AppliedIsDesired
-----------------------------------------------------------------------------
(* The fields of a piece of work, by its kind. *)
LEMMA WorkFields ==
    ASSUME NEW w \in Work
    PROVE  /\ w.act \in {"apply", "delete", "endpoint"}
           /\ IsServer(w) => w.rev \in 1 .. MaxRev /\ w.iface \in Ifaces
           /\ w.act = "apply" => w.eps \in Endpoints
           /\ ~ IsServer(w) => w.patch \in Patch
           /\ w.rev \in Nat
  BY BoundsAssumption DEF Work, IsServer

(* What the document says is a piece of work. *)
LEMMA DocumentWork ==
    ASSUME NEW r \in 1 .. MaxRev, NEW i \in Ifaces, NEW s \in Server
    PROVE  /\ ApplyWork(r, s) \in Work /\ DeleteWork(r, i) \in Work
           /\ IsServer(ApplyWork(r, s)) /\ IsServer(DeleteWork(r, i))
           /\ ApplyWork(r, s).rev = r /\ DeleteWork(r, i).rev = r
           /\ ApplyWork(r, s).act = "apply" /\ DeleteWork(r, i).act = "delete"
           /\ ApplyWork(r, s).iface = s.iface /\ DeleteWork(r, i).iface = i
  BY DEF ApplyWork, DeleteWork, Work, Server, IsServer

(* Queueing a piece of work adds it to the commands that stay. *)
LEMMA QueueAdds ==
    ASSUME TypeOK, NEW w \in Work, queue(w)
    PROVE  /\ cmds' \subseteq Command
           /\ \A c \in cmds' : c.work = w \/ (c \in cmds /\ c \notin Superseded(w))
<1>1. PICK id \in CmdIds :
        cmds' = (cmds \ Superseded(w))
                \cup {[id |-> id, work |-> w, status |-> "pending", attempts |-> 0]}
  BY DEF queue
<1>2. [id |-> id, work |-> w, status |-> "pending", attempts |-> 0] \in Command
  BY BoundsAssumption DEF Command
<1> QED
  BY <1>1, <1>2 DEF TypeOK

(* The start. *)
LEMMA InitInv == Init => Inv
<1> SUFFICES ASSUME Init PROVE Inv
  OBVIOUS
<1>1. TypeOK
  BY BoundsAssumption, IfaceAssumption
  DEF Init, TypeOK, Blank, None, NoInterfaces, Interface, AgentState, Endpoints
<1>2. RevInv /\ CmdInv /\ OrderInv /\ AppliedIsDesired
  BY BoundsAssumption
  DEF Init, RevInv, CmdInv, OrderInv, AppliedIsDesired, InStep, Blank, NoInterfaces
<1> QED
  BY <1>1, <1>2 DEF Inv
-----------------------------------------------------------------------------
(* A new revision of the document, queued or not: what the agent works on is *)
(* older, and the queue holds the new command or older ones.                 *)
LEMMA NewRevision ==
    ASSUME Inv, NEW w \in Work, IsServer(w), rev' = rev + 1, w.rev = rev + 1,
           Says(w, server', tomb'), queue(w) \/ cmds' = cmds,
           mem' = mem, saved' = saved, kern' = kern, batch' = batch
    PROVE  RevInv' /\ CmdInv' /\ OrderInv' /\ AppliedIsDesired'
<1> USE DEF Inv
<1>1. /\ rev \in Nat /\ mem.rev \in Nat /\ saved.rev \in Nat
      /\ \A i \in Ifaces : kern[i].rev \in Nat
      /\ \A c \in cmds : c.work \in Work
      /\ \A b \in batch : b.work \in Work
  BY BoundsAssumption DEF TypeOK, AgentState, Interface, Command
<1>2. /\ RevInv' /\ AppliedIsDesired'
  BY <1>1 DEF RevInv, AppliedIsDesired
<1>3. \A c \in cmds' : c.work = w \/ c \in cmds
  BY QueueAdds
<1>4. CASE queue(w)
  <2>1. \A c \in cmds' : IsServer(c.work) => c.work = w
    <3> SUFFICES ASSUME NEW c \in cmds', IsServer(c.work), c.work # w PROVE FALSE
      OBVIOUS
    <3>1. c \in cmds /\ c \notin Superseded(w)
      BY <1>4, QueueAdds
    <3>2. c.work.rev <= rev /\ c.work.rev \in Nat
      BY <3>1, <1>1, WorkFields DEF CmdInv, Fits
    <3>3. Scope(c.work) = Scope(w)
      BY DEF Scope, IsServer
    <3> QED
      BY <3>1, <3>2, <3>3, <1>1 DEF Superseded
  <2>2. CmdInv'
    <3>1. \A c \in cmds' : Fits(c.work)'
      BY <2>1, <1>1 DEF Fits, FromDocument, Says
    <3>2. \A b \in batch' : Fits(b.work)'
      BY <1>1, WorkFields DEF Fits, CmdInv
    <3> QED
      BY <3>1, <3>2 DEF CmdInv
  <2>3. OrderInv'
    <3>1. \A b \in batch : IsServer(b.work) => b.work.rev <= w.rev
      BY <1>1, WorkFields DEF CmdInv, Fits
    <3> QED
      BY <2>1, <3>1, <1>1 DEF OrderInv
  <2> QED
    BY <1>2, <2>2, <2>3
<1>5. CASE cmds' = cmds
  <2>1. CmdInv'
    BY <1>5, <1>1, WorkFields DEF CmdInv, Fits
  <2>2. OrderInv'
    BY <1>5, <1>1 DEF OrderInv
  <2> QED
    BY <1>2, <2>1, <2>2
<1> QED
  BY <1>4, <1>5

(* The document queued once more for an agent that is behind. *)
LEMMA Requeue ==
    ASSUME Inv, NEW w \in Work, IsServer(w), w.rev = rev, FromDocument(w), queue(w),
           rev' = rev, server' = server, tomb' = tomb,
           mem' = mem, saved' = saved, kern' = kern, batch' = batch
    PROVE  RevInv' /\ CmdInv' /\ OrderInv' /\ AppliedIsDesired'
<1> USE DEF Inv
<1>1. /\ rev \in Nat /\ \A i \in Ifaces : kern[i].rev \in Nat
      /\ \A c \in cmds : c.work \in Work
      /\ \A b \in batch : b.work \in Work
  BY BoundsAssumption DEF TypeOK, AgentState, Interface, Command
<1>2. /\ RevInv' /\ AppliedIsDesired'
  BY DEF RevInv, AppliedIsDesired, InStep
<1>3. \A c \in cmds' : IsServer(c.work) => c.work = w
  <2> SUFFICES ASSUME NEW c \in cmds', IsServer(c.work), c.work # w PROVE FALSE
    OBVIOUS
  <2>1. c \in cmds /\ c \notin Superseded(w)
    BY QueueAdds
  <2>2. c.work.rev <= rev /\ c.work.rev \in Nat
    BY <2>1, <1>1, WorkFields DEF CmdInv, Fits
  <2>3. Scope(c.work) = Scope(w)
    BY DEF Scope, IsServer
  <2> QED
    BY <2>1, <2>2, <2>3, <1>1 DEF Superseded
<1>4. CmdInv'
  <2>1. \A c \in cmds' : Fits(c.work)'
    BY <1>3, <1>1 DEF Fits, FromDocument
  <2>2. \A b \in batch' : Fits(b.work)'
    BY DEF Fits, CmdInv, FromDocument
  <2> QED
    BY <2>1, <2>2 DEF CmdInv
<1>5. OrderInv'
  <2>1. \A b \in batch : IsServer(b.work) => b.work.rev <= w.rev
    BY DEF CmdInv, Fits
  <2> QED
    BY <1>3, <2>1, <1>1 DEF OrderInv
<1> QED
  BY <1>2, <1>4, <1>5

(* Fewer or the same server commands, with the rest left alone: the queue  *)
(* may gain or lose endpoint commands, and endpoints may change.           *)
LEMMA FewerCommands ==
    ASSUME Inv, rev' = rev, tomb' = tomb,
           (server' = NoServer) = (server = NoServer),
           server # NoServer => server'.iface = server.iface,
           \A c \in cmds' : IsServer(c.work) => \E d \in cmds : d.work = c.work,
           batch' \subseteq batch,
           mem'.rev = mem.rev, saved'.rev <= mem.rev, kern' = kern
    PROVE  RevInv' /\ CmdInv' /\ OrderInv' /\ AppliedIsDesired'
<1> USE DEF Inv
<1>1. RevInv' /\ AppliedIsDesired'
  BY DEF RevInv, AppliedIsDesired, InStep
<1>2. CmdInv'
  BY DEF CmdInv, Fits, FromDocument, Says
<1>3. OrderInv'
  BY DEF OrderInv
<1> QED
  BY <1>1, <1>2, <1>3
-----------------------------------------------------------------------------
(* An endpoint that is not known yet. *)
LEMMA BareEndpoint ==
    ASSUME NEW r \in Nat
    PROVE  [rev |-> r, val |-> 0] \in Endpoint
  BY BoundsAssumption DEF Endpoint

(* The endpoints of the document, and what the operators on endpoints return. *)
LEMMA EndpointTypes ==
    ASSUME TypeOK
    PROVE  /\ Current \in Endpoints
           /\ \A sent \in [Profiles -> {"left out", "as read", "bare"}] :
                 clean_profiles(sent) \in Endpoints
           /\ \A u \in Patch : Updated(u) \in Endpoint
           /\ \A u \in Patch : apply_endpoint_update(u) \in AgentState
           /\ \A u \in Patch : apply_endpoint_update(u).rev = mem.rev
<1>1. Current \in Endpoints
  BY DEF TypeOK, Current, None, Endpoints, Server
<1>2. ASSUME NEW sent \in [Profiles -> {"left out", "as read", "bare"}]
      PROVE  clean_profiles(sent) \in Endpoints
  <2>1. seen.eps \in Endpoints
    BY DEF TypeOK
  <2>2. ASSUME NEW p \in Profiles
        PROVE  clean_profiles(sent)[p] \in Endpoint \cup {NoProfile}
    <3>1. [rev |-> IF Current[p] = NoProfile THEN 0 ELSE Current[p].rev, val |-> 0] \in Endpoint
      <4> DEFINE r == IF Current[p] = NoProfile THEN 0 ELSE Current[p].rev
      <4>1. Current[p] \in Endpoint \cup {NoProfile}
        BY <1>1 DEF Endpoints
      <4>2. r \in Nat
        <5>1. CASE Current[p] = NoProfile
          BY <5>1
        <5>2. CASE Current[p] \in Endpoint
          <6>1. Current[p].rev \in Nat
            BY <5>2 DEF Endpoint
          <6>2. r \in {0, Current[p].rev}
            OBVIOUS
          <6> QED
            BY <6>1, <6>2
        <5> QED
          BY <4>1, <5>1, <5>2
      <4> QED
        BY <4>2, BareEndpoint
    <3> QED
      BY <2>1, <3>1 DEF clean_profiles, Endpoints
  <2> QED
    BY <2>2 DEF clean_profiles, Endpoints
<1>3. \A u \in Patch : Updated(u) \in Endpoint
  BY DEF Patch, Updated, Endpoint
<1>4. ASSUME NEW u \in Patch
      PROVE  apply_endpoint_update(u) \in AgentState /\ apply_endpoint_update(u).rev = mem.rev
  <2>1. u.profile \in Profiles /\ Updated(u) \in Endpoint
    BY <1>3 DEF Patch
  <2>2. mem.rev \in 0 .. MaxRev /\ mem.eps \in Endpoints /\ mem \in AgentState
    BY DEF TypeOK, AgentState
  <2>3. [mem.eps EXCEPT ![u.profile] = Updated(u)] \in Endpoints
    BY <2>1, <2>2 DEF Endpoints
  <2> QED
    BY <2>2, <2>3 DEF apply_endpoint_update, AgentState
<1> QED
  BY <1>1, <1>2, <1>3, <1>4

(* What a handed-out command becomes. *)
LEMMA DeliveredType ==
    ASSUME NEW c \in Command
    PROVE  Delivered(c) \in Command /\ Delivered(c).work = c.work
<1> DEFINE a == IF c.attempts < MaxAttempts THEN c.attempts + 1 ELSE c.attempts
<1>1. a \in 0 .. MaxAttempts
  BY BoundsAssumption DEF Command
<1> HIDE DEF a
<1>2. [c EXCEPT !.status = "delivered", !.attempts = a] \in Command
  BY <1>1 DEF Command
<1>3. [c EXCEPT !.status = "delivered", !.attempts = a].work = c.work
  BY DEF Command
<1> QED
  BY <1>2, <1>3 DEF Delivered, a

(* Handing out commands keeps the queue's type and every command's work. *)
LEMMA HandOutKeeps ==
    ASSUME TypeOK, NEW due \in SUBSET Retriable, HandOut(due)
    PROVE  /\ cmds' \subseteq Command
           /\ \A c \in cmds' : \E d \in cmds : d.work = c.work
           /\ {[id |-> c.id, work |-> c.work] : c \in Ready(due)} \subseteq [id : CmdIds, work : Work]
           /\ Ready(due) \subseteq cmds
<1>1. Ready(due) \subseteq cmds
  BY DEF Ready, Retriable
<1>2. \A c \in cmds : c \in Command
  BY DEF TypeOK
<1>3. \A c \in cmds' : (c \in cmds) \/ (\E d \in cmds : c = Delivered(d))
  BY <1>1 DEF HandOut
<1>4. \A c \in cmds' : c \in Command /\ \E d \in cmds : d.work = c.work
  BY <1>2, <1>3, DeliveredType
<1>5. {[id |-> c.id, work |-> c.work] : c \in Ready(due)} \subseteq [id : CmdIds, work : Work]
  BY <1>1, <1>2 DEF Command
<1> QED
  BY <1>1, <1>4, <1>5

(* The Hub's part of a request of the agent. *)
LEMMA ProcessStep ==
    ASSUME Inv, NEW m \in Message, Process(m), mem' = mem, saved' = saved,
           kern' = kern, batch' = batch
    PROVE  /\ cmds' \subseteq Command
           /\ rev' = rev /\ server' = server /\ tomb' = tomb
           /\ RevInv' /\ CmdInv' /\ OrderInv' /\ AppliedIsDesired'
<1> USE DEF Inv
<1>1. rev' = rev /\ server' = server /\ tomb' = tomb
  BY DEF Process
<1>2. CASE cmds' \subseteq cmds
  <2>1. cmds' \subseteq Command
    BY <1>2 DEF TypeOK
  <2>2. saved'.rev <= mem.rev
    BY DEF RevInv
  <2>3. mem'.rev = mem.rev /\ batch' \subseteq batch
    OBVIOUS
  <2>4. \A c \in cmds' : IsServer(c.work) => \E d \in cmds : d.work = c.work
    BY <1>2
  <2>5. RevInv' /\ CmdInv' /\ OrderInv' /\ AppliedIsDesired'
    BY <1>1, <2>2, <2>3, <2>4, FewerCommands
  <2> QED
    BY <1>1, <2>1, <2>5
<1>3. CASE m.kind # "ack" /\ m.rev < rev
  <2> DEFINE w == IF server # NoServer THEN ApplyWork(rev, server) ELSE DeleteWork(rev, tomb)
  <2>1. m.rev \in Nat /\ rev \in 1 .. MaxRev
    BY <1>3, BoundsAssumption DEF Message, TypeOK
  <2>2. w \in Work /\ IsServer(w) /\ w.rev = rev /\ FromDocument(w)
    <3>1. CASE server # NoServer
      <4>1. server \in Server /\ w = ApplyWork(rev, server) /\ tomb \in Ifaces
        BY <3>1 DEF TypeOK
      <4> HIDE DEF w
      <4> QED
        BY <2>1, <3>1, <4>1, DocumentWork DEF FromDocument, Says
    <3>2. CASE server = NoServer
      <4>1. tomb \in Ifaces /\ w = DeleteWork(rev, tomb)
        BY <3>2 DEF TypeOK
      <4> HIDE DEF w
      <4>2. w \in Work /\ IsServer(w) /\ w.rev = rev /\ w.act = "delete" /\ w.iface = tomb
        BY <2>1, <4>1 DEF DeleteWork, Work, IsServer
      <4> QED
        BY <3>2, <4>2 DEF FromDocument, Says
    <3> QED
      BY <3>1, <3>2
  <2>3. queue(w)
    BY <1>3 DEF Process, Status
  <2>4. cmds' \subseteq Command
    BY <2>2, <2>3, QueueAdds
  <2> HIDE DEF w
  <2> QED
    BY <1>1, <2>2, <2>3, <2>4, Requeue
<1>4. m.kind = "ack" \/ ~ (m.rev < rev) => cmds' \subseteq cmds
  BY DEF Process, Status
<1> QED
  BY <1>2, <1>3, <1>4
-----------------------------------------------------------------------------
Rest == RevInv /\ CmdInv /\ OrderInv /\ AppliedIsDesired

(* A step that leaves the document, the queue and the agent alone. *)
LEMMA Untouched ==
    ASSUME Inv, rev' = rev, server' = server, tomb' = tomb, cmds' = cmds,
           mem' = mem, saved' = saved, kern' = kern, batch' = batch
    PROVE  Rest'
  BY DEF Inv, Rest, RevInv, CmdInv, OrderInv, AppliedIsDesired, InStep, Fits, FromDocument, Says

(* Faults are counted up to their bound. *)
LEMMA FaultType ==
    ASSUME TypeOK, Fault \/ NoFault
    PROVE  faults' \in 0 .. MaxFaults
  BY BoundsAssumption DEF TypeOK, Fault, NoFault

(* PUT and DELETE make a new revision of the document. *)
LEMMA DocumentStep ==
    ASSUME Inv, Put \/ Delete
    PROVE  TypeOK' /\ Rest'
<1>1. rev \in 0 .. MaxRev /\ rev < MaxRev /\ rev' = rev + 1 /\ rev' \in 1 .. MaxRev
  <2>1. rev < MaxRev /\ rev' = rev + 1
    BY DEF Put, Delete
  <2> QED
    BY <2>1, BoundsAssumption DEF Inv, TypeOK
<1>2. PICK w \in Work :
        /\ SaveAndQueue(w)
        /\ IsServer(w) /\ w.rev = rev + 1 /\ Says(w, server', tomb')
        /\ server' \in Server \cup {NoServer} /\ tomb' \in Ifaces
  <2>1. CASE Put
    <3>1. PICK iface \in Ifaces, sent \in [Profiles -> {"left out", "as read", "bare"}] :
            /\ server' = [iface |-> iface, eps |-> clean_profiles(sent)]
            /\ SaveAndQueue(ApplyWork(rev + 1, server'))
      BY <2>1 DEF Put
    <3>2. server' \in Server
      BY <3>1, EndpointTypes DEF Inv, Server
    <3>3. tomb' = tomb /\ tomb \in Ifaces
      BY <2>1 DEF Put, Inv, TypeOK
    <3> DEFINE w == ApplyWork(rev + 1, server')
    <3>4. w \in Work /\ IsServer(w) /\ w.rev = rev + 1 /\ w.act = "apply" /\ w.iface = server'.iface
      <4>1. server'.iface \in Ifaces /\ server'.eps \in Endpoints
        BY <3>2 DEF Server
      <4> QED
        BY <1>1, <4>1 DEF ApplyWork, Work, IsServer
    <3>5. SaveAndQueue(w)
      BY <3>1
    <3> HIDE DEF w
    <3>6. Says(w, server', tomb')
      BY <3>2, <3>4, NoServerAssumption DEF Says
    <3> QED
      BY <3>2, <3>3, <3>4, <3>5, <3>6
  <2>2. CASE Delete
    <3>1. server' = NoServer /\ tomb' \in Ifaces
      BY <2>2, IfaceAssumption DEF Delete, Inv, TypeOK, Server
    <3> DEFINE w == DeleteWork(rev + 1, tomb')
    <3>2. w \in Work /\ IsServer(w) /\ w.rev = rev + 1 /\ w.act = "delete" /\ w.iface = tomb'
      BY <1>1, <3>1 DEF DeleteWork, Work, IsServer
    <3>3. SaveAndQueue(w)
      BY <2>2 DEF Delete
    <3> HIDE DEF w
    <3>4. Says(w, server', tomb')
      BY <3>1, <3>2 DEF Says
    <3> QED
      BY <3>1, <3>2, <3>3, <3>4
  <2> QED
    BY <2>1, <2>2
<1>3. queue(w) \/ cmds' = cmds
  BY <1>2 DEF SaveAndQueue
<1>4. mem' = mem /\ saved' = saved /\ kern' = kern /\ batch' = batch
  BY DEF Put, Delete, agentVars
<1>5. Rest'
  BY <1>1, <1>2, <1>3, <1>4, NewRevision DEF Rest
<1>6. cmds' \subseteq Command
  BY <1>2, <1>3, QueueAdds DEF Inv, TypeOK
<1>7. faults' \in 0 .. MaxFaults
  BY <1>2, FaultType DEF Inv, SaveAndQueue
<1>8. UNCHANGED <<seen, patches, obs, mem, saved, kern, pc, batch, acks, late>>
  BY DEF Put, Delete, agentVars
<1>9. rev' \in 0 .. MaxRev
  BY <1>1, BoundsAssumption
<1>10. TypeOK'
  BY <1>2, <1>6, <1>7, <1>8, <1>9 DEF Inv, TypeOK
<1> QED
  BY <1>5, <1>10

(* An endpoint update touches one profile and the queue of its scope. *)
LEMMA EndpointStep ==
    ASSUME Inv, NEW u \in patches, update_endpoint(u)
    PROVE  TypeOK' /\ Rest'
<1>1. u \in Patch /\ u.profile \in Profiles /\ u.expected \in Nat
  BY DEF Inv, TypeOK, Patch
<1>2. server \in Server /\ server # NoServer
  BY <1>1 DEF Inv, TypeOK, update_endpoint, Matches, Current, None
<1>3. Updated(u) \in Endpoint
  BY <1>1, EndpointTypes DEF Inv
<1>4. server' \in Server /\ server'.iface = server.iface
  BY <1>1, <1>2, <1>3 DEF update_endpoint, Server, Endpoints
<1> DEFINE w == [act |-> "endpoint", rev |-> u.expected + 1, patch |-> u]
<1>5. w \in Work /\ ~ IsServer(w)
  BY <1>1 DEF Work, IsServer
<1>6. queue(w) \/ cmds' = cmds
  BY DEF update_endpoint, SaveAndQueue
<1>7. faults' \in 0 .. MaxFaults
  BY FaultType DEF Inv, update_endpoint, SaveAndQueue
<1> HIDE DEF w
<1>8. /\ cmds' \subseteq Command
      /\ \A c \in cmds' : IsServer(c.work) => \E d \in cmds : d.work = c.work
  BY <1>5, <1>6, QueueAdds DEF Inv, TypeOK
<1>9. /\ mem' = mem /\ saved' = saved /\ kern' = kern /\ batch' = batch
      /\ rev' = rev /\ tomb' = tomb
  BY DEF update_endpoint, agentVars
<1>10. server' # NoServer
  BY <1>4, NoServerAssumption
<1>11. saved'.rev <= mem.rev
  BY <1>9 DEF Inv, RevInv
<1>12. Rest'
  BY <1>2, <1>4, <1>8, <1>9, <1>10, <1>11, FewerCommands DEF Rest
<1>13. TypeOK'
  BY <1>4, <1>7, <1>8, <1>9 DEF Inv, TypeOK, update_endpoint, agentVars
<1> QED
  BY <1>12, <1>13

(* Reading the document, observing an endpoint, a refused update. *)
LEMMA AppStep ==
    ASSUME Inv, \/ AppRead
                \/ \E p \in Profiles : Observe(p)
                \/ \E u \in patches : endpoint_conflict(u)
    PROVE  TypeOK' /\ Rest'
<1>1. CASE AppRead
  <2>1. seen' \in [rev : 0 .. MaxRev, eps : Endpoints]
    BY <1>1, EndpointTypes DEF AppRead, Inv, TypeOK
  <2>2. TypeOK'
    BY <1>1, <2>1 DEF AppRead, Inv, TypeOK, hubVars, agentVars
  <2> QED
    BY <1>1, <2>2, Untouched DEF AppRead, hubVars, agentVars
<1>2. ASSUME NEW p \in Profiles, Observe(p) PROVE TypeOK' /\ Rest'
  <2>1. Current[p].rev \in Nat
    BY <1>2, EndpointTypes DEF Inv, Observe, Endpoints, Endpoint
  <2>2. obs' \in 0 .. MaxObs /\ obs + 1 \in 1 .. MaxObs
    BY <1>2, BoundsAssumption DEF Observe, Inv, TypeOK
  <2>3. [profile |-> p, expected |-> Current[p].rev, val |-> obs + 1] \in Patch
    BY <2>1, <2>2 DEF Patch
  <2>4. patches' \subseteq Patch
    BY <1>2, <2>3 DEF Observe, Inv, TypeOK
  <2>5. TypeOK'
    BY <1>2, <2>2, <2>4 DEF Observe, Inv, TypeOK, hubVars, agentVars
  <2> QED
    BY <1>2, <2>5, Untouched DEF Observe, hubVars, agentVars
<1>3. ASSUME NEW u \in patches, endpoint_conflict(u) PROVE TypeOK' /\ Rest'
  <2>1. TypeOK'
    BY <1>3 DEF endpoint_conflict, Inv, TypeOK, hubVars, agentVars
  <2> QED
    BY <1>3, <2>1, Untouched DEF endpoint_conflict, hubVars, agentVars
<1> QED
  BY <1>1, <1>2, <1>3
-----------------------------------------------------------------------------
(* The agent receives commands: they have the revision of the open ones. *)
LEMMA PollStep ==
    ASSUME Inv, AgentPoll \/ PollLost
    PROVE  TypeOK' /\ Rest'
<1>1. PICK due \in SUBSET Retriable :
        /\ HandOut(due)
        /\ \/ batch' = {[id |-> c.id, work |-> c.work] : c \in Ready(due)}
           \/ batch' = batch
  BY DEF AgentPoll, PollLost
<1>2. /\ cmds' \subseteq Command
      /\ \A c \in cmds' : \E d \in cmds : d.work = c.work
      /\ {[id |-> c.id, work |-> c.work] : c \in Ready(due)} \subseteq [id : CmdIds, work : Work]
      /\ Ready(due) \subseteq cmds
  BY <1>1, HandOutKeeps DEF Inv
<1>3. /\ rev' = rev /\ server' = server /\ tomb' = tomb
      /\ mem' = mem /\ saved' = saved /\ kern' = kern
      /\ UNCHANGED <<seen, patches, obs, acks, late>>
  BY DEF AgentPoll, PollLost, appVars
<1>4. pc' \in {"poll", "apply", "status", "save"} /\ faults' \in 0 .. MaxFaults
  BY FaultType DEF Inv, AgentPoll, PollLost
<1>5. TypeOK'
  <2>1. batch' \subseteq [id : CmdIds, work : Work]
    BY <1>1, <1>2 DEF Inv, TypeOK
  <2> QED
    BY <1>2, <1>3, <1>4, <2>1 DEF Inv, TypeOK
<1>6. Rest'
  <2>1. RevInv' /\ AppliedIsDesired'
    BY <1>3 DEF Inv, RevInv, AppliedIsDesired, InStep
  <2>2. CASE batch' = batch
    <3>1. saved'.rev <= mem.rev
      BY <1>3 DEF Inv, RevInv
    <3> QED
      BY <1>2, <1>3, <2>2, <3>1, FewerCommands DEF Rest
  <2>3. CASE batch' = {[id |-> c.id, work |-> c.work] : c \in Ready(due)}
    <3>1. \A b \in batch' : \E d \in cmds : d.work = b.work
      BY <1>2, <2>3
    <3>2. CmdInv'
      BY <1>2, <1>3, <3>1 DEF Inv, CmdInv, Fits, FromDocument, Says
    <3>3. \A c \in cmds : IsServer(c.work) => c.work.rev \in Nat
      BY WorkFields DEF Inv, TypeOK, Command
    <3>4. OrderInv'
      BY <1>2, <1>3, <3>1, <3>3 DEF Inv, OrderInv
    <3> QED
      BY <2>1, <3>2, <3>4 DEF Rest
  <2> QED
    BY <1>1, <2>2, <2>3
<1> QED
  BY <1>5, <1>6

(* What an applied or half-applied command does to the interfaces: none goes *)
(* back to an older revision, and none passes the open commands.             *)
LEMMA TouchedKeeps ==
    ASSUME Inv, NEW b \in batch, IsServer(b.work), NEW st \in {"absent", "partial", "set"},
           rev' = rev, cmds' = cmds, batch' \subseteq batch, kern' = Touched(b.work, st)
    PROVE  /\ kern' \in [Ifaces -> Interface]
           /\ OrderInv'
           /\ \A i \in Ifaces : kern'[i].rev >= kern[i].rev
           /\ kern'[b.work.iface] = [rev |-> b.work.rev, state |-> st]
<1>1. b.work \in Work /\ b.work.rev \in 1 .. MaxRev /\ b.work.iface \in Ifaces
  BY WorkFields DEF Inv, TypeOK
<1>2. [rev |-> b.work.rev, state |-> st] \in Interface
  BY <1>1, BoundsAssumption DEF Interface
<1>3. kern \in [Ifaces -> Interface]
  BY DEF Inv, TypeOK
<1>4. /\ kern' \in [Ifaces -> Interface]
      /\ kern'[b.work.iface] = [rev |-> b.work.rev, state |-> st]
      /\ \A i \in Ifaces : i # b.work.iface => kern'[i] = kern[i]
  BY <1>1, <1>2, <1>3 DEF Touched
<1>5. \A i \in Ifaces : kern'[i].rev = kern[i].rev \/ kern'[i].rev = b.work.rev
  BY <1>4
<1>6. \A i \in Ifaces : kern[i].rev \in Nat /\ kern[i].rev <= b.work.rev
  BY <1>3, BoundsAssumption DEF Inv, OrderInv, Interface
<1>7. \A i \in Ifaces : kern'[i].rev >= kern[i].rev
  BY <1>1, <1>5, <1>6
<1>8. b.work.rev <= rev
  BY DEF Inv, CmdInv, Fits
<1>9. OrderInv'
  BY <1>1, <1>5, <1>8 DEF Inv, OrderInv
<1> QED
  BY <1>4, <1>7, <1>9

(* What taking a command leaves alone. *)
LEMMA TakeKeeps ==
    ASSUME Inv, NEW b \in batch, Take(b), Fault \/ NoFault,
           mem' \in AgentState, kern' \in [Ifaces -> Interface]
    PROVE  /\ TypeOK' /\ CmdInv'
           /\ UNCHANGED <<rev, server, tomb, cmds, saved>> /\ batch' \subseteq batch
<1>1. /\ UNCHANGED <<rev, server, tomb, cmds, saved>> /\ batch' \subseteq batch
      /\ UNCHANGED <<seen, patches, obs, pc, late>>
  BY DEF Take, hubVars, appVars
<1>2. acks' \subseteq CmdIds
  BY DEF Take, Inv, TypeOK
<1>3. faults' \in 0 .. MaxFaults
  BY FaultType DEF Inv
<1>4. TypeOK'
  BY <1>1, <1>2, <1>3 DEF Inv, TypeOK
<1>5. CmdInv'
  BY <1>1 DEF Inv, CmdInv, Fits, FromDocument, Says
<1> QED
  BY <1>1, <1>4, <1>5

(* A server command is applied. *)
LEMMA ApplyStep ==
    ASSUME Inv, NEW b \in batch, AgentApply(b)
    PROVE  TypeOK' /\ Rest' /\ \A i \in Ifaces : kern'[i].rev >= kern[i].rev
<1> DEFINE st == IF b.work.act = "apply" THEN "set" ELSE "absent"
<1>1. /\ Take(b) /\ NoFault /\ IsServer(b.work) /\ b.work.rev > mem.rev
      /\ kern' = Touched(b.work, st)
      /\ mem'.rev = b.work.rev
  BY DEF AgentApply, IsNews, IsServer, Applied
<1>2. rev' = rev /\ cmds' = cmds /\ batch' \subseteq batch
  BY <1>1 DEF Take, hubVars
<1>3. st \in {"absent", "partial", "set"}
  OBVIOUS
<1>4. /\ kern' \in [Ifaces -> Interface]
      /\ OrderInv'
      /\ \A i \in Ifaces : kern'[i].rev >= kern[i].rev
      /\ kern'[b.work.iface] = [rev |-> b.work.rev, state |-> st]
  <2> HIDE DEF st
  <2> QED
    BY <1>1, <1>2, <1>3, TouchedKeeps
<1>5. b.work \in Work /\ b.work.rev \in 0 .. MaxRev
  BY <1>1, WorkFields DEF Inv, TypeOK
<1>6. mem' \in AgentState
  <2>1. mem.eps \in Endpoints
    BY DEF Inv, TypeOK, AgentState
  <2>2. CASE b.work.act = "apply"
    BY <1>5, <2>2, WorkFields DEF AgentApply, AgentState
  <2>3. CASE b.work.act # "apply"
    BY <1>5, <2>1, <2>3 DEF AgentApply, AgentState
  <2> QED
    BY <2>2, <2>3
<1>7. /\ TypeOK' /\ CmdInv'
      /\ UNCHANGED <<rev, server, tomb, cmds, saved>>
  BY <1>1, <1>4, <1>6, TakeKeeps
<1>8. b.work.rev <= rev /\ (b.work.rev = rev => FromDocument(b.work))
  BY <1>1 DEF Inv, CmdInv, Fits
<1>9. RevInv'
  <2>1. saved.rev \in Nat /\ mem.rev \in Nat /\ b.work.rev \in Nat
    BY <1>5, BoundsAssumption DEF Inv, TypeOK, AgentState
  <2> QED
    BY <1>1, <1>7, <1>8, <2>1 DEF Inv, RevInv
<1>10. AppliedIsDesired'
  <2> SUFFICES ASSUME b.work.rev = rev PROVE InStep'
    BY <1>1, <1>7 DEF AppliedIsDesired
  <2>1. CASE server # NoServer
    BY <1>4, <1>7, <1>8, <2>1 DEF FromDocument, Says, InStep
  <2>2. CASE server = NoServer
    <3>1. b.work.iface = tomb /\ st = "absent"
      BY <1>8, <2>2 DEF FromDocument, Says
    <3> HIDE DEF st
    <3> QED
      BY <1>4, <1>7, <2>2, <3>1 DEF InStep
  <2> QED
    BY <2>1, <2>2
<1> QED
  BY <1>4, <1>7, <1>9, <1>10 DEF Rest

(* An apply fails: the agent was behind and stays behind. *)
LEMMA ApplyFailsStep ==
    ASSUME Inv, NEW b \in batch, AgentApplyFails(b)
    PROVE  TypeOK' /\ Rest' /\ \A i \in Ifaces : kern'[i].rev >= kern[i].rev
<1>1. /\ Take(b) /\ Fault /\ IsServer(b.work) /\ b.work.rev > mem.rev /\ mem' = mem
      /\ kern' = kern \/ kern' = Touched(b.work, "partial")
  BY DEF AgentApplyFails, IsNews, IsServer
<1>2. rev' = rev /\ cmds' = cmds /\ batch' \subseteq batch
  BY <1>1 DEF Take, hubVars
<1>3. /\ kern' \in [Ifaces -> Interface]
      /\ OrderInv'
      /\ \A i \in Ifaces : kern'[i].rev >= kern[i].rev
  <2>1. CASE kern' = kern
    <3>1. kern \in [Ifaces -> Interface] /\ \A i \in Ifaces : kern[i].rev \in Nat
      BY BoundsAssumption DEF Inv, TypeOK, Interface
    <3> QED
      BY <1>2, <2>1, <3>1 DEF Inv, OrderInv
  <2>2. CASE kern' = Touched(b.work, "partial")
    BY <1>1, <1>2, <2>2, TouchedKeeps
  <2> QED
    BY <1>1, <2>1, <2>2
<1>4. /\ TypeOK' /\ CmdInv'
      /\ UNCHANGED <<rev, server, tomb, cmds, saved>>
  <2>1. mem' \in AgentState
    BY <1>1 DEF Inv, TypeOK
  <2> QED
    BY <1>1, <1>3, <2>1, TakeKeeps
<1>5. mem.rev # rev
  <2>1. b.work \in Work /\ b.work.rev \in Nat /\ mem.rev \in Nat /\ rev \in Nat
    BY WorkFields, BoundsAssumption DEF Inv, TypeOK, AgentState
  <2> QED
    BY <1>1, <2>1 DEF Inv, CmdInv, Fits
<1>6. RevInv' /\ AppliedIsDesired'
  BY <1>1, <1>4, <1>5 DEF Inv, RevInv, AppliedIsDesired
<1> QED
  BY <1>3, <1>4, <1>6 DEF Rest

(* A command the agent refuses or already has, and an endpoint update. *)
LEMMA QuietStep ==
    ASSUME Inv, NEW b \in batch, AgentSkip(b) \/ AgentEndpoint(b)
    PROVE  TypeOK' /\ Rest' /\ kern' = kern
<1>1. Take(b) /\ NoFault /\ kern' = kern
  BY DEF AgentSkip, AgentEndpoint
<1>2. mem' \in AgentState /\ mem'.rev = mem.rev
  <2>1. CASE AgentSkip(b)
    BY <2>1 DEF AgentSkip, Inv, TypeOK
  <2>2. CASE AgentEndpoint(b)
    <3>1. b.work \in Work /\ ~ IsServer(b.work)
      BY <2>2 DEF AgentEndpoint, Inv, TypeOK, IsServer
    <3>2. b.work.patch \in Patch
      BY <3>1, WorkFields
    <3> QED
      BY <2>2, <3>2, EndpointTypes DEF AgentEndpoint, Inv
  <2> QED
    BY <2>1, <2>2
<1>3. kern' \in [Ifaces -> Interface]
  BY <1>1 DEF Inv, TypeOK
<1>4. /\ TypeOK' /\ UNCHANGED <<rev, server, tomb, cmds, saved>> /\ batch' \subseteq batch
  BY <1>1, <1>2, <1>3, TakeKeeps
<1>5. saved'.rev <= mem.rev
  BY <1>4 DEF Inv, RevInv
<1>6. Rest'
  BY <1>1, <1>2, <1>4, <1>5, FewerCommands DEF Rest
<1> QED
  BY <1>1, <1>4, <1>6

(* The agent's requests. *)
LEMMA MessageTypes ==
    ASSUME TypeOK
    PROVE  AckMessage \in Message /\ StatusMessage \in Message
  BY DEF TypeOK, Message, AckMessage, StatusMessage, AgentState

(* A request of the agent is processed, at once or late. *)
LEMMA RequestStep ==
    ASSUME Inv, AgentAck \/ AgentStatus \/ DeliverLate
    PROVE  TypeOK' /\ Rest' /\ kern' = kern
<1>1. PICK m \in Message : Process(m) /\ late' \subseteq late \cup {m}
  BY MessageTypes DEF AgentAck, AgentStatus, DeliverLate, AgentPost, Inv, TypeOK
<1>2. /\ UNCHANGED <<seen, patches, obs, mem, saved, kern, batch>>
      /\ acks' \subseteq acks /\ pc' \in {pc, "status", "save"}
      /\ faults' = faults \/ Fault
  BY DEF AgentAck, AgentStatus, DeliverLate, AgentPost, appVars, agentVars, NoFault
<1>3. /\ cmds' \subseteq Command
      /\ rev' = rev /\ server' = server /\ tomb' = tomb
      /\ Rest'
  BY <1>1, <1>2, ProcessStep DEF Rest
<1>4. faults' \in 0 .. MaxFaults
  BY <1>2, FaultType DEF Inv, NoFault
<1>5. TypeOK'
  BY <1>1, <1>2, <1>3, <1>4 DEF Inv, TypeOK
<1> QED
  BY <1>2, <1>3, <1>5

(* Steps that leave the Hub and the kernel alone: a failed or lost request, *)
(* the state file.                                                          *)
LEMMA LocalStep ==
    ASSUME Inv, AgentAckFails \/ AgentStatusFails \/ AgentSave \/ LoseLate
    PROVE  TypeOK' /\ Rest' /\ kern' = kern
<1>1. /\ UNCHANGED <<rev, server, tomb, cmds, seen, patches, obs, mem, kern, batch>>
      /\ saved' \in {saved, mem}
      /\ acks' \subseteq acks /\ pc' \in {pc, "poll", "save"}
      /\ faults' = faults \/ Fault
  BY DEF AgentAckFails, AgentStatusFails, AgentPostFails, AgentSave, LoseLate,
         hubVars, appVars, agentVars
<1>2. late' \subseteq Message
  BY MessageTypes
  DEF AgentAckFails, AgentStatusFails, AgentPostFails, AgentSave, LoseLate, Inv, TypeOK
<1>3. faults' \in 0 .. MaxFaults
  BY <1>1, FaultType DEF Inv, NoFault
<1>4. TypeOK'
  BY <1>1, <1>2, <1>3 DEF Inv, TypeOK
<1>5. saved'.rev <= mem.rev
  BY <1>1, BoundsAssumption DEF Inv, RevInv, TypeOK, AgentState
<1>6. Rest'
  BY <1>1, <1>5, FewerCommands DEF Rest
<1> QED
  BY <1>1, <1>4, <1>6

(* A restart goes back to an older state file, never to a newer one. *)
LEMMA RestartStep ==
    ASSUME Inv, AgentRestart
    PROVE  TypeOK' /\ Rest' /\ kern' = kern
<1>1. /\ UNCHANGED <<rev, server, tomb, cmds, seen, patches, obs, saved, kern, late>>
      /\ mem' = saved /\ pc' = "poll" /\ batch' = {} /\ acks' = {}
  BY DEF AgentRestart, hubVars, appVars
<1>2. faults' \in 0 .. MaxFaults
  BY FaultType DEF Inv, AgentRestart
<1>3. TypeOK'
  BY <1>1, <1>2 DEF Inv, TypeOK
<1>4. saved.rev \in Nat /\ mem.rev \in Nat /\ rev \in Nat
  BY BoundsAssumption DEF Inv, TypeOK, AgentState
<1>5. RevInv'
  BY <1>1, <1>4 DEF Inv, RevInv
<1>6. AppliedIsDesired'
  BY <1>1, <1>4 DEF Inv, RevInv, AppliedIsDesired, InStep
<1>7. CmdInv' /\ OrderInv'
  BY <1>1 DEF Inv, CmdInv, OrderInv, Fits, FromDocument, Says
<1> QED
  BY <1>1, <1>3, <1>5, <1>6, <1>7 DEF Rest

(* A reboot: nothing is configured, and the agent knows of no revision. *)
LEMMA RebootStep ==
    ASSUME Inv, Reboot
    PROVE  TypeOK' /\ Rest' /\ kern' = NoInterfaces
<1>1. /\ UNCHANGED <<rev, server, tomb, cmds, seen, patches, obs, late>>
      /\ mem' = Blank /\ saved' = Blank /\ pc' = "poll" /\ batch' = {} /\ acks' = {}
      /\ kern' = NoInterfaces
  BY DEF Reboot, hubVars, appVars
<1>2. faults' \in 0 .. MaxFaults
  BY FaultType DEF Inv, Reboot
<1>3. Blank \in AgentState /\ NoInterfaces \in [Ifaces -> Interface]
  BY BoundsAssumption DEF Blank, AgentState, None, Endpoints, NoInterfaces, Interface
<1>4. TypeOK'
  BY <1>1, <1>2, <1>3 DEF Inv, TypeOK
<1>5. rev \in Nat /\ Blank.rev = 0 /\ \A i \in Ifaces : NoInterfaces[i].rev = 0
  BY BoundsAssumption DEF Inv, TypeOK, Blank, NoInterfaces
<1>6. RevInv' /\ AppliedIsDesired'
  BY <1>1, <1>5 DEF Inv, RevInv, AppliedIsDesired, InStep
<1>7. CmdInv'
  BY <1>1 DEF Inv, CmdInv, Fits, FromDocument, Says
<1>8. \A c \in cmds : c.work.rev \in Nat
  BY WorkFields DEF Inv, TypeOK, Command
<1>9. OrderInv'
  BY <1>1, <1>5, <1>8 DEF Inv, OrderInv
<1> QED
  BY <1>1, <1>4, <1>6, <1>7, <1>9 DEF Rest
-----------------------------------------------------------------------------
Upward == kern' # NoInterfaces => \A i \in Ifaces : kern'[i].rev >= kern[i].rev

(* Interfaces that are left alone do not go back. *)
LEMMA SameInterfaces ==
    ASSUME Inv, kern' = kern
    PROVE  Upward
  BY BoundsAssumption DEF Inv, TypeOK, Interface, Upward

(* Every step keeps the invariant and takes no interface back. *)
LEMMA Step == Inv /\ [Next]_vars => Inv' /\ Upward
<1> SUFFICES ASSUME Inv, [Next]_vars PROVE TypeOK' /\ Rest' /\ Upward
  BY DEF Inv, Rest
<1>1. CASE Put \/ Delete
  BY <1>1, DocumentStep, SameInterfaces DEF Put, Delete, agentVars
<1>2. ASSUME NEW u \in patches, update_endpoint(u) PROVE TypeOK' /\ Rest' /\ Upward
  BY <1>2, EndpointStep, SameInterfaces DEF update_endpoint, agentVars
<1>3. CASE AppRead \/ (\E p \in Profiles : Observe(p)) \/ (\E u \in patches : endpoint_conflict(u))
  <2>1. kern' = kern
    BY <1>3 DEF AppRead, Observe, endpoint_conflict, agentVars
  <2> QED
    BY <1>3, <2>1, AppStep, SameInterfaces
<1>4. CASE AgentPoll \/ PollLost
  BY <1>4, PollStep, SameInterfaces DEF AgentPoll, PollLost
<1>5. ASSUME NEW b \in batch, AgentApply(b) PROVE TypeOK' /\ Rest' /\ Upward
  BY <1>5, ApplyStep DEF Upward
<1>6. ASSUME NEW b \in batch, AgentApplyFails(b) PROVE TypeOK' /\ Rest' /\ Upward
  BY <1>6, ApplyFailsStep DEF Upward
<1>7. ASSUME NEW b \in batch, AgentSkip(b) \/ AgentEndpoint(b)
      PROVE  TypeOK' /\ Rest' /\ Upward
  BY <1>7, QuietStep, SameInterfaces
<1>8. CASE AgentAck \/ AgentStatus \/ DeliverLate
  BY <1>8, RequestStep, SameInterfaces
<1>9. CASE AgentAckFails \/ AgentStatusFails \/ AgentSave \/ LoseLate
  BY <1>9, LocalStep, SameInterfaces
<1>10. CASE AgentRestart
  BY <1>10, RestartStep, SameInterfaces
<1>11. CASE Reboot
  BY <1>11, RebootStep DEF Upward
<1>12. CASE UNCHANGED vars
  <2>1. TypeOK'
    BY <1>12 DEF Inv, TypeOK, vars
  <2> QED
    BY <1>12, <2>1, Untouched, SameInterfaces DEF vars
<1> QED
  BY <1>1, <1>2, <1>3, <1>4, <1>5, <1>6, <1>7, <1>8, <1>9, <1>10, <1>11, <1>12
  DEF Next, AgentStep

(* The types, the revisions and the order of the commands, in every state. *)
THEOREM WireGuardInvariant == Spec => []Inv
<1>1. Inv /\ [Next]_vars => Inv'
  BY Step
<1> QED
  BY <1>1, InitInv, PTL DEF Spec

(* Whenever the agent's revision is the document's, the kernel is          *)
(* configured as the document says: the revision that agent.rs records     *)
(* after apply_server is never a claim the router does not fulfil.         *)
THEOREM AgentTellsTheTruth == Spec => []AppliedIsDesired
<1>1. Inv => AppliedIsDesired
  BY DEF Inv
<1> QED
  BY <1>1, WireGuardInvariant, PTL

(* No step but a reboot takes an interface back to an older revision of the *)
(* document: the guards of sync_wireguard and of queue are enough, without  *)
(* any assumption on the order or the number of deliveries.                 *)
THEOREM RouterNeverGoesBack == Spec => NoDowngrade
<1>1. Inv /\ [Next]_vars => [Upward]_vars
  BY Step
<1> QED
  BY <1>1, WireGuardInvariant, PTL DEF Spec, NoDowngrade, Upward

(* The document, the queue, the agent's state and the kernel's interfaces   *)
(* keep their types; no command exceeds its attempts.                       *)
THEOREM TypeCorrect == Spec => []TypeOK
<1>1. Inv => TypeOK
  BY DEF Inv
<1> QED
  BY <1>1, WireGuardInvariant, PTL

(* The steps that may end Settled: a new revision, a restart, a reboot. *)
StaysSettled == [][Settled => Settled' \/ Put \/ Delete \/ AgentRestart \/ Reboot]_vars

(* A router that runs what the document says goes on doing so: neither a    *)
(* command delivered again or late, nor a late report, nor a lost answer,   *)
(* nor an endpoint update takes it away from the document.  Only a new      *)
(* revision, an agent that restarts from an older state file or a reboot    *)
(* do, and those the next status report repairs (Convergence).              *)
THEOREM SettledRouterStays == Spec => StaysSettled
<1> DEFINE A == Settled => Settled' \/ Put \/ Delete \/ AgentRestart \/ Reboot
<1>1. Inv /\ Inv' /\ [Next]_vars => [A]_vars
  <2> SUFFICES ASSUME Inv, Inv', Next, Settled, ~ (Put \/ Delete \/ AgentRestart \/ Reboot)
               PROVE  Settled'
    OBVIOUS
  <2>1. rev' = rev /\ mem'.rev = mem.rev
    <3> USE DEF hubVars, appVars, agentVars
    <3>1. CASE \E u \in patches : update_endpoint(u) \/ endpoint_conflict(u)
      BY <3>1 DEF update_endpoint, endpoint_conflict
    <3>2. CASE AppRead \/ \E p \in Profiles : Observe(p)
      BY <3>2 DEF AppRead, Observe
    <3>3. CASE AgentPoll \/ PollLost
      BY <3>3 DEF AgentPoll, PollLost
    <3>4. ASSUME NEW b \in batch, AgentApply(b) \/ AgentApplyFails(b) PROVE FALSE
      <4>1. b.work.act # "endpoint" /\ b.work.rev > mem.rev
        BY <3>4 DEF AgentApply, AgentApplyFails, IsNews
      <4>2. b.work.rev <= rev  BY <4>1 DEF Inv, CmdInv, Fits, IsServer
      <4>3. rev \in Nat /\ b.work.rev \in Nat
        <5>1. b.work \in Work  BY DEF Inv, TypeOK
        <5>2. b.work.rev \in Nat  BY <5>1, WorkFields
        <5> QED  BY <5>2, BoundsAssumption DEF Inv, TypeOK
      <4> QED  BY <4>1, <4>2, <4>3 DEF Settled
    <3>5. ASSUME NEW b \in batch, AgentSkip(b) \/ AgentEndpoint(b)
          PROVE  rev' = rev /\ mem'.rev = mem.rev
      <4>1. mem \in AgentState  BY DEF Inv, TypeOK
      <4> QED  BY <3>5, <4>1 DEF AgentSkip, AgentEndpoint, Take, apply_endpoint_update, AgentState
    <3>6. CASE AgentAck \/ AgentStatus \/ DeliverLate
      BY <3>6 DEF AgentAck, AgentStatus, AgentPost, DeliverLate, Process
    <3>7. CASE AgentAckFails \/ AgentStatusFails \/ AgentSave \/ LoseLate
      BY <3>7 DEF AgentAckFails, AgentStatusFails, AgentPostFails, AgentSave, LoseLate
    <3> QED  BY <3>1, <3>2, <3>3, <3>4, <3>5, <3>6, <3>7 DEF Next, AgentStep
  <2> QED  BY <2>1 DEF Settled, Inv, AppliedIsDesired
<1>2. StaysSettled <=> [][A]_vars  BY DEF StaysSettled
<1> HIDE DEF A
<1> QED  BY <1>1, <1>2, WireGuardInvariant, PTL DEF Spec
=============================================================================
