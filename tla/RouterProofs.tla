---------------------------- MODULE RouterProofs ----------------------------
(***************************************************************************)
(* Proofs about the Hub's threads that deal with the router, and about the *)
(* commands that update the agent.  One part per component: AgentCommands, *)
(* RouterSession, NatDiagnostic, SlowCache, RouterControl, RevisionSignal, *)
(* RouterCredentials; and what the composed specification keeps.           *)
(***************************************************************************)
EXTENDS Router, FiniteSetTheorems, TLAPS

-----------------------------------------------------------------------------
(* AgentCommands: that an update is shown as completed only when that was   *)
(* earned rests on what holds of every copy of a row: in the document, in   *)
(* the document a worker has loaded and will write back, and in the answer  *)
(* the agent works on (Rows).  Copies of one command agree about its        *)
(* target, because the manifest lock lets only one worker hold a loaded     *)
(* document, and the target is written before the agent can see the row.    *)

(* The members of a sequence. *)
Of(s) == {s[n] : n \in DOMAIN s}

(* Every copy of a row, and every acknowledgement under way. *)
Rows == Of(cmds) \cup Of(agent.todo) \cup UNION {Of(worker[i].doc) : i \in Ids}
Acks == Of(agent.acks) \cup late

(* The router has heard of command i; somebody will say it is completed. *)
Known(i) == install[i].pc # "none" \/ \E a \in Acks : a.id = i
Told(i)  == install[i].pc = "passed" \/ \E a \in Acks : a.id = i /\ a.state = "completed"

(* The version that runs counts for every command there is. *)
Peaked == \A i \in Ids : i <= created => version <= peak[i]

(* One worker at a time is past the manifest lock; only it holds a document. *)
Past == {"fetch", "load", "save"}
Exclusive ==
    /\ \A i, j \in Ids : worker[i].pc \in Past /\ worker[j].pc \in Past => i = j
    /\ \A i \in Ids :
         /\ worker[i].pc # "save" => worker[i].doc = <<>>
         /\ worker[i].pc \in {"load", "save"} /\ worker[i].state = "pending"
              => worker[i].target # None

(* The agent was handed pending rows, and spawns for the first of them. *)
HandedOut ==
    /\ \A n \in DOMAIN agent.todo : agent.todo[n].state = "pending"
    /\ agent.acks # <<>> \/ agent.spawn => agent.todo # <<>>

(* Nothing bears the number of a command that is yet to be created. *)
Fresh ==
    /\ \A r \in Rows : r.id <= created
    /\ \A i \in Ids : worker[i].pc # "off" \/ Known(i) => i <= created

(* The copies of a command agree about what it is. *)
Agree == \A r, s \in Rows : r.id = s.id => r.action = s.action /\ r.target = s.target

(* While its worker runs, a command is preparing in every copy. *)
Running ==
    \A i \in Ids : worker[i].pc # "off" =>
       ~ Known(i) /\ \A r \in Rows : r.id = i => r.state = "preparing"

(* The router only hears of updates that have a target. *)
Targeted ==
    \A r \in Rows : /\ r.action = "update"
                    /\ r.state \in {"pending", "accepted", "completed"} \/ Known(r.id)
                    => r.target # None

(* Who says that an update is completed is right. *)
Earned(r) == r.id \in passed \/ (r.target # None /\ peak[r.id] >= r.target)
Believed ==
    \A r \in Rows : r.action = "update" /\ (r.state = "completed" \/ Told(r.id)) => Earned(r)

Copies == Fresh /\ Agree /\ Running /\ Targeted /\ Believed
CommandInv == TypeOK /\ Peaked /\ Exclusive /\ HandedOut /\ Copies
-----------------------------------------------------------------------------
(* The types of the parts. *)

(* The fields of the records. *)
LEMMA RowFields ==
    ASSUME NEW r \in Row
    PROVE  /\ r.id \in Ids /\ r.action \in {"update", "cleanup"} /\ r.state \in States
           /\ r.target \in Versions \cup {None}
BY DEF Row

LEMMA RowTakesState ==
    ASSUME NEW r \in Row, NEW x \in States
    PROVE  /\ [r EXCEPT !.state = x] \in Row
           /\ [r EXCEPT !.state = x].id = r.id /\ [r EXCEPT !.state = x].action = r.action
           /\ [r EXCEPT !.state = x].state = x /\ [r EXCEPT !.state = x].target = r.target
BY DEF Row

LEMMA AckFields ==
    ASSUME NEW a \in Ack
    PROVE  a.id \in Ids /\ a.state \in {"accepted", "completed", "failed"} /\ a.state \in States
BY DEF Ack, States

LEMMA WorkerFields ==
    ASSUME NEW w \in Worker
    PROVE  /\ w.pc \in {"off", "lock", "fetch", "load", "save"}
           /\ w.seen \in BOOLEAN /\ w.doc \in Seq(Row)
           /\ w.state \in {"pending", "failed"} /\ w.target \in Versions \cup {None}
BY DEF Worker

LEMMA AgentFields ==
    ASSUME NEW g \in Agent
    PROVE  g.todo \in Seq(Row) /\ g.acks \in Seq(Ack) /\ g.spawn \in BOOLEAN
BY DEF Agent

LEMMA OffTypes == Off \in Worker /\ Off.pc = "off" /\ Off.doc = <<>>
                  /\ Off.target = None /\ Off.state = "failed"
BY DEF Off, Worker

LEMMA InstallerTypes ==
    /\ \A x \in Installer : x.old \in Versions
    /\ NoInstaller \in Installer /\ NoInstaller.pc = "none"
BY VersionsAssumption DEF Installer, NoInstaller, Versions

LEMMA QuietTypes == Quiet \in Agent /\ Quiet.todo = <<>> /\ Quiet.acks = <<>> /\ Quiet.spawn = FALSE
BY DEF Quiet, Agent

LEMMA OfEmpty == Of(<<>>) = {}
BY DEF Of

(* Every part of the state has its type. *)
LEMMA TypeFacts ==
    ASSUME TypeOK
    PROVE  /\ keep \in Nat \ {0}
           /\ cmds \in Seq(Row) /\ Len(cmds) \in Nat /\ Len(cmds) <= keep
           /\ created \in Nat /\ created <= MaxCmds
           /\ \A i \in Ids : worker[i] \in Worker /\ Len(worker[i].doc) <= keep
           /\ worker \in [Ids -> Worker]
           /\ agent \in Agent /\ agent.todo \in Seq(Row) /\ agent.acks \in Seq(Ack)
           /\ agent.spawn \in BOOLEAN
           /\ version \in Versions /\ install \in [Ids -> Installer]
           /\ \A i \in Ids : peak[i] \in Nat
<1>0. keep \in Nat \ {0}  BY BoundsAssumption DEF TypeOK
<1>1. cmds \in Seq(Row) /\ Len(cmds) \in Nat /\ Len(cmds) <= keep  BY DEF TypeOK
<1>2. created \in Nat /\ created <= MaxCmds  BY BoundsAssumption DEF TypeOK
<1>3. \A i \in Ids : worker[i] \in Worker /\ Len(worker[i].doc) <= keep  BY DEF TypeOK
<1>4. agent \in Agent  BY DEF TypeOK
<1>5. agent.todo \in Seq(Row) /\ agent.acks \in Seq(Ack) /\ agent.spawn \in BOOLEAN
  BY <1>4, AgentFields
<1>6. worker \in [Ids -> Worker] /\ version \in Versions /\ install \in [Ids -> Installer]
  BY DEF TypeOK
<1>7. \A i \in Ids : peak[i] \in Nat  BY VersionsAssumption DEF TypeOK
<1> QED  BY <1>0, <1>1, <1>2, <1>3, <1>4, <1>5, <1>6, <1>7

(* An installer goes on and the others stay. *)
LEMMA InstallerMoves ==
    ASSUME TypeOK, NEW i \in Ids, NEW x \in {"started", "passed", "failed"},
           install' = [install EXCEPT ![i].pc = x]
    PROVE  /\ install' \in [Ids -> Installer] /\ install'[i].pc = x
           /\ \A j \in Ids \ {i} : install'[j] = install[j]
<1> DEFINE y == [install[i] EXCEPT !.pc = x]
<1>1. install \in [Ids -> Installer] /\ install[i] \in Installer  BY TypeFacts
<1>2. y \in Installer /\ y.pc = x  BY <1>1 DEF Installer
<1>3. install' = [install EXCEPT ![i] = y]  BY <1>1
<1> HIDE DEF y
<1> QED  BY <1>1, <1>2, <1>3

(* The document keeps the last rows of what it is given. *)
LEMMA KeptRows ==
    ASSUME keep \in Nat \ {0}, NEW s \in Seq(Row)
    PROVE  Kept(s) \in Seq(Row) /\ Len(Kept(s)) <= keep /\ Of(Kept(s)) \subseteq Of(s)
<1>0. keep \in Nat \ {0} /\ Len(s) \in Nat  OBVIOUS
<1>1. CASE Len(s) <= keep  BY <1>1 DEF Kept
<1>2. CASE Len(s) > keep
  <2> DEFINE m == Len(s) - keep + 1
  <2>1. m \in 1 .. Len(s) /\ Len(s) - m + 1 = keep  BY <1>0, <1>2
  <2>2. Kept(s) = SubSeq(s, m, Len(s))  BY <1>0, <1>2 DEF Kept
  <2>3. Kept(s) \in Seq(Row) /\ Len(Kept(s)) = keep  BY <1>0, <2>1, <2>2
  <2>4. \A n \in 1 .. keep : Kept(s)[n] = s[m + n - 1] /\ m + n - 1 \in 1 .. Len(s)
    BY <1>0, <2>1, <2>2
  <2> QED  BY <1>0, <2>3, <2>4 DEF Of
<1> QED  BY <1>0, <1>1, <1>2

(* An acknowledgement changes nothing but the state of its own rows. *)
LEMMA AcknowledgedRows ==
    ASSUME cmds \in Seq(Row), NEW a \in Ack
    PROVE  /\ Acknowledged(a) \in Seq(Row) /\ Len(Acknowledged(a)) = Len(cmds)
           /\ \A r \in Of(Acknowledged(a)) : \E s \in Of(cmds) :
                /\ r.id = s.id /\ r.action = s.action /\ r.target = s.target
                /\ r.state = s.state \/ (s.id = a.id /\ r.state = a.state)
<1> DEFINE f == Acknowledged(a)
<1>0. a.state \in States  BY AckFields
<1>1. DOMAIN f = 1 .. Len(cmds) /\ Len(cmds) \in Nat  BY DEF Acknowledged
<1>2. \A n \in 1 .. Len(cmds) : cmds[n] \in Row  OBVIOUS
<1>3. \A n \in 1 .. Len(cmds) :
        /\ f[n] \in Row
        /\ f[n].id = cmds[n].id /\ f[n].action = cmds[n].action /\ f[n].target = cmds[n].target
        /\ f[n].state = cmds[n].state \/ (cmds[n].id = a.id /\ f[n].state = a.state)
  <2> TAKE n \in 1 .. Len(cmds)
  <2>1. CASE cmds[n].id = a.id
    <3>1. f[n] = [cmds[n] EXCEPT !.state = a.state]  BY <2>1 DEF Acknowledged
    <3> QED  BY <2>1, <3>1, <1>0, <1>2, RowTakesState
  <2>2. CASE cmds[n].id # a.id
    <3>1. f[n] = cmds[n]  BY <2>2 DEF Acknowledged
    <3> QED  BY <3>1, <1>2
  <2> QED  BY <2>1, <2>2
<1>4. f = [n \in 1 .. Len(cmds) |-> f[n]]  BY <1>1 DEF Acknowledged
<1>5. f \in Seq(Row) /\ Len(f) = Len(cmds)
  <2> HIDE DEF f
  <2> QED  BY <1>1, <1>3, <1>4
<1>6. \A r \in Of(f) : \E s \in Of(cmds) :
         /\ r.id = s.id /\ r.action = s.action /\ r.target = s.target
         /\ r.state = s.state \/ (s.id = a.id /\ r.state = a.state)
  <2> HIDE DEF f
  <2> QED  BY <1>1, <1>3 DEF Of
<1> QED  BY <1>5, <1>6
(* Head and Tail of what the agent has left. *)
LEMMA HeadTail ==
    ASSUME NEW X, NEW s \in Seq(X), s # <<>>
    PROVE  Head(s) \in Of(s) /\ Head(s) \in X /\ Tail(s) \in Seq(X) /\ Of(Tail(s)) \subseteq Of(s)
<1>1. Len(s) \in Nat /\ Len(s) # 0 /\ Head(s) = s[1]  OBVIOUS
<1>2. Tail(s) \in Seq(X) /\ Len(Tail(s)) = Len(s) - 1  OBVIOUS
<1>3. \A n \in 1 .. Len(s) - 1 : Tail(s)[n] = s[n + 1] /\ n + 1 \in 1 .. Len(s)  BY <1>1
<1> QED  BY <1>1, <1>2, <1>3 DEF Of

(* The answer to a poll: pending rows of the document, in their order. *)
LEMMA PollRows ==
    ASSUME cmds \in Seq(Row), NEW p \in InOrder(Answer), NEW q, q = [n \in DOMAIN p |-> cmds[p[n]]]
    PROVE  /\ q \in Seq(Row) /\ Of(q) \subseteq Of(cmds)
           /\ \A n \in DOMAIN q : q[n].state = "pending"
<1>1. \A k \in Answer : k \in DOMAIN cmds /\ cmds[k].state = "pending"  BY DEF Answer
<1>0. 1 \in Int /\ Len(cmds) \in Int /\ DOMAIN cmds = 1 .. Len(cmds)  OBVIOUS
<1>2. IsFiniteSet(1 .. Len(cmds))  BY <1>0, FS_Interval
<1>3. Answer \subseteq 1 .. Len(cmds)  BY <1>1
<1>4. IsFiniteSet(Answer)  BY <1>2, <1>3, FS_Subset
<1>5. Cardinality(Answer) \in Nat  BY <1>4, FS_CardinalityType
<1>6. PICK m \in Nat : DOMAIN p = 1 .. m /\ \A n \in 1 .. m : p[n] \in Answer
  BY <1>5 DEF InOrder
<1>7. DOMAIN q = 1 .. m /\ \A n \in 1 .. m : q[n] = cmds[p[n]] /\ p[n] \in DOMAIN cmds
  BY <1>1, <1>6
<1>8. \A n \in 1 .. m : q[n] \in Row /\ q[n] \in Of(cmds) /\ q[n].state = "pending"
  BY <1>1, <1>6, <1>7 DEF Of
<1>9. q = [n \in 1 .. m |-> q[n]]  BY <1>6, <1>7
<1>10. q \in Seq(Row)  BY <1>6, <1>8, <1>9
<1> QED  BY <1>7, <1>8, <1>10 DEF Of

(* What the agent has after a poll. *)
LEMMA PollAgent ==
    ASSUME TypeOK, agent_commands
    PROVE  /\ agent' \in Agent /\ agent'.acks = <<>> /\ ~ agent'.spawn
           /\ Of(agent'.todo) \subseteq Of(cmds)
           /\ \A n \in DOMAIN agent'.todo : agent'.todo[n].state = "pending"
<1>1. cmds \in Seq(Row) /\ agent \in Agent /\ agent.acks = <<>> /\ ~ agent.spawn
  BY TypeFacts, QuietTypes DEF agent_commands
<1>2. PICK p \in InOrder(Answer) : agent' = [agent EXCEPT !.todo = [n \in DOMAIN p |-> cmds[p[n]]]]
  BY DEF agent_commands
<1> DEFINE q == [n \in DOMAIN p |-> cmds[p[n]]]
<1>3. q \in Seq(Row) /\ Of(q) \subseteq Of(cmds) /\ \A n \in DOMAIN q : q[n].state = "pending"
  BY <1>1, PollRows
<1>4. agent' = [agent EXCEPT !.todo = q]  BY <1>2
<1> HIDE DEF q
<1>5. agent' \in Agent /\ agent'.todo = q /\ agent'.acks = <<>> /\ ~ agent'.spawn
  BY <1>1, <1>3, <1>4 DEF Agent
<1> QED  BY <1>3, <1>5

(* What the agent has after it began with a row: acknowledgements of that   *)
(* row, and of an update none that says completed.                          *)
LEMMA BeginAgent ==
    ASSUME TypeOK, Begin
    PROVE  /\ agent' \in Agent /\ agent'.todo = agent.todo /\ agent.todo # <<>>
           /\ \A a \in Of(agent'.acks) :
                 /\ a \in Ack /\ a.id = Head(agent.todo).id
                 /\ a.state = "completed" => Head(agent.todo).action = "cleanup"
<1> DEFINE r == Head(agent.todo)
<1>1. agent \in Agent /\ agent.todo \in Seq(Row) /\ agent.todo # <<>>  BY TypeFacts DEF Begin
<1>2. r \in Row  BY <1>1, HeadTail
<1>3. r.id \in Ids  BY <1>2, RowFields
<1>4. \A x \in {"accepted", "completed", "failed"} :
         Say(r.id, x) \in Ack /\ Say(r.id, x).id = r.id /\ Say(r.id, x).state = x
  BY <1>3 DEF Say, Ack
<1> HIDE DEF r
<1>5. \/ /\ r.action = "cleanup"
         /\ \/ agent' = [agent EXCEPT !.acks = <<Say(r.id, "accepted"), Say(r.id, "completed")>>]
            \/ agent' = [agent EXCEPT !.acks = <<Say(r.id, "accepted"), Say(r.id, "failed")>>]
      \/ agent' = [agent EXCEPT !.acks = <<Say(r.id, "failed")>>]
      \/ agent' = [agent EXCEPT !.acks = <<Say(r.id, "accepted")>>, !.spawn = TRUE]
      \/ agent' = [agent EXCEPT !.acks = <<Say(r.id, "accepted"), Say(r.id, "failed")>>]
  BY DEF Begin, r
<1> DEFINE Mine(a) == /\ a \in Ack /\ a.id = r.id
                      /\ a.state = "completed" => r.action = "cleanup"
<1> DEFINE Good(l) == l \in Seq(Ack) /\ \A a \in Of(l) : Mine(a)
<1>6. /\ Good(<<Say(r.id, "failed")>>) /\ Good(<<Say(r.id, "accepted")>>)
      /\ Good(<<Say(r.id, "accepted"), Say(r.id, "failed")>>)
      /\ r.action = "cleanup" => Good(<<Say(r.id, "accepted"), Say(r.id, "completed")>>)
  <2> DEFINE one(x) == <<Say(r.id, x)>>  two(y) == <<Say(r.id, "accepted"), Say(r.id, y)>>
  <2>1. \A x \in {"accepted", "failed"} : one(x) \in Seq(Ack) /\ Of(one(x)) = {Say(r.id, x)}
    BY <1>4 DEF Of
  <2>2. \A y \in {"completed", "failed"} :
           two(y) \in Seq(Ack) /\ Of(two(y)) = {Say(r.id, "accepted"), Say(r.id, y)}
    BY <1>4 DEF Of
  <2> QED  BY <1>4, <2>1, <2>2
<1>7. \E l, x : agent' = [agent EXCEPT !.acks = l, !.spawn = x] /\ Good(l) /\ x \in BOOLEAN
  <2>1. agent.spawn = FALSE  BY <1>1 DEF Agent, Begin
  <2>2. \A l : [agent EXCEPT !.acks = l] = [agent EXCEPT !.acks = l, !.spawn = FALSE]
    BY <1>1, <2>1 DEF Agent
  <2> HIDE DEF Good
  <2> QED  BY <1>5, <1>6, <2>2
<1> HIDE DEF Good
<1>8. PICK l, x : agent' = [agent EXCEPT !.acks = l, !.spawn = x] /\ Good(l) /\ x \in BOOLEAN
  BY <1>7
<1>9. agent'.acks = l /\ agent'.todo = agent.todo /\ agent' = [agent EXCEPT !.acks = l, !.spawn = x]
  BY <1>1, <1>8 DEF Agent
<1>10. agent' \in Agent  BY <1>1, <1>8, <1>9 DEF Agent, Good
<1>11. \A a \in Of(agent'.acks) : Mine(a)  BY <1>8, <1>9 DEF Good
<1> QED  BY <1>1, <1>9, <1>10, <1>11 DEF r
(* What the agent has after an acknowledgement: less of both, or an         *)
(* installer for the first row.                                             *)
LEMMA ProceedAgent ==
    ASSUME TypeOK, HandedOut, agent.acks # <<>>, Proceed
    PROVE  /\ agent' \in Agent
           /\ Of(agent'.todo) \subseteq Of(agent.todo) /\ Of(agent'.acks) \subseteq Of(agent.acks)
           /\ Head(agent.acks) \in Of(agent.acks) /\ Head(agent.acks) \in Ack
           /\ install' \in [Ids -> Installer]
           /\ \A i \in Ids : \/ install'[i] = install[i]
                             \/ install'[i].pc = "running" /\ \E s \in Of(agent.todo) : s.id = i
           /\ HandedOut'
<1>1. agent \in Agent /\ agent.todo \in Seq(Row) /\ agent.acks \in Seq(Ack) /\ agent.spawn \in BOOLEAN
  BY TypeFacts
<1>2. agent.todo # <<>>  BY DEF HandedOut
<1>3. /\ Head(agent.acks) \in Of(agent.acks) /\ Head(agent.acks) \in Ack
      /\ Tail(agent.acks) \in Seq(Ack) /\ Of(Tail(agent.acks)) \subseteq Of(agent.acks)
  BY <1>1, HeadTail
<1>4. /\ Head(agent.todo) \in Of(agent.todo) /\ Head(agent.todo) \in Row
      /\ Tail(agent.todo) \in Seq(Row) /\ Of(Tail(agent.todo)) \subseteq Of(agent.todo)
  BY <1>1, <1>2, HeadTail
<1>5. Head(agent.todo).id \in Ids  BY <1>4, RowFields
<1>6. \A r \in Of(agent.todo) : r.state = "pending"  BY DEF HandedOut, Of
<1> DEFINE rest == Tail(agent.acks)
<1> DEFINE Less == /\ agent' \in Agent
                   /\ Of(agent'.todo) \subseteq Of(agent.todo)
                   /\ Of(agent'.acks) \subseteq Of(agent.acks)
                   /\ HandedOut'
<1>7. ASSUME rest # <<>> PROVE Less
  <2>1. agent' = [agent EXCEPT !.acks = rest]  BY <1>7 DEF Proceed
  <2>2. agent' \in Agent /\ agent'.todo = agent.todo /\ agent'.acks = rest
    <3> HIDE DEF rest
    <3>1. rest \in Seq(Ack)  BY <1>3 DEF rest
    <3> QED  BY <1>1, <2>1, <3>1 DEF Agent
  <2> QED  BY <1>2, <1>3, <2>2 DEF HandedOut
<1>8. ASSUME rest = <<>>, agent.spawn PROVE Less
  <2>1. agent' = Quiet  BY <1>8 DEF Proceed
  <2>2. agent' \in Agent /\ agent'.todo = <<>> /\ agent'.acks = <<>> /\ agent'.spawn = FALSE
    BY <2>1, QuietTypes
  <2> QED  BY <2>2, OfEmpty DEF HandedOut
<1>9. ASSUME rest = <<>>, ~ agent.spawn PROVE Less
  <2>1. agent' = [agent EXCEPT !.acks = <<>>, !.todo = Tail(agent.todo)]  BY <1>9 DEF Proceed
  <2>2. /\ agent' \in Agent /\ agent'.todo = Tail(agent.todo) /\ agent'.acks = <<>>
        /\ agent'.spawn = agent.spawn
    <3> HIDE DEF rest
    <3> DEFINE t == Tail(agent.todo)
    <3>1. t \in Seq(Row) /\ <<>> \in Seq(Ack)  BY <1>4
    <3>2. agent' = [agent EXCEPT !.acks = <<>>, !.todo = t]  BY <2>1
    <3> HIDE DEF t
    <3>3. agent' \in Agent /\ agent'.todo = t /\ agent'.acks = <<>> /\ agent'.spawn = agent.spawn
      BY <1>1, <3>1, <3>2 DEF Agent
    <3> QED  BY <3>3 DEF t
  <2>3. \A n \in DOMAIN agent'.todo : agent'.todo[n] \in Of(agent'.todo)  BY DEF Of
  <2>4. \A n \in DOMAIN agent'.todo : agent'.todo[n].state = "pending"
    BY <1>4, <1>6, <2>2, <2>3
  <2> QED  BY <1>4, <1>9, <2>2, <2>4, OfEmpty DEF HandedOut
<1>10. Less  BY <1>1, <1>7, <1>8, <1>9
<1> DEFINE x == [pc |-> "running", old |-> version]
<1>11. install \in [Ids -> Installer] /\ x \in Installer /\ x.pc = "running"
  BY TypeFacts DEF Installer
<1>a. \/ install' = install
      \/ install' = [install EXCEPT ![Head(agent.todo).id] = x]
  BY DEF Proceed
<1> HIDE DEF x
<1>12. /\ install' \in [Ids -> Installer]
       /\ \A i \in Ids : \/ install'[i] = install[i]
                         \/ install'[i].pc = "running" /\ Head(agent.todo).id = i
  BY <1>5, <1>11, <1>a
<1> QED  BY <1>3, <1>4, <1>10, <1>12
(* What a worker writes: the document it loaded, with its own rows made     *)
(* pending or failed; or nothing, when its row is gone.                     *)
LEMMA SavedRows ==
    ASSUME TypeOK, NEW i \in Ids, WorkerSaves(i)
    PROVE  /\ cmds' \in Seq(Row) /\ Len(cmds') <= keep
           /\ \/ cmds' = cmds
              \/ \A r \in Of(cmds') : \E s \in Of(worker[i].doc) :
                   \/ r = s /\ s.id # i
                   \/ /\ s.id = i /\ r.id = i /\ r.action = s.action
                      /\ r.state = worker[i].state
                      /\ r.target = IF worker[i].state = "pending" THEN worker[i].target ELSE s.target
<1> DEFINE w == worker[i]
           Mine == {n \in DOMAIN w.doc : w.doc[n].id = i}
<1>1. /\ w.doc \in Seq(Row) /\ w.state \in {"pending", "failed"} /\ w.state \in States
      /\ w.target \in Versions \cup {None} /\ Len(w.doc) <= keep
  BY TypeFacts, WorkerFields DEF States
<1>2. CASE Mine = {}
  <2>1. cmds' = cmds  BY <1>2 DEF WorkerSaves
  <2> QED  BY <2>1, TypeFacts
<1>3. CASE Mine # {}
  <2> DEFINE d == w.doc  m == Len(d)
             new(r) == [r EXCEPT !.state = w.state,
                                 !.target = IF w.state = "pending" THEN w.target ELSE r.target]
  <2>1. cmds' = [n \in DOMAIN d |-> IF n \in Mine THEN new(d[n]) ELSE d[n]]
    BY <1>3 DEF WorkerSaves
  <2>2. m \in Nat /\ DOMAIN d = 1 .. m /\ \A n \in 1 .. m : d[n] \in Row /\ d[n] \in Of(d)
    BY <1>1 DEF Of
  <2>3. \A r \in Row : /\ new(r) \in Row /\ new(r).id = r.id /\ new(r).action = r.action
                       /\ new(r).state = w.state
                       /\ new(r).target = IF w.state = "pending" THEN w.target ELSE r.target
    <3> TAKE r \in Row
    <3> DEFINE v == IF w.state = "pending" THEN w.target ELSE r.target
    <3>1. v \in Versions \cup {None}  BY <1>1, RowFields
    <3> HIDE DEF v
    <3>2. new(r) = [r EXCEPT !.state = w.state, !.target = v]  BY DEF v
    <3>3. /\ new(r) \in Row /\ new(r).id = r.id /\ new(r).action = r.action
          /\ new(r).state = w.state /\ new(r).target = v
      <4> DEFINE x == w.state  n == new(r)
      <4>1. x \in States /\ n = [r EXCEPT !.state = x, !.target = v]  BY <1>1, <3>2
      <4> HIDE DEF x, n
      <4>2. n \in Row /\ n.id = r.id /\ n.action = r.action /\ n.state = x /\ n.target = v
        BY <3>1, <4>1 DEF Row
      <4> QED  BY <4>2 DEF x, n
    <3> QED  BY <3>3 DEF v
  <2>4. DOMAIN cmds' = 1 .. m
        /\ \A n \in 1 .. m : cmds'[n] = IF d[n].id = i THEN new(d[n]) ELSE d[n]
    BY <2>1, <2>2
  <2> HIDE DEF new, d, m
  <2>5. \A n \in 1 .. m :
          /\ cmds'[n] \in Row
          /\ \/ cmds'[n] = d[n] /\ d[n].id # i
             \/ /\ d[n].id = i /\ cmds'[n].id = i /\ cmds'[n].action = d[n].action
                /\ cmds'[n].state = w.state
                /\ cmds'[n].target = IF w.state = "pending" THEN w.target ELSE d[n].target
    <3> TAKE n \in 1 .. m
    <3>1. d[n] \in Row
      BY <2>2
    <3>2. CASE d[n].id = i
      BY <2>3, <2>4, <3>1, <3>2
    <3>3. CASE d[n].id # i
      BY <2>4, <3>1, <3>3
    <3> QED BY <3>2, <3>3
  <2>6. cmds' = [n \in 1 .. m |-> cmds'[n]]  BY <2>1, <2>2
  <2>7. cmds' \in Seq(Row) /\ Len(cmds') = m  BY <2>2, <2>4, <2>5, <2>6
  <2>8. m <= keep  BY <1>1 DEF m, d
  <2> HIDE DEF w
  <2>9. \A r \in Of(cmds') : \E s \in Of(d) :
           \/ r = s /\ s.id # i
           \/ /\ s.id = i /\ r.id = i /\ r.action = s.action
              /\ r.state = w.state
              /\ r.target = IF w.state = "pending" THEN w.target ELSE s.target
    <3> SUFFICES ASSUME NEW n \in 1 .. m
                 PROVE  \E s \in Of(d) :
                           \/ cmds'[n] = s /\ s.id # i
                           \/ /\ s.id = i /\ cmds'[n].id = i /\ cmds'[n].action = s.action
                              /\ cmds'[n].state = w.state
                              /\ cmds'[n].target = IF w.state = "pending" THEN w.target ELSE s.target
      BY <2>4 DEF Of
    <3>1. d[n] \in Of(d)
      BY <2>2 DEF Of
    <3> QED BY <2>5, <3>1
  <2> QED  BY <2>7, <2>8, <2>9 DEF w, d
<1> QED  BY <1>2, <1>3
(* The actions of Next one by one, for the proofs by cases. *)
LEMMA NextCases ==
    ASSUME Next
    PROVE  \/ update_request \/ cleanup_request \/ CheckEnds
           \/ \E i \in Ids : WorkerLocks(i)
           \/ \E i \in Ids : WorkerFetches(i)
           \/ \E i \in Ids : WorkerLoads(i)
           \/ \E i \in Ids : WorkerSaves(i)
           \/ \E i \in Ids : InstallerFails(i)
           \/ \E i \in Ids : InstallerStarts(i)
           \/ \E i \in Ids : InstallerRollsBack(i)
           \/ \E i \in Ids : InstallerPasses(i)
           \/ \E i \in Ids : InstallerSays(i)
           \/ agent_commands \/ Begin \/ AckAnswered \/ AckRepeated \/ AckAbandoned
           \/ (\E a \in late : AckLate(a)) \/ agent_status \/ HubRestart \/ AgentRestart
BY Zenon DEF Next, WorkerStep, InstallerStep, LateStep, AgentStep

(* A new row is one of the types. *)
LEMMA QueuedRow ==
    ASSUME TypeOK, NEW x \in {"update", "cleanup"}, NEW st \in States, Queue(x, st)
    PROVE  \E r \in Row :
             /\ r.id = created + 1 /\ r.action = x /\ r.state = st /\ r.target = None
             /\ cmds' \in Seq(Row) /\ Len(cmds') <= keep
             /\ Of(cmds') \subseteq Of(cmds) \cup {r}
             /\ created + 1 \in Ids /\ created' = created + 1 /\ created' \in 0 .. MaxCmds
<1> DEFINE r == [id |-> created + 1, action |-> x, state |-> st, target |-> None]
<1>1. /\ cmds \in Seq(Row) /\ created \in Nat /\ created < MaxCmds /\ MaxCmds \in Nat
      /\ keep \in Nat \ {0}
  BY TypeFacts, BoundsAssumption DEF Queue
<1>2. created + 1 \in Ids /\ created' = created + 1 /\ created' \in 0 .. MaxCmds
  BY <1>1 DEF Ids, Queue
<1>3. r \in Row /\ r.id = created + 1 /\ r.action = x /\ r.state = st /\ r.target = None
  BY <1>2 DEF Row
<1>4. cmds' = Kept(Append(cmds, r))  BY DEF Queue
<1> HIDE DEF r
<1>5. Append(cmds, r) \in Seq(Row) /\ Of(Append(cmds, r)) \subseteq Of(cmds) \cup {r}
  <2>1. Append(cmds, r) \in Seq(Row) /\ Len(Append(cmds, r)) = Len(cmds) + 1  BY <1>1, <1>3
  <2>2. \A n \in 1 .. Len(cmds) + 1 :
          Append(cmds, r)[n] = IF n = Len(cmds) + 1 THEN r ELSE cmds[n]
    BY <1>1
  <2>3. \A n \in 1 .. Len(cmds) + 1 : n # Len(cmds) + 1 => n \in 1 .. Len(cmds)  BY <1>1
  <2> QED  BY <1>1, <2>1, <2>2, <2>3 DEF Of
<1>6. /\ cmds' \in Seq(Row) /\ Len(cmds') <= keep
      /\ Of(cmds') \subseteq Of(cmds) \cup {r}
  BY <1>1, <1>4, <1>5, KeptRows
<1> QED  BY <1>2, <1>3, <1>6

(* A row that the agent's version completes. *)
LEMMA StatusRows ==
    ASSUME TypeOK, agent_status
    PROVE  /\ cmds' \in Seq(Row) /\ Len(cmds') <= keep
           /\ \A r \in Of(cmds') : \E s \in Of(cmds) :
                /\ r.id = s.id /\ r.action = s.action /\ r.target = s.target
                /\ \/ r.state = s.state
                   \/ s.state = "accepted" /\ r.state = "completed" /\ version >= s.target
<1> DEFINE f == cmds'
<1>0. cmds \in Seq(Row) /\ Len(cmds) \in Nat /\ Len(cmds) <= keep /\ "completed" \in States
  BY TypeFacts DEF States
<1> DEFINE done(r) == [r EXCEPT !.state = "completed"]
<1>1. f = [n \in DOMAIN cmds |-> IF CompletesRow(cmds[n]) THEN done(cmds[n]) ELSE cmds[n]]
  BY DEF agent_status
<1>2. DOMAIN f = 1 .. Len(cmds) /\ \A n \in 1 .. Len(cmds) : cmds[n] \in Row /\ cmds[n] \in Of(cmds)
  BY <1>0, <1>1 DEF Of
<1>3. \A n \in 1 .. Len(cmds) :
        /\ f[n] \in Row
        /\ f[n].id = cmds[n].id /\ f[n].action = cmds[n].action /\ f[n].target = cmds[n].target
        /\ \/ f[n].state = cmds[n].state
           \/ cmds[n].state = "accepted" /\ f[n].state = "completed" /\ version >= cmds[n].target
  <2> TAKE n \in 1 .. Len(cmds)
  <2>0. n \in DOMAIN cmds  BY <1>0
  <2>1. CASE CompletesRow(cmds[n])
    <3> HIDE DEF f, done
    <3>1. f[n] = done(cmds[n])  BY <1>1, <2>0, <2>1
    <3>2. cmds[n].state = "accepted" /\ version >= cmds[n].target  BY <2>1 DEF CompletesRow
    <3>3. f[n] = [cmds[n] EXCEPT !.state = "completed"]  BY <3>1 DEF done
    <3> QED  BY <1>0, <1>2, <3>2, <3>3, RowTakesState
  <2>2. CASE ~ CompletesRow(cmds[n])
    <3> HIDE DEF f, done
    <3>1. f[n] = cmds[n]  BY <1>1, <2>0, <2>2
    <3> QED  BY <3>1, <1>2
  <2> QED  BY <2>1, <2>2
<1>4. f = [n \in 1 .. Len(cmds) |-> f[n]]  BY <1>1, <1>2
<1> HIDE DEF f
<1>5. f \in Seq(Row) /\ Len(f) = Len(cmds)  BY <1>0, <1>2, <1>3, <1>4
<1>6. \A r \in Of(f) : \E s \in Of(cmds) :
         /\ r.id = s.id /\ r.action = s.action /\ r.target = s.target
         /\ \/ r.state = s.state
            \/ s.state = "accepted" /\ r.state = "completed" /\ version >= s.target
  BY <1>2, <1>3 DEF Of
<1> QED  BY <1>0, <1>5, <1>6 DEF f
-----------------------------------------------------------------------------
(* The types are kept. *)

LEMMA CommandInit == Init => CommandInv
<1> SUFFICES ASSUME Init PROVE CommandInv
  OBVIOUS
<1>1. TypeOK
  <2>0. keep \in KeepCommands /\ keep \in Nat \ {0}  BY BoundsAssumption DEF Init
  <2>1. worker \in [Ids -> Worker] /\ \A i \in Ids : Len(worker[i].doc) <= keep
    BY <2>0, OffTypes, BoundsAssumption DEF Init
  <2>2. agent \in Agent  BY QuietTypes DEF Init
  <2>4. cmds \in Seq(Row) /\ Len(cmds) <= keep  BY <2>0 DEF Init
  <2>5. version \in Versions /\ cache \in BOOLEAN  BY VersionsAssumption DEF Init, Versions
  <2>6. /\ created \in 0 .. MaxCmds /\ faults \in 0 .. MaxFaults
        /\ stranded \in SUBSET Ids /\ late \in SUBSET Ack /\ passed \in SUBSET Ids
    BY BoundsAssumption DEF Init
  <2>7. install \in [Ids -> Installer]  BY InstallerTypes DEF Init
  <2>8. peak \in [Ids -> 0 .. MaxVersion]  BY VersionsAssumption DEF Init
  <2> QED  BY <2>0, <2>1, <2>2, <2>4, <2>5, <2>6, <2>7, <2>8 DEF TypeOK
<1>2. /\ \A i \in Ids : worker[i] = Off
      /\ cmds = <<>> /\ agent.todo = <<>> /\ agent.acks = <<>> /\ agent.spawn = FALSE
      /\ late = {} /\ \A i \in Ids : install[i].pc = "none"
  BY QuietTypes, InstallerTypes DEF Init
<1>3. Rows = {} /\ Acks = {}  BY <1>2, OffTypes, OfEmpty DEF Rows, Acks
<1>4. \A i \in Ids : ~ Known(i) /\ ~ Told(i)  BY <1>2, <1>3 DEF Known, Told
<1>5. Peaked  BY DEF Peaked, Init, Ids
<1>6. Exclusive  BY <1>2, OffTypes DEF Exclusive, Past
<1>7. HandedOut  BY <1>2 DEF HandedOut
<1>8. Copies
  BY <1>2, <1>3, <1>4, OffTypes DEF Copies, Fresh, Agree, Running, Targeted, Believed
<1> QED  BY <1>1, <1>5, <1>6, <1>7, <1>8 DEF CommandInv

(* What TypeOK says of the variables that few actions change. *)
Ground ==
    /\ keep \in KeepCommands
    /\ version \in Versions /\ cache \in BOOLEAN
    /\ late \in SUBSET Ack /\ stranded \in SUBSET Ids /\ faults \in 0 .. MaxFaults
    /\ peak \in [Ids -> 0 .. MaxVersion] /\ passed \in SUBSET Ids

(* The agent is started again. *)
LEMMA RestartTypes ==
    ASSUME TypeOK, HandedOut, NEW v \in Versions, Restarted(v)
    PROVE  /\ version' = v /\ agent' = Quiet /\ stranded' \in SUBSET Ids
           /\ peak' \in [Ids -> 0 .. MaxVersion]
           /\ \A i \in Ids : peak[i] <= peak'[i] /\ (i <= created => v <= peak'[i])
<1>1. /\ peak \in [Ids -> 0 .. MaxVersion] /\ stranded \in SUBSET Ids
      /\ v \in 1 .. MaxVersion /\ MaxVersion \in Nat
  BY VersionsAssumption DEF TypeOK, Versions
<1>2. peak' = [i \in Ids |-> IF i <= created /\ peak[i] < v THEN v ELSE peak[i]]  BY DEF Restarted
<1>3. \A i \in Ids : /\ peak'[i] = IF i <= created /\ peak[i] < v THEN v ELSE peak[i]
                     /\ peak[i] \in 0 .. MaxVersion
  BY <1>1, <1>2
<1>4. peak' \in [Ids -> 0 .. MaxVersion]  BY <1>1, <1>2, <1>3
<1>5. \A i \in Ids : peak[i] <= peak'[i] /\ (i <= created => v <= peak'[i])  BY <1>1, <1>3
<1>6. agent.acks # <<>> => Head(agent.todo).id \in Ids
  BY TypeFacts, HeadTail, RowFields DEF HandedOut
<1>7. stranded' \in SUBSET Ids  BY <1>1, <1>6 DEF Restarted
<1> QED  BY <1>4, <1>5, <1>7 DEF Restarted

(* What the history of versions becomes when a command is created. *)
LEMMA QueuedPeak ==
    ASSUME TypeOK, NEW x \in {"update", "cleanup"}, NEW st \in States, Queue(x, st)
    PROVE  /\ peak' \in [Ids -> 0 .. MaxVersion] /\ peak'[created + 1] = version
           /\ \A i \in Ids : i # created + 1 => peak'[i] = peak[i]
<1>1. created + 1 \in Ids  BY QueuedRow
<1>2. peak \in [Ids -> 0 .. MaxVersion] /\ version \in 0 .. MaxVersion
  BY VersionsAssumption DEF TypeOK, Versions
<1>3. peak' = [peak EXCEPT ![created + 1] = version]  BY DEF Queue
<1> QED  BY <1>1, <1>2, <1>3

(* Nothing but the variables of Ground changes its type. *)
LEMMA GroundStep ==
    ASSUME TypeOK, HandedOut, [Next]_vars
    PROVE  Ground'
<1>1. /\ keep \in KeepCommands /\ version \in Versions /\ cache \in BOOLEAN
      /\ late \in SUBSET Ack /\ stranded \in SUBSET Ids /\ faults \in 0 .. MaxFaults
      /\ peak \in [Ids -> 0 .. MaxVersion] /\ passed \in SUBSET Ids
  BY DEF TypeOK
<1>2. Fault => faults' \in 0 .. MaxFaults  BY <1>1, BoundsAssumption DEF Fault
<1>3. CASE UNCHANGED vars  BY <1>1, <1>3 DEF vars, Ground
<1>4. CASE update_request
  <2>1. peak' \in [Ids -> 0 .. MaxVersion]  BY <1>4, QueuedPeak DEF update_request, States
  <2> QED  BY <1>1, <1>4, <2>1 DEF update_request, Ground
<1>5. CASE cleanup_request
  <2>1. peak' \in [Ids -> 0 .. MaxVersion]  BY <1>5, QueuedPeak DEF cleanup_request, States
  <2> QED  BY <1>1, <1>5, <2>1 DEF cleanup_request, Ground
<1>7. CASE CheckEnds  BY <1>1, <1>7 DEF CheckEnds, Ground
<1>8. ASSUME NEW i \in Ids, WorkerLocks(i) PROVE Ground'
  BY <1>1, <1>8 DEF WorkerLocks, Ground
<1>9. ASSUME NEW i \in Ids, WorkerFetches(i) PROVE Ground'
  <2>1. cache' \in BOOLEAN  BY <1>9 DEF WorkerFetches
  <2> QED  BY <1>1, <1>9, <2>1 DEF WorkerFetches, Ground
<1>10. ASSUME NEW i \in Ids, WorkerLoads(i) PROVE Ground'
  BY <1>1, <1>10 DEF WorkerLoads, Ground
<1>11. ASSUME NEW i \in Ids, WorkerSaves(i) PROVE Ground'
  <2>1. worker[i].doc \in Seq(Row)  BY TypeFacts, WorkerFields
  <2>2. \A n \in DOMAIN worker[i].doc : worker[i].doc[n].id \in Ids  BY <2>1, RowFields
  <2>3. Reopened(worker[i].doc) \subseteq Ids  BY <2>2 DEF Reopened
  <2>4. stranded' \in SUBSET Ids  BY <1>1, <1>11, <2>3 DEF WorkerSaves
  <2> QED  BY <1>1, <1>11, <2>4 DEF WorkerSaves, Ground
<1>12. ASSUME NEW i \in Ids, InstallerFails(i) PROVE Ground'
  BY <1>1, <1>12 DEF InstallerFails, Ground
<1>13. ASSUME NEW i \in Ids, InstallerStarts(i) PROVE Ground'
  <2>1. PICK v \in Versions : Restarted(v)  BY <1>13 DEF InstallerStarts
  <2>2. version' \in Versions /\ stranded' \in SUBSET Ids /\ peak' \in [Ids -> 0 .. MaxVersion]
    BY <2>1, RestartTypes
  <2> QED  BY <1>1, <1>13, <2>2 DEF InstallerStarts, Ground
<1>14. ASSUME NEW i \in Ids, InstallerRollsBack(i) PROVE Ground'
  <2>1. install[i].old \in Versions  BY TypeFacts, InstallerTypes
  <2>2. version' \in Versions /\ stranded' \in SUBSET Ids /\ peak' \in [Ids -> 0 .. MaxVersion]
    BY <1>14, <2>1, RestartTypes DEF InstallerRollsBack
  <2> QED  BY <1>1, <1>14, <2>2 DEF InstallerRollsBack, Ground
<1>15. ASSUME NEW i \in Ids, InstallerPasses(i) PROVE Ground'
  BY <1>1, <1>15 DEF InstallerPasses, Ground
<1>16. ASSUME NEW i \in Ids, InstallerSays(i) PROVE Ground'
  <2>1. InstallerAck(i) \in Ack  BY DEF InstallerAck, Say, Ack
  <2>2. late' \in SUBSET Ack /\ faults' \in 0 .. MaxFaults /\ stranded' \in SUBSET Ids
    BY <1>1, <1>2, <1>16, <2>1 DEF InstallerSays
  <2> QED  BY <1>1, <1>16, <2>2 DEF InstallerSays, Ground
<1>19. CASE agent_commands  BY <1>1, <1>19 DEF agent_commands, Ground
<1>20. CASE Begin
  <2>1. faults' \in 0 .. MaxFaults  BY <1>1, <1>2, <1>20 DEF Begin
  <2> QED  BY <1>1, <1>20, <2>1 DEF Begin, Ground
<1>21. CASE AckAnswered  BY <1>1, <1>21 DEF AckAnswered, Ground
<1>22. CASE AckRepeated  BY <1>1, <1>2, <1>22 DEF AckRepeated, Ground
<1>23. CASE AckAbandoned
  <2>1. Head(agent.acks) \in Ack  BY <1>23, TypeFacts, HeadTail DEF AckAbandoned
  <2>2. Head(agent.acks).id \in Ids  BY <2>1, AckFields
  <2>3. late' \in SUBSET Ack /\ stranded' \in SUBSET Ids  BY <1>1, <1>23, <2>1, <2>2 DEF AckAbandoned
  <2> QED  BY <1>1, <1>2, <1>23, <2>3 DEF AckAbandoned, Ground
<1>24. ASSUME NEW a \in late, AckLate(a) PROVE Ground'
  <2>1. a.id \in Ids  BY <1>1, AckFields
  <2>2. stranded' \in SUBSET Ids  BY <1>1, <1>24, <2>1 DEF AckLate
  <2> QED  BY <1>1, <1>24, <2>2 DEF AckLate, Ground
<1>25. CASE agent_status  BY <1>1, <1>25 DEF agent_status, Ground
<1>26. CASE HubRestart
  <2>1. \A a \in late : a.id \in Ids  BY <1>1, AckFields
  <2>2. stranded' \in SUBSET Ids  BY <1>1, <1>26, <2>1 DEF HubRestart
  <2> QED  BY <1>1, <1>2, <1>26, <2>2 DEF HubRestart, Ground
<1>27. CASE AgentRestart
  <2>1. version' \in Versions /\ stranded' \in SUBSET Ids /\ peak' \in [Ids -> 0 .. MaxVersion]
    BY <1>1, <1>27, RestartTypes DEF AgentRestart
  <2> QED  BY <1>1, <1>2, <1>27, <2>1 DEF AgentRestart, Ground
<1>28. CASE Next
  BY <1>28, NextCases, <1>4, <1>5, <1>7, <1>8, <1>9, <1>10, <1>11, <1>12, <1>13, <1>14, <1>15, <1>16,
     <1>19, <1>20, <1>21, <1>22, <1>23, <1>24, <1>25, <1>26, <1>27
<1> QED  BY <1>3, <1>28
(* What TypeOK says of the rest. *)
Moving ==
    /\ cmds \in Seq(Row) /\ Len(cmds) <= keep
    /\ created \in 0 .. MaxCmds
    /\ worker \in [Ids -> Worker] /\ \A i \in Ids : Len(worker[i].doc) <= keep
    /\ agent \in Agent
    /\ install \in [Ids -> Installer]

(* What a worker becomes in one step: its new value has the type, keeps a   *)
(* document of the size allowed, and the others stay.                       *)
LEMMA WorkerMoves ==
    ASSUME TypeOK, NEW i \in Ids, NEW w \in Worker, Len(w.doc) <= keep,
           worker' = [worker EXCEPT ![i] = w]
    PROVE  /\ worker' \in [Ids -> Worker] /\ \A j \in Ids : Len(worker'[j].doc) <= keep
           /\ worker'[i] = w /\ \A j \in Ids \ {i} : worker'[j] = worker[j]
<1>1. worker \in [Ids -> Worker] /\ \A j \in Ids : Len(worker[j].doc) <= keep
  BY TypeFacts
<1> QED  BY <1>1

(* The worker of i after each of its steps. *)
LEMMA LocksWorker ==
    ASSUME TypeOK, NEW i \in Ids, WorkerLocks(i)
    PROVE  \E w \in Worker : /\ worker' = [worker EXCEPT ![i] = w]
                             /\ w.pc = "fetch" /\ w.doc = worker[i].doc
                             /\ w.state = worker[i].state /\ w.target = worker[i].target
<1> DEFINE w == [worker[i] EXCEPT !.pc = "fetch", !.seen = cache]
<1>1. worker \in [Ids -> Worker] /\ worker[i] \in Worker /\ cache \in BOOLEAN
  BY DEF TypeOK
<1>2. worker' = [worker EXCEPT ![i] = w]  BY <1>1 DEF WorkerLocks
<1>3. /\ w \in Worker /\ w.pc = "fetch" /\ w.doc = worker[i].doc
      /\ w.state = worker[i].state /\ w.target = worker[i].target
  BY <1>1 DEF Worker
<1> QED  BY <1>2, <1>3

LEMMA FetchesWorker ==
    ASSUME TypeOK, NEW i \in Ids, WorkerFetches(i)
    PROVE  \E w \in Worker, v \in Fetched(worker[i].seen) :
             /\ worker' = [worker EXCEPT ![i] = w]
             /\ w.pc = "load" /\ w.doc = worker[i].doc
             /\ w.state = IF v = None THEN "failed" ELSE "pending"
             /\ w.target = IF v = None THEN worker[i].target ELSE v
<1>1. worker \in [Ids -> Worker] /\ worker[i] \in Worker
  BY TypeFacts, WorkerFields
<1>2. PICK v \in Fetched(worker[i].seen) : worker' = AfterFetch(i, v)
  BY DEF WorkerFetches
<1>3. v \in Versions \cup {None}  BY <1>1 DEF Fetched
<1>4. CASE v = None
  <2> DEFINE w == [worker[i] EXCEPT !.pc = "load", !.state = "failed"]
  <2>1. worker' = [worker EXCEPT ![i] = w]  BY <1>1, <1>2, <1>4 DEF AfterFetch
  <2>2. /\ w \in Worker /\ w.pc = "load" /\ w.doc = worker[i].doc
        /\ w.state = "failed" /\ w.target = worker[i].target
    BY <1>1 DEF Worker
  <2> QED  BY <1>2, <1>4, <2>1, <2>2
<1>5. CASE v # None
  <2> DEFINE w == [worker[i] EXCEPT !.pc = "load", !.target = v, !.state = "pending"]
  <2>1. worker' = [worker EXCEPT ![i] = w]  BY <1>1, <1>2, <1>5 DEF AfterFetch
  <2>2. /\ w \in Worker /\ w.pc = "load" /\ w.doc = worker[i].doc
        /\ w.state = "pending" /\ w.target = v
    BY <1>1, <1>3 DEF Worker
  <2> QED  BY <1>2, <1>5, <2>1, <2>2
<1> QED  BY <1>4, <1>5

LEMMA LoadsWorker ==
    ASSUME TypeOK, NEW i \in Ids, WorkerLoads(i)
    PROVE  \E w \in Worker : /\ worker' = [worker EXCEPT ![i] = w]
                             /\ w.pc = "save" /\ w.doc = cmds
                             /\ w.state = worker[i].state /\ w.target = worker[i].target
<1> DEFINE w == [worker[i] EXCEPT !.pc = "save", !.doc = cmds]
<1>1. worker \in [Ids -> Worker] /\ worker[i] \in Worker /\ cmds \in Seq(Row)
  BY DEF TypeOK
<1>2. worker' = [worker EXCEPT ![i] = w]  BY <1>1 DEF WorkerLoads
<1>3. /\ w \in Worker /\ w.pc = "save" /\ w.doc = cmds
      /\ w.state = worker[i].state /\ w.target = worker[i].target
  BY <1>1 DEF Worker
<1> QED  BY <1>2, <1>3

LEMMA RequestWorker ==
    ASSUME TypeOK, created + 1 \in Ids, update_request
    PROVE  \E w \in Worker : /\ worker' = [worker EXCEPT ![created + 1] = w]
                             /\ w.pc = "lock" /\ w.doc = <<>>
                             /\ w.state = "failed" /\ w.target = None
<1> DEFINE w == [Off EXCEPT !.pc = "lock"]
<1>1. worker' = [worker EXCEPT ![created + 1] = w]  BY DEF update_request
<1>2. /\ w \in Worker /\ w.pc = "lock" /\ w.doc = <<>>
      /\ w.state = "failed" /\ w.target = None
  BY OffTypes DEF Worker
<1> QED  BY <1>1, <1>2

(* The rest keeps its types. *)
LEMMA MovingStep ==
    ASSUME TypeOK, HandedOut, [Next]_vars
    PROVE  Moving'
<1>1. Moving  BY DEF TypeOK, Moving
<1>2. /\ cmds \in Seq(Row) /\ Len(cmds) <= keep /\ created \in 0 .. MaxCmds
      /\ worker \in [Ids -> Worker] /\ \A i \in Ids : Len(worker[i].doc) <= keep
      /\ agent \in Agent /\ install \in [Ids -> Installer]
  BY DEF TypeOK
<1>s. UNCHANGED <<keep, cmds, created, worker, agent, install>> => Moving'  BY <1>1 DEF Moving
<1>a. \A a \in Ack : Acknowledged(a) \in Seq(Row) /\ Len(Acknowledged(a)) <= keep
  BY <1>2, AcknowledgedRows
<1>o. Len(Off.doc) <= keep  BY OffTypes, TypeFacts
<1>3. CASE UNCHANGED vars  BY <1>s, <1>3 DEF vars
<1>4. CASE update_request
  <2>1. Queue("update", "preparing")  BY <1>4 DEF update_request
  <2>2. /\ cmds' \in Seq(Row) /\ Len(cmds') <= keep
        /\ created + 1 \in Ids /\ created' \in 0 .. MaxCmds
    BY <2>1, QueuedRow DEF States
  <2>3. PICK w \in Worker : worker' = [worker EXCEPT ![created + 1] = w] /\ w.doc = <<>>
    BY <1>4, <2>2, RequestWorker
  <2>4. Len(w.doc) <= keep  BY <2>3, TypeFacts
  <2>5. worker' \in [Ids -> Worker] /\ \A j \in Ids : Len(worker'[j].doc) <= keep
    BY <2>2, <2>3, <2>4, WorkerMoves
  <2> QED  BY <1>2, <1>4, <2>2, <2>5 DEF update_request, Moving
<1>5. CASE cleanup_request
  <2>1. Queue("cleanup", "pending")  BY <1>5 DEF cleanup_request
  <2>2. cmds' \in Seq(Row) /\ Len(cmds') <= keep /\ created' \in 0 .. MaxCmds
    BY <2>1, QueuedRow DEF States
  <2> QED  BY <1>2, <1>5, <2>2 DEF cleanup_request, Moving
<1>7. CASE CheckEnds  BY <1>s, <1>7 DEF CheckEnds
<1>8. ASSUME NEW i \in Ids, WorkerLocks(i) PROVE Moving'
  <2>1. PICK w \in Worker : worker' = [worker EXCEPT ![i] = w] /\ w.doc = worker[i].doc
    BY <1>8, LocksWorker
  <2>2. worker' \in [Ids -> Worker] /\ \A j \in Ids : Len(worker'[j].doc) <= keep
    BY <1>2, <2>1, WorkerMoves
  <2> QED  BY <1>2, <1>8, <2>2 DEF WorkerLocks, Moving
<1>9. ASSUME NEW i \in Ids, WorkerFetches(i) PROVE Moving'
  <2>1. PICK w \in Worker : worker' = [worker EXCEPT ![i] = w] /\ w.doc = worker[i].doc
    BY <1>9, FetchesWorker
  <2>2. worker' \in [Ids -> Worker] /\ \A j \in Ids : Len(worker'[j].doc) <= keep
    BY <1>2, <2>1, WorkerMoves
  <2> QED  BY <1>2, <1>9, <2>2 DEF WorkerFetches, Moving
<1>10. ASSUME NEW i \in Ids, WorkerLoads(i) PROVE Moving'
  <2>1. PICK w \in Worker : worker' = [worker EXCEPT ![i] = w] /\ w.doc = cmds
    BY <1>10, LoadsWorker
  <2>2. worker' \in [Ids -> Worker] /\ \A j \in Ids : Len(worker'[j].doc) <= keep
    BY <1>2, <2>1, WorkerMoves
  <2> QED  BY <1>2, <1>10, <2>2 DEF WorkerLoads, Moving
<1>11. ASSUME NEW i \in Ids, WorkerSaves(i) PROVE Moving'
  <2>1. cmds' \in Seq(Row) /\ Len(cmds') <= keep  BY <1>11, SavedRows
  <2>2. worker' = [worker EXCEPT ![i] = Off]  BY <1>11 DEF WorkerSaves
  <2>3. worker' \in [Ids -> Worker] /\ \A j \in Ids : Len(worker'[j].doc) <= keep
    BY <1>o, <2>2, OffTypes, WorkerMoves
  <2> QED  BY <1>2, <1>11, <2>1, <2>3 DEF WorkerSaves, Moving
<1>q. Quiet \in Agent  BY QuietTypes
<1>12. ASSUME NEW i \in Ids, InstallerFails(i) PROVE Moving'
  <2>1. install' \in [Ids -> Installer]  BY <1>12, InstallerMoves DEF InstallerFails
  <2> QED  BY <1>2, <1>12, <2>1 DEF InstallerFails, Moving
<1>13. ASSUME NEW i \in Ids, InstallerStarts(i) PROVE Moving'
  <2>1. install' \in [Ids -> Installer]  BY <1>13, InstallerMoves DEF InstallerStarts
  <2>2. agent' = Quiet  BY <1>13 DEF InstallerStarts, Restarted
  <2> QED  BY <1>2, <1>13, <1>q, <2>1, <2>2 DEF InstallerStarts, Moving
<1>14. ASSUME NEW i \in Ids, InstallerRollsBack(i) PROVE Moving'
  <2>1. install' \in [Ids -> Installer]  BY <1>14, InstallerMoves DEF InstallerRollsBack
  <2>2. agent' = Quiet  BY <1>14 DEF InstallerRollsBack, Restarted
  <2> QED  BY <1>2, <1>14, <1>q, <2>1, <2>2 DEF InstallerRollsBack, Moving
<1>15. ASSUME NEW i \in Ids, InstallerPasses(i) PROVE Moving'
  <2>1. install' \in [Ids -> Installer]  BY <1>15, InstallerMoves DEF InstallerPasses
  <2> QED  BY <1>2, <1>15, <2>1 DEF InstallerPasses, Moving
<1>16. ASSUME NEW i \in Ids, InstallerSays(i) PROVE Moving'
  <2>1. InstallerAck(i) \in Ack  BY DEF InstallerAck, Say, Ack
  <2>2. cmds' \in Seq(Row) /\ Len(cmds') <= keep
    BY <1>2, <1>16, <1>a, <2>1 DEF InstallerSays
  <2>3. install' \in [Ids -> Installer]
    <3>1. install' = [install EXCEPT ![i] = NoInstaller]  BY <1>16 DEF InstallerSays
    <3> QED  BY <1>2, <3>1, InstallerTypes
  <2> QED  BY <1>2, <1>16, <2>2, <2>3 DEF InstallerSays, Moving
<1>17. CASE agent_commands
  <2>1. agent' \in Agent  BY <1>17, PollAgent
  <2> QED  BY <1>2, <1>17, <2>1 DEF agent_commands, Moving
<1>18. CASE Begin
  <2>1. agent' \in Agent  BY <1>18, BeginAgent
  <2> QED  BY <1>2, <1>18, <2>1 DEF Begin, Moving
<1>19. CASE AckAnswered
  <2>0. agent.acks # <<>> /\ Proceed /\ cmds' = Acknowledged(Head(agent.acks))
    BY <1>19 DEF AckAnswered
  <2>1. /\ agent' \in Agent /\ install' \in [Ids -> Installer]
        /\ Head(agent.acks) \in Ack
    BY <2>0, ProceedAgent
  <2> QED  BY <1>2, <1>19, <1>a, <2>0, <2>1 DEF AckAnswered, Moving
<1>20. CASE AckRepeated
  <2>1. Head(agent.acks) \in Ack  BY <1>20, TypeFacts, HeadTail DEF AckRepeated
  <2> QED  BY <1>2, <1>20, <1>a, <2>1 DEF AckRepeated, Moving
<1>21. CASE AckAbandoned
  <2>0. agent.acks # <<>> /\ Proceed  BY <1>21 DEF AckAbandoned
  <2>1. agent' \in Agent /\ install' \in [Ids -> Installer]
    BY <2>0, ProceedAgent
  <2> QED  BY <1>2, <1>21, <2>1 DEF AckAbandoned, Moving
<1>22. ASSUME NEW a \in late, AckLate(a) PROVE Moving'
  <2>1. a \in Ack  BY DEF TypeOK
  <2> QED  BY <1>2, <1>22, <1>a, <2>1 DEF AckLate, Moving
<1>23. CASE agent_status
  <2>1. cmds' \in Seq(Row) /\ Len(cmds') <= keep  BY <1>23, StatusRows
  <2> QED  BY <1>2, <1>23, <2>1 DEF agent_status, Moving
<1>24. CASE HubRestart
  <2>1. worker' \in [Ids -> Worker] /\ \A j \in Ids : Len(worker'[j].doc) <= keep
    BY <1>24, <1>o, OffTypes DEF HubRestart
  <2> QED  BY <1>2, <1>24, <2>1 DEF HubRestart, Moving
<1>25. CASE AgentRestart  BY <1>2, <1>25, <1>q DEF AgentRestart, Restarted, Moving
<1>26. CASE Next
  BY <1>26, NextCases, <1>4, <1>5, <1>7, <1>8, <1>9, <1>10, <1>11, <1>12, <1>13, <1>14,
     <1>15, <1>16, <1>17, <1>18, <1>19, <1>20, <1>21, <1>22, <1>23, <1>24, <1>25
<1> QED  BY <1>3, <1>26

LEMMA TypeStep ==
    ASSUME TypeOK, HandedOut, [Next]_vars
    PROVE  TypeOK'
BY GroundStep, MovingStep DEF Ground, Moving, TypeOK
-----------------------------------------------------------------------------
(* The versions, the manifest lock and the agent's round. *)

(* Every copy of a row is a row. *)
LEMMA RowsTypes ==
    ASSUME TypeOK
    PROVE  /\ Rows \subseteq Row
           /\ \A r \in Rows : /\ r.id \in Ids /\ r.target \in Versions \cup {None}
                              /\ r.target # None => r.target \in Nat
           /\ Acks \subseteq Ack
<1>1. Of(cmds) \subseteq Row /\ Of(agent.todo) \subseteq Row /\ Of(agent.acks) \subseteq Ack
  BY TypeFacts DEF Of
<1>2. \A i \in Ids : worker[i].doc \in Seq(Row)  BY TypeFacts, WorkerFields
<1>3. \A i \in Ids : Of(worker[i].doc) \subseteq Row  BY <1>2 DEF Of
<1>4. Rows \subseteq Row  BY <1>1, <1>3 DEF Rows
<1>5. Acks \subseteq Ack  BY <1>1 DEF Acks, TypeOK
<1>6. \A r \in Rows : r.id \in Ids /\ r.target \in Versions \cup {None}  BY <1>4, RowFields
<1>7. Versions \subseteq Nat  BY VersionsAssumption DEF Versions
<1> QED  BY <1>4, <1>5, <1>6, <1>7

(* The manifest lock is respected. *)
LEMMA ExclusiveStep ==
    ASSUME TypeOK, Exclusive, [Next]_vars
    PROVE  Exclusive'
<1>1. worker \in [Ids -> Worker]  BY TypeFacts
<1>2. /\ \A i, j \in Ids : worker[i].pc \in Past /\ worker[j].pc \in Past => i = j
      /\ \A i \in Ids : worker[i].pc # "save" => worker[i].doc = <<>>
      /\ \A i \in Ids : worker[i].pc \in {"load", "save"} /\ worker[i].state = "pending"
              => worker[i].target # None
  BY DEF Exclusive
<1>3. CASE worker' = worker  BY <1>3 DEF Exclusive
<1>w. ASSUME NEW i \in Ids, NEW w \in Worker, worker' = [worker EXCEPT ![i] = w],
             w.pc \in Past => worker[i].pc \in Past \/ \A j \in Ids : worker[j].pc \notin Past,
             w.pc # "save" => w.doc = <<>>,
             w.pc \in {"load", "save"} /\ w.state = "pending" => w.target # None
      PROVE  Exclusive'
  <2>1. worker'[i] = w /\ \A j \in Ids \ {i} : worker'[j] = worker[j]  BY <1>1, <1>w
  <2>2. \A j, k \in Ids : worker'[j].pc \in Past /\ worker'[k].pc \in Past => j = k
    BY <1>2, <1>w, <2>1
  <2>3. \A j \in Ids :
          /\ worker'[j].pc # "save" => worker'[j].doc = <<>>
          /\ worker'[j].pc \in {"load", "save"} /\ worker'[j].state = "pending"
               => worker'[j].target # None
    BY <1>2, <1>w, <2>1
  <2> QED  BY <2>2, <2>3 DEF Exclusive
<1>4. CASE update_request
  <2>1. Queue("update", "preparing")  BY <1>4 DEF update_request
  <2>2. created + 1 \in Ids  BY <2>1, QueuedRow DEF States
  <2>3. PICK w \in Worker : /\ worker' = [worker EXCEPT ![created + 1] = w]
                            /\ w.pc = "lock" /\ w.doc = <<>>
    BY <1>4, <2>2, RequestWorker
  <2> QED  BY <1>w, <2>2, <2>3 DEF Past
<1>5. ASSUME NEW i \in Ids, WorkerLocks(i) PROVE Exclusive'
  <2>1. PICK w \in Worker : /\ worker' = [worker EXCEPT ![i] = w]
                            /\ w.pc = "fetch" /\ w.doc = worker[i].doc
    BY <1>5, LocksWorker
  <2>2. worker[i].pc = "lock" /\ \A j \in Ids : worker[j].pc \notin Past
    BY <1>5 DEF WorkerLocks, Past
  <2>3. worker[i].doc = <<>>  BY <1>2, <2>2
  <2> QED  BY <1>w, <2>1, <2>2, <2>3 DEF Past
<1>6. ASSUME NEW i \in Ids, WorkerFetches(i) PROVE Exclusive'
  <2>1. PICK w \in Worker, v \in Fetched(worker[i].seen) :
             /\ worker' = [worker EXCEPT ![i] = w]
             /\ w.pc = "load" /\ w.doc = worker[i].doc
             /\ w.state = IF v = None THEN "failed" ELSE "pending"
             /\ w.target = IF v = None THEN worker[i].target ELSE v
    BY <1>6, FetchesWorker
  <2>2. worker[i].pc = "fetch"  BY <1>6 DEF WorkerFetches
  <2>3. worker[i].doc = <<>> /\ worker[i].pc \in Past  BY <1>2, <2>2 DEF Past
  <2> QED  BY <1>w, <2>1, <2>3
<1>7. ASSUME NEW i \in Ids, WorkerLoads(i) PROVE Exclusive'
  <2>1. PICK w \in Worker : /\ worker' = [worker EXCEPT ![i] = w] /\ w.pc = "save"
                            /\ w.state = worker[i].state /\ w.target = worker[i].target
    BY <1>7, LoadsWorker
  <2>2. worker[i].pc = "load"  BY <1>7 DEF WorkerLoads
  <2>3. worker[i].pc \in Past  BY <2>2 DEF Past
  <2> QED  BY <1>2, <1>w, <2>1, <2>2, <2>3
<1>8. ASSUME NEW i \in Ids, WorkerSaves(i) PROVE Exclusive'
  <2>1. worker' = [worker EXCEPT ![i] = Off]  BY <1>8 DEF WorkerSaves
  <2> QED  BY <1>w, <2>1, OffTypes DEF Past
<1>9. CASE HubRestart
  <2>1. \A i \in Ids : worker'[i] = Off  BY <1>9 DEF HubRestart
  <2> QED  BY <2>1, OffTypes DEF Exclusive, Past
<1>10. CASE UNCHANGED vars  BY <1>3, <1>10 DEF vars
<1>11. CASE Next
  <2>1. \/ update_request \/ HubRestart
        \/ (\E i \in Ids : WorkerLocks(i)) \/ (\E i \in Ids : WorkerFetches(i))
        \/ (\E i \in Ids : WorkerLoads(i)) \/ (\E i \in Ids : WorkerSaves(i))
        \/ worker' = worker
    BY <1>11, NextCases, Zenon
    DEF cleanup_request, CheckEnds, InstallerFails, InstallerStarts, InstallerRollsBack,
        InstallerPasses, InstallerSays, agent_commands, Begin, AckAnswered, AckRepeated,
        AckAbandoned, AckLate, agent_status, AgentRestart
  <2> QED  BY <2>1, <1>3, <1>4, <1>5, <1>6, <1>7, <1>8, <1>9
<1> QED  BY <1>10, <1>11

(* The agent only works on pending rows. *)
LEMMA HandedOutStep ==
    ASSUME TypeOK, HandedOut, [Next]_vars
    PROVE  HandedOut'
<1>1. CASE agent' = agent  BY <1>1 DEF HandedOut
<1>2. CASE agent' = Quiet  BY <1>2, QuietTypes DEF HandedOut
<1>3. CASE agent_commands
  <2>1. /\ agent'.acks = <<>> /\ ~ agent'.spawn
        /\ \A n \in DOMAIN agent'.todo : agent'.todo[n].state = "pending"
    BY <1>3, PollAgent
  <2> QED  BY <2>1 DEF HandedOut
<1>4. CASE Begin
  <2>1. agent'.todo = agent.todo /\ agent.todo # <<>>  BY <1>4, BeginAgent
  <2> QED  BY <2>1 DEF HandedOut
<1>5. CASE agent.acks # <<>> /\ Proceed  BY <1>5, ProceedAgent
<1>6. CASE UNCHANGED vars  BY <1>1, <1>6 DEF vars
<1>7. CASE Next
  <2>1. \/ agent' = agent \/ agent' = Quiet \/ agent_commands \/ Begin
        \/ agent.acks # <<>> /\ Proceed
    BY <1>7, NextCases, Zenon
    DEF update_request, cleanup_request, CheckEnds, WorkerLocks, WorkerFetches, WorkerLoads,
        WorkerSaves, InstallerFails, InstallerStarts, InstallerRollsBack, InstallerPasses,
        InstallerSays, Restarted, AckAnswered, AckRepeated, AckAbandoned, AckLate, agent_status,
        AgentRestart, HubRestart
  <2> QED  BY <2>1, <1>1, <1>2, <1>3, <1>4, <1>5
<1> QED  BY <1>6, <1>7
(* Whoever restarts the agent, its version counts for every command there   *)
(* is, and what a command has earned it keeps.                              *)
LEMMA PeakStep ==
    ASSUME TypeOK, HandedOut, Peaked, [Next]_vars
    PROVE  /\ Peaked' /\ passed \subseteq passed'
           /\ \A i \in Ids : i <= created => peak[i] <= peak'[i]
<1> DEFINE Goal == /\ Peaked' /\ passed \subseteq passed'
                   /\ \A i \in Ids : i <= created => peak[i] <= peak'[i]
<1>1. created \in Nat /\ version \in Nat /\ \A i \in Ids : peak[i] \in Nat /\ i \in Nat
  BY TypeFacts, VersionsAssumption DEF Versions, Ids
<1>2. \A i \in Ids : i <= created => version <= peak[i]  BY DEF Peaked
<1>s. UNCHANGED <<created, version, peak>> /\ passed \subseteq passed' => Goal
  BY <1>1, <1>2 DEF Peaked
<1>r. ASSUME NEW v \in Versions, Restarted(v), UNCHANGED <<created, passed>> PROVE Goal
  <2>1. version' = v /\ \A i \in Ids : peak[i] <= peak'[i] /\ (i <= created => v <= peak'[i])
    BY <1>r, RestartTypes
  <2> QED  BY <1>r, <2>1 DEF Peaked
<1>q. ASSUME NEW x \in {"update", "cleanup"}, NEW st \in States, Queue(x, st),
             UNCHANGED <<version, passed>>
      PROVE  Goal
  <2>1. created' = created + 1 /\ created + 1 \in Ids  BY <1>q, QueuedRow
  <2>2. peak'[created + 1] = version /\ \A i \in Ids : i # created + 1 => peak'[i] = peak[i]
    BY <1>q, QueuedPeak
  <2>3. \A i \in Ids : i <= created' => i = created + 1 \/ i <= created  BY <1>1, <2>1
  <2>4. \A i \in Ids : i <= created => peak[i] <= peak'[i]  BY <1>1, <2>2
  <2>5. \A i \in Ids : i <= created' => version' <= peak'[i]
    BY <1>1, <1>2, <1>q, <2>2, <2>3
  <2> QED  BY <1>q, <2>4, <2>5 DEF Peaked
<1>3. CASE update_request  BY <1>3, <1>q DEF update_request, States
<1>4. CASE cleanup_request  BY <1>4, <1>q DEF cleanup_request, States
<1>5. ASSUME NEW i \in Ids, InstallerStarts(i) PROVE Goal
  BY <1>5, <1>r DEF InstallerStarts
<1>6. ASSUME NEW i \in Ids, InstallerRollsBack(i) PROVE Goal
  <2>1. install[i].old \in Versions  BY TypeFacts, InstallerTypes
  <2> QED  BY <1>6, <1>r, <2>1 DEF InstallerRollsBack
<1>7. ASSUME NEW i \in Ids, InstallerPasses(i) PROVE Goal
  BY <1>7, <1>s DEF InstallerPasses
<1>8. CASE AgentRestart
  <2>1. version \in Versions  BY TypeFacts
  <2> QED  BY <1>8, <1>r, <2>1 DEF AgentRestart
<1>9. CASE UNCHANGED vars  BY <1>9, <1>s DEF vars
<1>10. CASE Next
  <2>1. \/ update_request \/ cleanup_request \/ AgentRestart
        \/ (\E i \in Ids : InstallerStarts(i)) \/ (\E i \in Ids : InstallerRollsBack(i))
        \/ (\E i \in Ids : InstallerPasses(i))
        \/ UNCHANGED <<created, version, peak, passed>>
    BY <1>10, NextCases, Zenon
    DEF CheckEnds, WorkerLocks, WorkerFetches, WorkerLoads, WorkerSaves, InstallerFails,
        InstallerSays, agent_commands, Begin, AckAnswered, AckRepeated, AckAbandoned, AckLate,
        agent_status, HubRestart
  <2> QED  BY <2>1, <1>s, <1>3, <1>4, <1>5, <1>6, <1>7, <1>8
<1> QED  BY <1>9, <1>10
-----------------------------------------------------------------------------
(* The copies of the rows. *)

(* A copy r after a step comes from a copy s before it: it is the same but  *)
(* for a state that an acknowledgement or the agent's version gave it.      *)
Follows(r, s) ==
    /\ r.id = s.id /\ r.action = s.action /\ r.target = s.target
    /\ \/ r.state = s.state
       \/ Known(s.id) /\ (r.state = "completed" => Told(s.id)) /\ r.state \notin {"preparing", "pending"}
       \/ s.state = "accepted" /\ r.state = "completed" /\ version >= s.target

(* A step that creates no command and gives none its target. *)
Carried ==
    /\ created' = created
    /\ \A r \in Rows' : \E s \in Rows : Follows(r, s)
    /\ \A i \in Ids :
         /\ Known(i)' => Known(i) \/ \E s \in Of(agent.todo) : s.id = i
         /\ Told(i)' => \/ Told(i)
                        \/ \E s \in Of(agent.todo) : s.id = i /\ s.action = "cleanup"
                        \/ i \in passed'
         /\ worker'[i].pc # "off" => worker[i].pc # "off"

LEMMA CarriedCopies ==
    ASSUME TypeOK, TypeOK', Peaked, HandedOut, Copies, Carried, passed \subseteq passed',
           \A i \in Ids : i <= created => peak[i] <= peak'[i]
    PROVE  Copies'
<1>1. \A r \in Rows : /\ r.id \in Ids /\ r.target \in Versions \cup {None}
                      /\ r.target # None => r.target \in Nat
  BY RowsTypes
<1>2. /\ created \in Nat /\ version \in Nat
      /\ \A i \in Ids : peak[i] \in Nat /\ peak'[i] \in Nat
  BY VersionsAssumption, BoundsAssumption DEF TypeOK, Versions
<1>3. \A s \in Of(agent.todo) : s \in Rows /\ s.state = "pending"  BY DEF Rows, HandedOut, Of
<1>4. \A i \in Ids : Told(i) => Known(i)  BY DEF Told, Known
<1>5. /\ created' = created
      /\ \A r \in Rows' : \E s \in Rows : Follows(r, s)
      /\ \A i \in Ids : Known(i)' => Known(i) \/ \E s \in Of(agent.todo) : s.id = i
      /\ \A i \in Ids : Told(i)' => \/ Told(i)
                                    \/ \E s \in Of(agent.todo) : s.id = i /\ s.action = "cleanup"
                                    \/ i \in passed'
      /\ \A i \in Ids : worker'[i].pc # "off" => worker[i].pc # "off"
  BY DEF Carried
<1>6. /\ \A r \in Rows : r.id <= created
      /\ \A i \in Ids : worker[i].pc # "off" \/ Known(i) => i <= created
      /\ \A r, s \in Rows : r.id = s.id => r.action = s.action /\ r.target = s.target
      /\ \A i \in Ids : worker[i].pc # "off" =>
            ~ Known(i) /\ \A r \in Rows : r.id = i => r.state = "preparing"
      /\ \A r \in Rows : r.action = "update" /\ (r.state \in {"pending", "accepted", "completed"} \/ Known(r.id))
                           => r.target # None
      /\ \A r \in Rows : r.action = "update" /\ (r.state = "completed" \/ Told(r.id)) => Earned(r)
      /\ \A i \in Ids : i <= created => version <= peak[i]
  BY DEF Copies, Fresh, Agree, Running, Targeted, Believed, Peaked
<1>7. Fresh'
  <2>1. \A r \in Rows' : r.id <= created'  BY <1>5, <1>6 DEF Follows
  <2>2. \A i \in Ids : worker'[i].pc # "off" \/ Known(i)' => i <= created'
    BY <1>3, <1>5, <1>6
  <2> QED  BY <2>1, <2>2 DEF Fresh
<1>8. Agree'
  <2>1. \A r, s \in Rows' : r.id = s.id => r.action = s.action /\ r.target = s.target
    BY <1>5, <1>6 DEF Follows
  <2> QED  BY <2>1 DEF Agree
<1>9. Running'
  <2>1. ASSUME NEW i \in Ids, worker'[i].pc # "off"
        PROVE  ~ Known(i)' /\ \A r \in Rows' : r.id = i => r.state = "preparing"
    <3>1. ~ Known(i) /\ \A r \in Rows : r.id = i => r.state = "preparing"  BY <1>5, <1>6, <2>1
    <3>2. ~ Known(i)'  BY <1>3, <1>5, <3>1
    <3>3. \A r \in Rows' : r.id = i => r.state = "preparing"  BY <1>5, <3>1 DEF Follows
    <3> QED  BY <3>2, <3>3
  <2> QED  BY <2>1 DEF Running
<1>10. ASSUME NEW r \in Rows', r.action = "update",
              r.state \in {"pending", "accepted", "completed"} \/ Known(r.id)'
       PROVE  r.target # None
  <2>1. PICK s \in Rows : Follows(r, s)  BY <1>5
  <2>2. r.id \in Ids /\ r.id = s.id /\ s.action = "update" /\ r.target = s.target
    BY <1>1, <1>10, <2>1 DEF Follows
  <2>3. CASE Known(s.id)  BY <1>6, <2>2, <2>3
  <2>4. CASE ~ Known(s.id) /\ Known(r.id)'
    <3>1. PICK t \in Of(agent.todo) : t.id = s.id  BY <1>5, <2>2, <2>4
    <3>2. t.action = "update" /\ t.target = s.target  BY <1>3, <1>6, <2>2, <3>1
    <3> QED  BY <1>3, <1>6, <2>2, <3>1, <3>2
  <2>5. CASE ~ Known(s.id) /\ ~ Known(r.id)'
    <3>1. s.state \in {"pending", "accepted", "completed"}  BY <1>10, <2>1, <2>5 DEF Follows
    <3> QED  BY <1>6, <2>2, <3>1
  <2> QED  BY <2>3, <2>4, <2>5
<1>11. ASSUME NEW r \in Rows', r.action = "update", r.state = "completed" \/ Told(r.id)'
       PROVE  Earned(r)'
  <2>1. PICK s \in Rows : Follows(r, s)  BY <1>5
  <2>2. r.id \in Ids /\ r.id = s.id /\ s.action = "update" /\ r.target = s.target
    BY <1>1, <1>11, <2>1 DEF Follows
  <2>3. ~ \E t \in Of(agent.todo) : t.id = r.id /\ t.action = "cleanup"
    BY <1>3, <1>6, <2>2
  <2>4. peak[s.id] <= peak'[s.id] /\ version <= peak[s.id]  BY <1>6, <2>2
  <2>5. CASE s.state = "completed" \/ Told(s.id)
    <3>1. s.id \in passed \/ (s.target # None /\ peak[s.id] >= s.target)
      BY <1>6, <2>2, <2>5 DEF Earned
    <3>2. s.target # None /\ peak[s.id] >= s.target => peak'[s.id] >= s.target
      BY <1>1, <1>2, <2>2, <2>4
    <3> QED  BY <2>2, <3>1, <3>2 DEF Earned
  <2>6. CASE s.state = "accepted" /\ version >= s.target
    <3>1. s.target # None  BY <1>6, <2>2, <2>6
    <3>2. peak'[s.id] >= s.target  BY <1>1, <1>2, <2>2, <2>4, <2>6, <3>1
    <3> QED  BY <2>2, <3>1, <3>2 DEF Earned
  <2>7. CASE r.id \in passed'
    BY <2>7 DEF Earned
  <2> QED  BY <1>5, <1>11, <2>1, <2>2, <2>3, <2>5, <2>6, <2>7 DEF Follows
<1>13. Targeted'  BY <1>10 DEF Targeted
<1>14. Believed'  BY <1>11 DEF Believed
<1> QED  BY <1>7, <1>8, <1>9, <1>13, <1>14 DEF Copies
(* A new command: nothing else bears its number. *)
LEMMA NewCopies ==
    ASSUME TypeOK, Copies, NEW x \in {"update", "cleanup"}, NEW st \in States,
           x = "update" => st = "preparing", Queue(x, st),
           UNCHANGED <<agent, install, late, passed>>,
           \A i \in Ids : worker'[i].doc = worker[i].doc \/ worker'[i].doc = <<>>,
           \A i \in Ids : worker'[i].pc # "off" => \/ worker[i].pc # "off"
                                                   \/ i = created + 1 /\ st = "preparing"
    PROVE  Copies'
<1>1. PICK n \in Row : /\ n.id = created + 1 /\ n.action = x /\ n.state = st /\ n.target = None
                       /\ Of(cmds') \subseteq Of(cmds) \cup {n}
                       /\ created + 1 \in Ids /\ created' = created + 1
  BY QueuedRow
<1>2. created \in Nat  BY TypeFacts
<1>3. \A i \in Ids : Of(worker'[i].doc) \subseteq Of(worker[i].doc)  BY OfEmpty
<1>4. \A r \in Rows' : r \in Rows \/ r = n  BY <1>1, <1>3 DEF Rows
<1>5. \A i \in Ids : (Known(i)' <=> Known(i)) /\ (Told(i)' <=> Told(i)) /\ (Told(i) => Known(i))
  BY DEF Known, Told, Acks
<1>6. /\ \A r \in Rows : r.id <= created /\ r.id \in Nat /\ r.id \in Ids
      /\ \A i \in Ids : worker[i].pc # "off" \/ Known(i) => i <= created
      /\ \A r, s \in Rows : r.id = s.id => r.action = s.action /\ r.target = s.target
      /\ \A i \in Ids : worker[i].pc # "off" =>
            ~ Known(i) /\ \A r \in Rows : r.id = i => r.state = "preparing"
      /\ \A r \in Rows : r.action = "update" /\ (r.state \in {"pending", "accepted", "completed"} \/ Known(r.id))
                           => r.target # None
      /\ \A r \in Rows : r.action = "update" /\ (r.state = "completed" \/ Told(r.id)) => Earned(r)
  BY RowsTypes DEF Copies, Fresh, Agree, Running, Targeted, Believed, Ids
<1>7. \A r \in Rows : r.id # n.id  BY <1>1, <1>2, <1>6
<1>e. \A r \in Rows : Earned(r) => Earned(r)'
  <2>1. \A i \in Ids : i # created + 1 => peak'[i] = peak[i]  BY QueuedPeak
  <2>2. \A r \in Rows : peak'[r.id] = peak[r.id]  BY <1>1, <1>6, <1>7, <2>1
  <2> QED  BY <2>2 DEF Earned
<1>8. \A i \in Ids : i <= created => i <= created' /\ i # n.id  BY <1>1, <1>2 DEF Ids
<1>9. ~ Known(n.id) /\ ~ Told(n.id)  BY <1>1, <1>5, <1>6, <1>8
<1>10. Fresh'
  <2>1. \A r \in Rows' : r.id <= created'  BY <1>1, <1>2, <1>4, <1>6
  <2>2. \A i \in Ids : worker'[i].pc # "off" \/ Known(i)' => i <= created'
    BY <1>1, <1>2, <1>5, <1>6, <1>8
  <2> QED  BY <2>1, <2>2 DEF Fresh
<1>11. Agree'  BY <1>4, <1>6, <1>7 DEF Agree
<1>12. Running'
  <2>1. ASSUME NEW i \in Ids, worker'[i].pc # "off"
        PROVE  ~ Known(i)' /\ \A r \in Rows' : r.id = i => r.state = "preparing"
    <3>1. CASE worker[i].pc # "off"  BY <1>4, <1>5, <1>6, <1>8, <3>1
    <3>2. CASE i = created + 1 /\ st = "preparing"  BY <1>1, <1>4, <1>5, <1>7, <1>9, <3>2
    <3> QED  BY <2>1, <3>1, <3>2
  <2> QED  BY <2>1 DEF Running
<1>13. Targeted'
  <2>1. ASSUME NEW r \in Rows', r.action = "update",
               r.state \in {"pending", "accepted", "completed"} \/ Known(r.id)'
        PROVE  r.target # None
    <3>1. CASE r \in Rows  BY <1>5, <1>6, <2>1, <3>1
    <3>2. CASE r = n  BY <1>1, <1>5, <1>9, <2>1, <3>2
    <3> QED  BY <1>4, <3>1, <3>2
  <2> QED  BY <2>1 DEF Targeted
<1>14. Believed'
  <2>1. ASSUME NEW r \in Rows', r.action = "update", r.state = "completed" \/ Told(r.id)'
        PROVE  Earned(r)'
    <3>0. r.id \in Ids  BY <1>1, <1>4, <1>6
    <3>1. CASE r \in Rows  BY <1>5, <1>6, <1>e, <2>1, <3>0, <3>1
    <3>2. CASE r = n  BY <1>1, <1>5, <1>9, <2>1, <3>0, <3>2
    <3> QED  BY <1>4, <3>1, <3>2
  <2> QED  BY <2>1 DEF Believed
<1> QED  BY <1>10, <1>11, <1>12, <1>13, <1>14 DEF Copies

(* The worker of a command writes its document: nobody else holds one, the  *)
(* router has not heard of the command, and the target is there before the  *)
(* row is pending.                                                          *)
LEMMA SavedCopies ==
    ASSUME CommandInv, TypeOK', NEW i \in Ids, WorkerSaves(i)
    PROVE  Copies'
<1>0. TypeOK /\ Peaked /\ Exclusive /\ HandedOut /\ Copies  BY DEF CommandInv
<1>1. /\ worker' = [worker EXCEPT ![i] = Off] /\ worker[i].pc = "save"
      /\ UNCHANGED <<created, agent, install, version, late, peak, passed>>
  BY DEF WorkerSaves
<1>2. worker \in [Ids -> Worker]  BY <1>0, TypeFacts
<1>3. worker'[i] = Off /\ \A j \in Ids \ {i} : worker'[j] = worker[j]  BY <1>1, <1>2
<1>4. \A j \in Ids \ {i} : worker[j].doc = <<>>
  BY <1>0, <1>1, <1>2, WorkerFields DEF Exclusive, Past
<1>5. \A j \in Ids : worker'[j].doc = <<>>  BY <1>3, <1>4, OffTypes
<1>6. Rows' = Of(cmds') \cup Of(agent.todo)  BY <1>1, <1>5, OfEmpty DEF Rows
<1>7. /\ Of(cmds) \subseteq Rows /\ Of(agent.todo) \subseteq Rows /\ Of(worker[i].doc) \subseteq Rows
      /\ \A s \in Of(agent.todo) : s.state = "pending"
  BY <1>0 DEF Rows, HandedOut, Of
<1>8. \A j \in Ids : (Known(j)' <=> Known(j)) /\ (Told(j)' <=> Told(j)) /\ (Told(j) => Known(j))
  BY <1>1 DEF Known, Told, Acks
<1>9. \A j \in Ids : worker'[j].pc # "off" => worker[j].pc # "off" /\ j # i
  BY <1>3, OffTypes
<1>10. \A j \in Ids : peak[j] <= peak'[j]  BY <1>0, <1>1, TypeFacts
<1>11. CASE cmds' = cmds
  <2>1. \A r \in Rows' : r \in Rows  BY <1>6, <1>7, <1>11
  <2>2. Carried  BY <1>1, <1>8, <1>9, <2>1 DEF Carried, Follows
  <2> QED  BY <1>0, <1>1, <1>10, <2>2, CarriedCopies
<1>12. CASE cmds' # cmds
  <2> DEFINE w == worker[i]
             Mine(r) == \E s \in Rows :
                           /\ s.id = i /\ r.id = i /\ r.action = s.action /\ r.state = w.state
                           /\ r.target = IF w.state = "pending" THEN w.target ELSE s.target
  <2>1. \A r \in Of(cmds') : (r \in Rows /\ r.id # i) \/ Mine(r)
    BY <1>0, <1>7, <1>12, SavedRows
  <2>2. /\ \A r \in Rows : r.id <= created /\ r.id \in Ids
        /\ \A j \in Ids : worker[j].pc # "off" \/ Known(j) => j <= created
        /\ \A r, s \in Rows : r.id = s.id => r.action = s.action /\ r.target = s.target
        /\ \A j \in Ids : worker[j].pc # "off" =>
              ~ Known(j) /\ \A r \in Rows : r.id = j => r.state = "preparing"
        /\ \A r \in Rows : r.action = "update" /\ (r.state \in {"pending", "accepted", "completed"} \/ Known(r.id))
                             => r.target # None
        /\ \A r \in Rows : r.action = "update" /\ (r.state = "completed" \/ Told(r.id)) => Earned(r)
    BY <1>0, RowsTypes DEF Copies, Fresh, Agree, Running, Targeted, Believed
  <2>3. ~ Known(i) /\ ~ Told(i) /\ \A r \in Rows : r.id = i => r.state = "preparing"
    BY <1>1, <1>8, <2>2
  <2>4. \A r \in Rows' : (r \in Rows /\ r.id # i) \/ Mine(r)
    BY <1>6, <1>7, <2>1, <2>3
  <2>5. w.state \in {"pending", "failed"} /\ (w.state = "pending" => w.target # None)
    BY <1>0, <1>1, <1>2, WorkerFields DEF Exclusive
  <2>6. \A r, s \in Rows' : r.id = s.id => r.action = s.action /\ r.target = s.target
    BY <2>2, <2>4
  <2>7. \A r \in Rows' : Mine(r) => /\ r.id = i /\ r.state \in {"pending", "failed"}
                                    /\ r.state = "pending" => r.target # None
    <3> TAKE r \in Rows'
    <3> SUFFICES ASSUME Mine(r)
                 PROVE  /\ r.id = i /\ r.state \in {"pending", "failed"}
                        /\ r.state = "pending" => r.target # None
      OBVIOUS
    <3>1. PICK s \in Rows : /\ r.id = i /\ r.state = w.state
                            /\ r.target = IF w.state = "pending" THEN w.target ELSE s.target
      OBVIOUS
    <3> HIDE DEF Mine, w
    <3> QED  BY <2>5, <3>1
  <2> HIDE DEF Mine, w
  <2>8. Fresh'
    <3>1. \A r \in Rows' : r.id <= created'  BY <1>1, <2>2, <2>4, <2>7
    <3>2. \A j \in Ids : worker'[j].pc # "off" \/ Known(j)' => j <= created'
      BY <1>1, <1>8, <1>9, <2>2
    <3> QED  BY <3>1, <3>2 DEF Fresh
  <2>9. Agree'  BY <2>6 DEF Agree
  <2>10. Running'
    <3>1. ASSUME NEW j \in Ids, worker'[j].pc # "off"
          PROVE  ~ Known(j)' /\ \A r \in Rows' : r.id = j => r.state = "preparing"
      <4>1. j # i /\ ~ Known(j) /\ \A r \in Rows : r.id = j => r.state = "preparing"
        BY <1>9, <2>2, <3>1
      <4> QED  BY <1>8, <2>4, <2>7, <4>1
    <3> QED  BY <3>1 DEF Running
  <2>11. Targeted'
    <3>1. ASSUME NEW r \in Rows', r.action = "update",
                 r.state \in {"pending", "accepted", "completed"} \/ Known(r.id)'
          PROVE  r.target # None
      <4>1. CASE r \in Rows  BY <1>8, <2>2, <3>1, <4>1
      <4>2. CASE Mine(r)  BY <1>8, <2>3, <2>7, <3>1, <4>2
      <4> QED  BY <2>4, <4>1, <4>2
    <3> QED  BY <3>1 DEF Targeted
  <2>12. Believed'
    <3>1. ASSUME NEW r \in Rows', r.action = "update", r.state = "completed" \/ Told(r.id)'
          PROVE  Earned(r)'
      <4>1. CASE r \in Rows
        <5>1. Earned(r)  BY <1>8, <2>2, <3>1, <4>1
        <5> QED  BY <1>1, <5>1 DEF Earned
      <4>2. CASE Mine(r)  BY <1>8, <2>3, <2>7, <3>1, <4>2
      <4> QED  BY <2>4, <4>1, <4>2
    <3> QED  BY <3>1 DEF Believed
  <2> QED  BY <2>8, <2>9, <2>10, <2>11, <2>12 DEF Copies
<1> QED  BY <1>11, <1>12
(* An acknowledgement of a command the router knows, true if it says        *)
(* completed.                                                               *)
LEMMA AckFollows ==
    ASSUME TypeOK, NEW a \in Ack, cmds' = Acknowledged(a), worker' = worker,
           Known(a.id), a.state = "completed" => Told(a.id),
           Of(agent'.todo) \subseteq Of(agent.todo)
    PROVE  \A r \in Rows' : \E s \in Rows : Follows(r, s)
<1>1. cmds \in Seq(Row)  BY TypeFacts
<1>2. a.state \notin {"preparing", "pending"}  BY AckFields
<1>3. \A r \in Of(cmds') : \E s \in Of(cmds) :
         /\ r.id = s.id /\ r.action = s.action /\ r.target = s.target
         /\ r.state = s.state \/ (s.id = a.id /\ r.state = a.state)
  BY <1>1, AcknowledgedRows
<1>4. \A r \in Of(cmds') : \E s \in Of(cmds) : Follows(r, s)
  <2> TAKE r \in Of(cmds')
  <2>1. PICK s \in Of(cmds) : /\ r.id = s.id /\ r.action = s.action /\ r.target = s.target
                              /\ r.state = s.state \/ (s.id = a.id /\ r.state = a.state)
    BY <1>3
  <2>2. Follows(r, s)  BY <1>2, <2>1 DEF Follows
  <2> QED  BY <2>2
<1>5. \A r \in Rows : Follows(r, r)  BY DEF Follows
<1>6. \A r \in Rows' : r \in Rows \/ r \in Of(cmds')  BY DEF Rows
<1>7. Of(cmds) \subseteq Rows  BY DEF Rows
<1> QED  BY <1>4, <1>5, <1>6, <1>7

(* The steps that leave every command as it was, but for its state. *)
LEMMA CarriedStep ==
    ASSUME CommandInv, TypeOK', Next
    PROVE  \/ Carried
           \/ update_request \/ cleanup_request \/ \E i \in Ids : WorkerSaves(i)
<1>0. TypeOK /\ Peaked /\ Exclusive /\ HandedOut /\ Copies  BY DEF CommandInv
<1>2. worker \in [Ids -> Worker]  BY <1>0, TypeFacts
<1>3. \A r \in Rows : Follows(r, r)  BY DEF Follows
<1>4. /\ Of(cmds) \subseteq Rows /\ Of(agent.todo) \subseteq Rows
      /\ \A i \in Ids : Of(worker[i].doc) \subseteq Rows
      /\ Of(agent.acks) \subseteq Acks /\ late \subseteq Acks
  BY DEF Rows, Acks
<1>5. install \in [Ids -> Installer] /\ late \subseteq Ack
  BY <1>0 DEF TypeOK
\* no new rows, no new acknowledgements, installers only done, workers only ended
<1>s. ASSUME created' = created, Of(cmds') \subseteq Rows, Of(agent'.todo) \subseteq Rows,
             \A i \in Ids : Of(worker'[i].doc) \subseteq Rows,
             Of(agent'.acks) \subseteq Acks, late' \subseteq Acks,
             \A i \in Ids : install'[i].pc # "none" => install[i].pc # "none",
             \A i \in Ids : install'[i].pc = "passed" => install[i].pc = "passed" \/ i \in passed',
             \A i \in Ids : worker'[i].pc # "off" => worker[i].pc # "off"
      PROVE  Carried
  <2>1. \A r \in Rows' : r \in Rows  BY <1>s DEF Rows
  <2>2. \A a \in Acks' : a \in Acks  BY <1>s DEF Acks
  <2>3. \A i \in Ids : Known(i)' => Known(i)  BY <1>s, <2>2 DEF Known
  <2>4. \A i \in Ids : Told(i)' => Told(i) \/ i \in passed'
    <3> TAKE i \in Ids
    <3>1. CASE install'[i].pc = "passed"  BY <1>s, <3>1 DEF Told
    <3>2. CASE install'[i].pc # "passed"  BY <2>2, <3>2 DEF Told
    <3> QED  BY <3>1, <3>2
  <2> QED  BY <1>3, <1>s, <2>1, <2>3, <2>4 DEF Carried
<1>q. Of(Quiet.todo) = {} /\ Of(Quiet.acks) = {}  BY QuietTypes, OfEmpty
<1>7. CASE CheckEnds  BY <1>4, <1>7, <1>s DEF CheckEnds
\* an installer goes on, with or without a restart of the agent
<1>i. ASSUME NEW i \in Ids, NEW x \in {"started", "passed", "failed"}, install[i].pc # "none",
             install' = [install EXCEPT ![i].pc = x], x = "passed" => i \in passed',
             agent' = agent \/ agent' = Quiet, UNCHANGED <<cmds, created, worker, late>>
      PROVE  Carried
  <2>1. install'[i].pc = x /\ \A j \in Ids \ {i} : install'[j] = install[j]
    BY <1>0, <1>i, InstallerMoves
  <2>2. Of(agent'.todo) \subseteq Rows /\ Of(agent'.acks) \subseteq Acks  BY <1>4, <1>i, <1>q
  <2> QED  BY <1>4, <1>i, <1>s, <2>1, <2>2
<1>8. ASSUME NEW i \in Ids, WorkerLocks(i) PROVE Carried
  <2>1. PICK w \in Worker : worker' = [worker EXCEPT ![i] = w] /\ w.doc = worker[i].doc
    BY <1>0, <1>8, LocksWorker
  <2>2. worker'[i] = w /\ \A j \in Ids \ {i} : worker'[j] = worker[j]  BY <1>2, <2>1
  <2>3. worker[i].pc # "off"  BY <1>8 DEF WorkerLocks
  <2>4. \A j \in Ids : Of(worker'[j].doc) \subseteq Rows  BY <1>4, <2>1, <2>2
  <2> QED  BY <1>4, <1>8, <1>s, <2>2, <2>3, <2>4 DEF WorkerLocks
<1>9. ASSUME NEW i \in Ids, WorkerFetches(i) PROVE Carried
  <2>1. PICK w \in Worker : worker' = [worker EXCEPT ![i] = w] /\ w.doc = worker[i].doc
    BY <1>0, <1>9, FetchesWorker
  <2>2. worker'[i] = w /\ \A j \in Ids \ {i} : worker'[j] = worker[j]  BY <1>2, <2>1
  <2>3. worker[i].pc # "off"  BY <1>9 DEF WorkerFetches
  <2>4. \A j \in Ids : Of(worker'[j].doc) \subseteq Rows  BY <1>4, <2>1, <2>2
  <2> QED  BY <1>4, <1>9, <1>s, <2>2, <2>3, <2>4 DEF WorkerFetches
<1>10. ASSUME NEW i \in Ids, WorkerLoads(i) PROVE Carried
  <2>1. PICK w \in Worker : worker' = [worker EXCEPT ![i] = w] /\ w.doc = cmds
    BY <1>0, <1>10, LoadsWorker
  <2>2. worker'[i] = w /\ \A j \in Ids \ {i} : worker'[j] = worker[j]  BY <1>2, <2>1
  <2>3. worker[i].pc # "off"  BY <1>10 DEF WorkerLoads
  <2>4. \A j \in Ids : Of(worker'[j].doc) \subseteq Rows  BY <1>4, <2>1, <2>2
  <2> QED  BY <1>4, <1>10, <1>s, <2>2, <2>3, <2>4 DEF WorkerLoads
<1>11. ASSUME NEW i \in Ids, InstallerFails(i) \/ InstallerPasses(i) PROVE Carried
  BY <1>0, <1>11, <1>i DEF InstallerFails, InstallerPasses
<1>12. ASSUME NEW i \in Ids, InstallerStarts(i) \/ InstallerRollsBack(i) PROVE Carried
  BY <1>0, <1>12, <1>i DEF InstallerStarts, InstallerRollsBack, Restarted
<1>13. ASSUME NEW i \in Ids, InstallerSays(i) PROVE Carried
  <2> DEFINE a == InstallerAck(i)
  <2>1. /\ install[i].pc \in {"passed", "failed"} /\ install' = [install EXCEPT ![i] = NoInstaller]
        /\ UNCHANGED <<created, worker, agent>>
        /\ (cmds' = Acknowledged(a) /\ late' = late) \/ (cmds' = cmds /\ late' \subseteq late \cup {a})
    BY <1>13 DEF InstallerSays
  <2>2. a \in Ack /\ a.id = i /\ (a.state = "completed" => install[i].pc = "passed")
    BY DEF InstallerAck, Say, Ack
  <2>3. Known(i) /\ (a.state = "completed" => Told(i))  BY <2>1, <2>2 DEF Known, Told
  <2> HIDE DEF a
  <2>4. \A r \in Rows' : \E s \in Rows : Follows(r, s)
    <3>1. CASE cmds' = Acknowledged(a)  BY <1>0, <2>1, <2>2, <2>3, <3>1, AckFollows
    <3>2. CASE cmds' = cmds
      <4>1. \A r \in Rows' : r \in Rows  BY <2>1, <3>2 DEF Rows
      <4> QED  BY <1>3, <4>1
    <3> QED  BY <2>1, <3>1, <3>2
  <2>5. \A b \in Acks' : b \in Acks \/ b = a  BY <2>1 DEF Acks
  <2>6. \A j \in Ids : (install'[j].pc # "none" => install[j].pc # "none")
                       /\ (install'[j].pc = "passed" => install[j].pc = "passed")
    BY <1>5, <2>1, InstallerTypes
  <2>7. \A j \in Ids : (Known(j)' => Known(j)) /\ (Told(j)' => Told(j))
    BY <2>2, <2>3, <2>5, <2>6 DEF Known, Told
  <2> QED  BY <2>1, <2>4, <2>7 DEF Carried
<1>16. CASE agent_commands
  <2>1. agent'.acks = <<>> /\ Of(agent'.todo) \subseteq Of(cmds)  BY <1>0, <1>16, PollAgent
  <2>2. Of(agent'.acks) = {}  BY <2>1, OfEmpty
  <2> QED  BY <1>4, <1>16, <1>s, <2>1, <2>2 DEF agent_commands
<1>17. CASE Begin
  <2> DEFINE h == Head(agent.todo)
  <2>1. /\ agent'.todo = agent.todo /\ agent.todo # <<>>
        /\ \A a \in Of(agent'.acks) : a.id = h.id /\ (a.state = "completed" => h.action = "cleanup")
    BY <1>0, <1>17, BeginAgent
  <2>2. h \in Of(agent.todo)  BY <1>0, <2>1, TypeFacts, HeadTail
  <2>3. UNCHANGED <<cmds, created, worker, install, version, late>>  BY <1>17 DEF Begin
  <2> HIDE DEF h
  <2>4. \A r \in Rows' : r \in Rows  BY <2>1, <2>3 DEF Rows
  <2>5. \A a \in Acks' : a \in Acks \/ (a.id = h.id /\ (a.state = "completed" => h.action = "cleanup"))
    BY <2>1, <2>3 DEF Acks
  <2>6. \A i \in Ids : Known(i)' => Known(i) \/ i = h.id  BY <2>3, <2>5 DEF Known
  <2>7. \A i \in Ids : Told(i)' => Told(i) \/ (i = h.id /\ h.action = "cleanup")
    BY <2>3, <2>5 DEF Told
  <2> QED  BY <1>3, <2>2, <2>3, <2>4, <2>6, <2>7 DEF Carried
\* an acknowledgement of the agent's: what it leaves behind
<1>p. ASSUME agent.acks # <<>>, Proceed, UNCHANGED <<created, worker, version>>,
             late' \subseteq late \cup {Head(agent.acks)},
             cmds' = Acknowledged(Head(agent.acks)) \/ cmds' = cmds
      PROVE  Carried
  <2> DEFINE a == Head(agent.acks)
  <2>1. /\ Of(agent'.todo) \subseteq Of(agent.todo) /\ Of(agent'.acks) \subseteq Of(agent.acks)
        /\ a \in Of(agent.acks) /\ a \in Ack
        /\ \A i \in Ids : \/ install'[i] = install[i]
                          \/ install'[i].pc = "running" /\ \E s \in Of(agent.todo) : s.id = i
    BY <1>0, <1>p, ProceedAgent
  <2>2. a \in Acks /\ Known(a.id) /\ (a.state = "completed" => Told(a.id))
    BY <1>4, <2>1 DEF Known, Told
  <2> HIDE DEF a
  <2>3. \A r \in Rows' : \E s \in Rows : Follows(r, s)
    <3>1. CASE cmds' = Acknowledged(a)  BY <1>0, <1>p, <2>1, <2>2, <3>1, AckFollows
    <3>2. CASE cmds' = cmds
      <4>1. \A r \in Rows' : r \in Rows  BY <1>p, <2>1, <3>2 DEF Rows
      <4> QED  BY <1>3, <4>1
    <3> QED  BY <1>p, <3>1, <3>2 DEF a
  <2>4. \A b \in Acks' : b \in Acks  BY <1>p, <2>1, <2>2 DEF Acks, a
  <2>5. \A i \in Ids : Known(i)' => Known(i) \/ \E s \in Of(agent.todo) : s.id = i
    BY <2>1, <2>4 DEF Known
  <2>6. \A i \in Ids : Told(i)' => Told(i)  BY <2>1, <2>4 DEF Told
  <2> QED  BY <1>p, <2>3, <2>5, <2>6 DEF Carried
<1>18. CASE AckAnswered  BY <1>18, <1>p DEF AckAnswered
<1>19. CASE AckAbandoned  BY <1>19, <1>p DEF AckAbandoned
<1>k. ASSUME NEW a \in Acks, cmds' = Acknowledged(a), late' \subseteq late,
             UNCHANGED <<created, worker, agent, install, version>>
      PROVE  Carried
  <2>1. Known(a.id) /\ (a.state = "completed" => Told(a.id)) /\ a \in Ack
    BY <1>0, RowsTypes DEF Known, Told
  <2>2. \A r \in Rows' : \E s \in Rows : Follows(r, s)  BY <1>0, <1>k, <2>1, AckFollows
  <2>3. \A b \in Acks' : b \in Acks  BY <1>k DEF Acks
  <2>4. \A i \in Ids : (Known(i)' => Known(i)) /\ (Told(i)' => Told(i))
    BY <1>k, <2>3 DEF Known, Told
  <2> QED  BY <1>k, <2>2, <2>4 DEF Carried
<1>20. CASE AckRepeated
  <2>1. Head(agent.acks) \in Acks  BY <1>0, <1>4, <1>20, TypeFacts, HeadTail DEF AckRepeated
  <2> QED  BY <1>20, <1>k, <2>1 DEF AckRepeated
<1>21. ASSUME NEW a \in late, AckLate(a) PROVE Carried
  BY <1>4, <1>21, <1>k DEF AckLate
<1>22. CASE agent_status
  <2>1. UNCHANGED <<created, worker, agent, install, version, late>>  BY <1>22 DEF agent_status
  <2>2. \A r \in Of(cmds') : \E s \in Of(cmds) : Follows(r, s)
    BY <1>0, <1>22, StatusRows DEF Follows
  <2>3. \A r \in Rows' : r \in Rows \/ r \in Of(cmds')  BY <2>1 DEF Rows
  <2>4. \A r \in Rows' : \E s \in Rows : Follows(r, s)  BY <1>3, <1>4, <2>2, <2>3
  <2>5. \A i \in Ids : (Known(i)' <=> Known(i)) /\ (Told(i)' <=> Told(i))
    BY <2>1 DEF Known, Told, Acks
  <2> QED  BY <2>1, <2>4, <2>5 DEF Carried
<1>23. CASE HubRestart
  <2>1. /\ \A i \in Ids : worker'[i] = Off
        /\ late' = {} /\ UNCHANGED <<cmds, created, agent, install>>
    BY <1>23 DEF HubRestart
  <2>2. \A i \in Ids : Of(worker'[i].doc) = {} /\ worker'[i].pc = "off"
    BY <2>1, OffTypes, OfEmpty
  <2> QED  BY <1>4, <1>s, <2>1, <2>2
<1>24. CASE AgentRestart
  <2>1. agent' = Quiet /\ UNCHANGED <<cmds, created, worker, install, late>>
    BY <1>24 DEF AgentRestart, Restarted
  <2> QED  BY <1>4, <1>q, <1>s, <2>1
<1> QED
  BY NextCases, <1>7, <1>8, <1>9, <1>10, <1>11, <1>12, <1>13, <1>16, <1>17,
     <1>18, <1>19, <1>20, <1>21, <1>22, <1>23, <1>24
-----------------------------------------------------------------------------
(* The invariant, and what follows from it. *)

LEMMA CommandStep == CommandInv /\ [Next]_vars => CommandInv'
<1> SUFFICES ASSUME CommandInv, [Next]_vars PROVE CommandInv'
  OBVIOUS
<1>0. TypeOK /\ Peaked /\ Exclusive /\ HandedOut /\ Copies  BY DEF CommandInv
<1>1. TypeOK'  BY <1>0, TypeStep
<1>2. Exclusive'  BY <1>0, ExclusiveStep
<1>3. HandedOut'  BY <1>0, HandedOutStep
<1>4. /\ Peaked' /\ passed \subseteq passed'
      /\ \A i \in Ids : i <= created => peak[i] <= peak'[i]
  BY <1>0, PeakStep
<1>5. ASSUME Copies' PROVE CommandInv'
  BY <1>1, <1>2, <1>3, <1>4, <1>5 DEF CommandInv
<1>6. CASE UNCHANGED vars
  <2>1. /\ Rows' = Rows /\ \A i \in Ids : (Known(i)' <=> Known(i)) /\ (Told(i)' <=> Told(i))
        /\ UNCHANGED <<created, worker>>
    BY <1>6 DEF vars, Rows, Acks, Known, Told
  <2>3. Carried  BY <2>1 DEF Carried, Follows
  <2> QED  BY <1>0, <1>1, <1>4, <1>5, <2>3, CarriedCopies
<1>7. CASE update_request
  <2>1. Queue("update", "preparing") /\ UNCHANGED <<agent, install, late, passed>>
    BY <1>7 DEF update_request
  <2>2. created + 1 \in Ids  BY <1>0, <2>1, QueuedRow DEF States
  <2>3. PICK w \in Worker : worker' = [worker EXCEPT ![created + 1] = w] /\ w.doc = <<>>
    BY <1>0, <1>7, <2>2, RequestWorker
  <2>4. worker'[created + 1] = w /\ \A j \in Ids \ {created + 1} : worker'[j] = worker[j]
    BY <1>0, <2>2, <2>3, TypeFacts
  <2>5. /\ \A i \in Ids : worker'[i].doc = worker[i].doc \/ worker'[i].doc = <<>>
        /\ \A i \in Ids : worker'[i].pc # "off" => worker[i].pc # "off" \/ i = created + 1
    BY <2>3, <2>4
  <2>6. Copies'
    BY <1>0, <2>1, <2>5, NewCopies DEF States
  <2> QED  BY <1>5, <2>6
<1>8. CASE cleanup_request
  <2>1. Queue("cleanup", "pending") /\ UNCHANGED <<agent, install, late, passed, worker>>
    BY <1>8 DEF cleanup_request
  <2>2. Copies'
    BY <1>0, <2>1, NewCopies DEF States
  <2> QED  BY <1>5, <2>2
<1>9. ASSUME NEW i \in Ids, WorkerSaves(i) PROVE CommandInv'
  BY <1>1, <1>5, <1>9, SavedCopies
<1>10. CASE Carried  BY <1>0, <1>1, <1>4, <1>5, <1>10, CarriedCopies
<1>11. CASE Next  BY <1>1, <1>7, <1>8, <1>9, <1>10, <1>11, CarriedStep
<1> QED  BY <1>6, <1>11

LEMMA CommandInvariant == Spec => []CommandInv
BY CommandInit, CommandStep, PTL DEF Spec

(* The document, the workers, the agent's round and the installers keep     *)
(* their types, and neither the document nor a copy a worker has loaded     *)
(* exceeds the rows the code keeps (hub.py: commands[-100:]).               *)
THEOREM CommandTypesKept == Spec => []TypeOK
<1>1. CommandInv => TypeOK  BY DEF CommandInv
<1> QED  BY <1>1, CommandInvariant, PTL

LEMMA CompletedFollows == CommandInv => CompletionEarned
<1> SUFFICES ASSUME CommandInv, NEW n \in DOMAIN cmds,
                    cmds[n].action = "update", cmds[n].state = "completed"
             PROVE  Earned(cmds[n])
  BY DEF CompletionEarned, Earned
<1>1. cmds[n] \in Rows  BY DEF Rows, Of
<1> QED  BY <1>1 DEF CommandInv, Copies, Believed

(* An update is shown as completed only if the agent has run with its       *)
(* target or a newer version since it was asked for, or its installer has   *)
(* passed every check, although any state an acknowledgement brings is      *)
(* written, late ones included, a worker writes back a document it loaded   *)
(* earlier, the sources of the manifest disagree and an installer rolls a   *)
(* release back that has already reported: for any number of commands,      *)
(* releases and faults.                                                     *)
THEOREM CompletionsEarned == Spec => []CompletionEarned
BY CompletedFollows, CommandInvariant, PTL

-----------------------------------------------------------------------------
(* The session of RouterSession: who may hold the lock and what is cached. *)
Logging ==
    \A t \in S!Threads :
      /\ thr[t].pc = "logging" <=> lock = t
      /\ thr[t].pc = "logging" => thr[t].seen \in Configs
      /\ thr[t].pc \in {"call", "rejected"} => thr[t].sid # None

SessionTypes == S!TypeOK /\ Logging

(* What a thread record holds, with sessions up to n. *)
PCs == {"idle", "login", "logging", "call", "rejected", "connect", "receive"}
SidsTo(n) == (1 .. n) \cup {None}
ThreadsTo(n) ==
    [pc : PCs, sid : SidsTo(n), seen : Configs \cup {None}, retry : BOOLEAN]
CachesTo(n) == [key : Configs \cup {None}, sid : SidsTo(n), blocked : Configs \cup {None}]
MonitorsTo(n) ==
    [force : BOOLEAN, once : BOOLEAN, target : Configs \cup {None}, sid : SidsTo(n)]

LEMMA SessionTypeDef ==
    S!TypeOK <=>
      /\ cfg \in Configs /\ put \in {"none", "clear"} /\ origin \in Seq(Configs)
      /\ sessions \in CachesTo(Len(origin))
      /\ lock \in S!Threads \cup {None}
      /\ thr \in [S!Threads -> ThreadsTo(Len(origin))]
      /\ ws \in MonitorsTo(Len(origin))
      /\ alive \in [Configs -> SidsTo(Len(origin))]
  BY DEF S!TypeOK, S!Sids, PCs, SidsTo, ThreadsTo, CachesTo, MonitorsTo

LEMMA SessionTypeNext ==
    ASSUME /\ cfg' \in Configs /\ put' \in {"none", "clear"} /\ origin' \in Seq(Configs)
           /\ sessions' \in CachesTo(Len(origin'))
           /\ lock' \in S!Threads \cup {None}
           /\ thr' \in [S!Threads -> ThreadsTo(Len(origin'))]
           /\ ws' \in MonitorsTo(Len(origin'))
           /\ alive' \in [Configs -> SidsTo(Len(origin'))]
    PROVE  S!TypeOK'
  BY DEF S!TypeOK, S!Sids, PCs, SidsTo, ThreadsTo, CachesTo, MonitorsTo

LEMMA ThreadsToFields ==
    ASSUME NEW n, NEW r \in ThreadsTo(n)
    PROVE  /\ r.pc \in PCs /\ r.sid \in SidsTo(n) /\ r.seen \in Configs \cup {None}
           /\ r.retry \in BOOLEAN
  BY DEF ThreadsTo

LEMMA ThreadsToRecord ==
    ASSUME NEW n, NEW pc \in PCs, NEW sid \in SidsTo(n), NEW seen \in Configs \cup {None},
           NEW retry \in BOOLEAN
    PROVE  [pc |-> pc, sid |-> sid, seen |-> seen, retry |-> retry] \in ThreadsTo(n)
  BY DEF ThreadsTo

LEMMA CachesToFields ==
    ASSUME NEW n, NEW c \in CachesTo(n)
    PROVE  /\ c.key \in Configs \cup {None} /\ c.sid \in SidsTo(n)
           /\ c.blocked \in Configs \cup {None}
           /\ c = [key |-> c.key, sid |-> c.sid, blocked |-> c.blocked]
  BY DEF CachesTo

LEMMA CachesToRecord ==
    ASSUME NEW n, NEW key \in Configs \cup {None}, NEW sid \in SidsTo(n),
           NEW blocked \in Configs \cup {None}
    PROVE  [key |-> key, sid |-> sid, blocked |-> blocked] \in CachesTo(n)
  BY DEF CachesTo

LEMMA BlockedTypes ==
    ASSUME NEW n \in Nat, NEW key \in Configs \cup {None}
    PROVE  S!Blocked(key) \in CachesTo(n) /\ S!Blocked(key).sid = None /\ S!Blocked(key).key = None
<1>1. None \in SidsTo(n)
  BY DEF SidsTo
<1> QED BY <1>1, CachesToRecord DEF S!Blocked

LEMMA MonitorsToFields ==
    ASSUME NEW n, NEW m \in MonitorsTo(n)
    PROVE  /\ m.force \in BOOLEAN /\ m.once \in BOOLEAN /\ m.target \in Configs \cup {None}
           /\ m.sid \in SidsTo(n)
           /\ m = [force |-> m.force, once |-> m.once, target |-> m.target, sid |-> m.sid]
  BY DEF MonitorsTo

LEMMA MonitorsToRecord ==
    ASSUME NEW n, NEW force \in BOOLEAN, NEW once \in BOOLEAN, NEW target \in Configs \cup {None},
           NEW sid \in SidsTo(n)
    PROVE  [force |-> force, once |-> once, target |-> target, sid |-> sid] \in MonitorsTo(n)
  BY DEF MonitorsTo

(* The sessions only become more. *)
LEMMA SidsGrow ==
    ASSUME NEW n \in Nat
    PROVE  /\ SidsTo(n) \subseteq SidsTo(n + 1) /\ n + 1 \in SidsTo(n + 1) /\ None \in SidsTo(n)
           /\ ThreadsTo(n) \subseteq ThreadsTo(n + 1) /\ CachesTo(n) \subseteq CachesTo(n + 1)
           /\ MonitorsTo(n) \subseteq MonitorsTo(n + 1)
           /\ n + 1 # None /\ n + 1 \notin SidsTo(n)
<1>1. SidsTo(n) \subseteq SidsTo(n + 1) /\ n + 1 \in SidsTo(n + 1) /\ None \in SidsTo(n)
  BY DEF SidsTo
<1>2. n + 1 # None /\ n + 1 \notin SidsTo(n)
  BY ThreadsAssumption DEF SidsTo
<1>3. ThreadsTo(n) \subseteq ThreadsTo(n + 1)
  BY <1>1 DEF ThreadsTo
<1>4. CachesTo(n) \subseteq CachesTo(n + 1)
  BY <1>1 DEF CachesTo
<1>5. MonitorsTo(n) \subseteq MonitorsTo(n + 1)
  BY <1>1 DEF MonitorsTo
<1> QED BY <1>1, <1>2, <1>3, <1>4, <1>5

LEMMA ThreadsOf ==
    Callers \subseteq S!Threads /\ Monitor \in S!Threads /\ None \notin S!Threads
  BY ThreadsAssumption DEF S!Threads

(* A thread moves and the others stay. *)
LEMMA MovedThread ==
    ASSUME NEW n, thr \in [S!Threads -> ThreadsTo(n)],
           NEW t \in S!Threads, NEW pc \in PCs, NEW sid \in SidsTo(n),
           NEW seen \in Configs \cup {None}, NEW retry \in BOOLEAN,
           thr' = S!Moved(t, pc, sid, seen, retry)
    PROVE  /\ thr' \in [S!Threads -> ThreadsTo(n)]
           /\ \A u \in S!Threads : u # t => thr'[u] = thr[u]
           /\ thr'[t].pc = pc /\ thr'[t].sid = sid /\ thr'[t].seen = seen /\ thr'[t].retry = retry
<1> DEFINE r == [pc |-> pc, sid |-> sid, seen |-> seen, retry |-> retry]
<1>1. r \in ThreadsTo(n)
  BY ThreadsToRecord
<1>2. r.pc = pc /\ r.sid = sid /\ r.seen = seen /\ r.retry = retry
  OBVIOUS
<1>3. thr' = [thr EXCEPT ![t] = r]
  BY DEF S!Moved
<1> HIDE DEF r
<1>4. thr' \in [S!Threads -> ThreadsTo(n)] /\ thr'[t] = r
      /\ \A u \in S!Threads : u # t => thr'[u] = thr[u]
  BY <1>1, <1>3
<1> QED BY <1>2, <1>4

(* The same for a thread that keeps the configuration it saw. *)
LEMMA KeptThread ==
    ASSUME NEW n, thr \in [S!Threads -> ThreadsTo(n)],
           NEW t \in S!Threads, NEW pc \in PCs, NEW sid \in SidsTo(n),
           thr' = S!Moved(t, pc, sid, thr[t].seen, thr[t].retry)
    PROVE  /\ thr' \in [S!Threads -> ThreadsTo(n)]
           /\ \A u \in S!Threads : u # t => thr'[u] = thr[u]
           /\ thr'[t].pc = pc /\ thr'[t].sid = sid /\ thr'[t].seen = thr[t].seen
<1> DEFINE seen == thr[t].seen
           retry == thr[t].retry
<1>1. thr[t] \in ThreadsTo(n)
  OBVIOUS
<1>2. seen \in Configs \cup {None} /\ retry \in BOOLEAN
  BY <1>1, ThreadsToFields
<1>3. thr' = S!Moved(t, pc, sid, seen, retry)
  OBVIOUS
<1> HIDE DEF seen, retry
<1>4. /\ thr' \in [S!Threads -> ThreadsTo(n)]
      /\ \A u \in S!Threads : u # t => thr'[u] = thr[u]
      /\ thr'[t].pc = pc /\ thr'[t].sid = sid /\ thr'[t].seen = seen
  BY <1>2, <1>3, MovedThread
<1> QED BY <1>4 DEF seen

-----------------------------------------------------------------------------
(* The monitor's socket is open; it will log in by force once it is told that *)
(* its session is gone.                                                       *)
Listening == thr[Monitor].pc = "receive"
Trouble == ws.force \/ (Listening /\ alive[ws.target] # ws.sid)

(* The cached session is one the router accepts, or one it does not. *)
Good == S!Cached # None /\ alive[cfg] = S!Cached
Dead == S!Cached # None /\ alive[cfg] # S!Cached

(* The configuration changed in the middle of the login under way. *)
Stale == lock # None /\ thr[lock].seen # cfg

(* The logins still to come, if nothing more goes wrong and nobody changes   *)
(* the configuration: one for the cache, one for the monitor (if it was told, *)
(* will find the cached session dead, or its own is about to be replaced or   *)
(* belongs to another router), and two once the cache has been cleared.       *)
Owed ==
    IF Stale THEN IF lock # Monitor /\ (Trouble \/ Listening) THEN 5 ELSE 4
    ELSE (IF Good THEN 0 ELSE 1)
         + (IF Trouble \/ Dead \/ (Listening /\ (ws.target # cfg \/ ~Good)) THEN 1 ELSE 0)
         + (IF put # "clear" THEN 0
            ELSE IF ~Trouble /\ Listening /\ ws.target # cfg THEN 1 ELSE 2)

Paid ==
    /\ changes \in Nat /\ faults \in Nat
    /\ Len(origin) + Owed <= 1 + 3 * changes + 2 * faults
    /\ Listening => ws.target \in Configs

(* A session of another configuration is about to be cleared. *)
Filing ==
    /\ sessions.sid # None => origin[sessions.sid] = sessions.key
    /\ sessions.sid # None /\ sessions.key # cfg => put = "clear"

(* Whoever logs in found no session, or was told to; a login for a previous *)
(* configuration is followed by a clear.                                    *)
LoggingIn ==
    /\ lock # None => S!Cached = None \/ (lock = Monitor /\ ws.force)
    /\ Stale => put = "clear" /\ S!Cached = None

(* A caller is rejected with the cached session only when that is dead. *)
Rejections ==
    \A t \in S!Threads : thr[t].pc = "rejected" /\ sessions.sid = thr[t].sid =>
      alive[sessions.key] # sessions.sid \/ (put = "clear" /\ sessions.key # cfg)

SessionInv == SessionTypes /\ Paid /\ Filing /\ LoggingIn /\ Rejections

(* What the types say, field by field. *)
LEMMA SessionFacts ==
    ASSUME SessionTypes
    PROVE  /\ cfg \in Configs /\ put \in {"none", "clear"} /\ origin \in Seq(Configs)
           /\ Len(origin) \in Nat
           /\ sessions.key \in Configs \cup {None} /\ sessions.sid \in SidsTo(Len(origin))
           /\ sessions.blocked \in Configs \cup {None}
           /\ sessions = [key |-> sessions.key, sid |-> sessions.sid, blocked |-> sessions.blocked]
           /\ lock \in S!Threads \cup {None}
           /\ thr \in [S!Threads -> ThreadsTo(Len(origin))]
           /\ \A t \in S!Threads :
                /\ thr[t].pc \in PCs /\ thr[t].sid \in SidsTo(Len(origin))
                /\ thr[t].seen \in Configs \cup {None} /\ thr[t].retry \in BOOLEAN
           /\ ws \in MonitorsTo(Len(origin))
           /\ ws.force \in BOOLEAN /\ ws.once \in BOOLEAN
           /\ ws.target \in Configs \cup {None} /\ ws.sid \in SidsTo(Len(origin))
           /\ alive \in [Configs -> SidsTo(Len(origin))]
<1>1. /\ cfg \in Configs /\ put \in {"none", "clear"} /\ origin \in Seq(Configs)
      /\ sessions \in CachesTo(Len(origin))
      /\ lock \in S!Threads \cup {None}
      /\ thr \in [S!Threads -> ThreadsTo(Len(origin))]
      /\ ws \in MonitorsTo(Len(origin))
      /\ alive \in [Configs -> SidsTo(Len(origin))]
  BY SessionTypeDef DEF SessionTypes
<1>2. \A t \in S!Threads : thr[t] \in ThreadsTo(Len(origin))
  BY <1>1
<1>3. \A t \in S!Threads :
        /\ thr[t].pc \in PCs /\ thr[t].sid \in SidsTo(Len(origin))
        /\ thr[t].seen \in Configs \cup {None} /\ thr[t].retry \in BOOLEAN
  BY <1>2, ThreadsToFields
<1>4. Len(origin) \in Nat
  BY <1>1
<1> QED BY <1>1, <1>3, <1>4, CachesToFields, MonitorsToFields

(* A step that only moves threads which do not log in and are not rejected. *)
LEMMA QuietStep ==
    ASSUME SessionInv, UNCHANGED <<cfg, put, sessions, lock, ws, alive, origin, changes, faults>>,
           NEW t \in Callers, NEW pc \in {"idle", "login", "call"}, NEW sid \in SidsTo(Len(origin)),
           NEW seen \in Configs \cup {None}, NEW retry \in BOOLEAN,
           thr' = S!Moved(t, pc, sid, seen, retry), thr[t].pc # "logging", pc = "call" => sid # None
    PROVE  SessionInv'
<1> USE DEF SessionInv
<1>1. /\ cfg \in Configs /\ put \in {"none", "clear"} /\ origin \in Seq(Configs)
      /\ sessions \in CachesTo(Len(origin))
      /\ lock \in S!Threads \cup {None}
      /\ thr \in [S!Threads -> ThreadsTo(Len(origin))]
      /\ ws \in MonitorsTo(Len(origin))
      /\ alive \in [Configs -> SidsTo(Len(origin))]
  BY SessionTypeDef DEF SessionTypes
<1>2. t \in S!Threads /\ Monitor \in S!Threads /\ t # Monitor /\ None \notin S!Threads /\ pc \in PCs
  BY ThreadsOf, ThreadsAssumption DEF PCs
<1>3. /\ thr' \in [S!Threads -> ThreadsTo(Len(origin))]
      /\ \A u \in S!Threads : u # t => thr'[u] = thr[u]
      /\ thr'[t].pc = pc /\ thr'[t].sid = sid
  BY <1>1, <1>2, MovedThread
<1>4. S!TypeOK'
  BY <1>1, <1>3, SessionTypeNext
<1>5. lock # t
  BY <1>2 DEF SessionTypes, Logging
<1>6. Logging'
  BY <1>2, <1>3, <1>5 DEF SessionTypes, Logging
<1>7. S!Cached' = S!Cached /\ (Good' <=> Good) /\ (Dead' <=> Dead)
  BY DEF S!Cached, Good, Dead
<1>8. (Listening' <=> Listening) /\ (Trouble' <=> Trouble)
  BY <1>2, <1>3 DEF Listening, Trouble
<1>9. Stale' <=> Stale
  BY <1>1, <1>2, <1>3, <1>5 DEF Stale
<1>10. Paid'
  BY <1>7, <1>8, <1>9 DEF Paid, Owed
<1>11. Filing' /\ LoggingIn'
  BY <1>7, <1>9 DEF Filing, LoggingIn
<1>12. Rejections'
  BY <1>2, <1>3 DEF Rejections
<1> QED BY <1>4, <1>6, <1>10, <1>11, <1>12 DEF SessionTypes

LEMMA OwedTypes == Owed \in 0 .. 5
  BY DEF Owed

(* A caller finds its session rejected. *)
LEMMA RejectedStep ==
    ASSUME SessionInv, NEW t \in Callers, thr[t].pc = "call", alive[cfg] # thr[t].sid,
           thr' = S!Moved(t, "rejected", thr[t].sid, cfg, thr[t].retry),
           UNCHANGED <<cfg, put, sessions, lock, ws, alive, origin, changes, faults>>
    PROVE  SessionInv'
<1> USE DEF SessionInv
<1>1. /\ cfg \in Configs /\ put \in {"none", "clear"} /\ origin \in Seq(Configs)
      /\ sessions \in CachesTo(Len(origin))
      /\ lock \in S!Threads \cup {None}
      /\ thr \in [S!Threads -> ThreadsTo(Len(origin))]
      /\ ws \in MonitorsTo(Len(origin))
      /\ alive \in [Configs -> SidsTo(Len(origin))]
  BY SessionTypeDef DEF SessionTypes
<1>2. t \in S!Threads /\ Monitor \in S!Threads /\ t # Monitor /\ None \notin S!Threads
      /\ "rejected" \in PCs
  BY ThreadsOf, ThreadsAssumption DEF PCs
<1>a. thr[t].sid \in SidsTo(Len(origin)) /\ thr[t].retry \in BOOLEAN
  BY <1>2, SessionFacts
<1>3. /\ thr' \in [S!Threads -> ThreadsTo(Len(origin))]
      /\ \A u \in S!Threads : u # t => thr'[u] = thr[u]
      /\ thr'[t].pc = "rejected" /\ thr'[t].sid = thr[t].sid
  BY <1>1, <1>2, <1>a, MovedThread
<1>4. S!TypeOK'
  BY <1>1, <1>3, SessionTypeNext
<1>5. lock # t /\ thr[t].sid # None
  BY <1>2 DEF SessionTypes, Logging
<1>6. Logging'
  BY <1>2, <1>3, <1>5 DEF SessionTypes, Logging
<1>7. S!Cached' = S!Cached /\ (Good' <=> Good) /\ (Dead' <=> Dead)
  BY DEF S!Cached, Good, Dead
<1>8. (Listening' <=> Listening) /\ (Trouble' <=> Trouble)
  BY <1>2, <1>3 DEF Listening, Trouble
<1>9. Stale' <=> Stale
  BY <1>1, <1>2, <1>3, <1>5 DEF Stale
<1>10. Paid'
  BY <1>7, <1>8, <1>9 DEF Paid, Owed
<1>11. Filing' /\ LoggingIn'
  BY <1>7, <1>9 DEF Filing, LoggingIn
<1>12. Rejections'
  BY <1>2, <1>3, <1>5 DEF Rejections, Filing
<1> QED BY <1>4, <1>6, <1>10, <1>11, <1>12 DEF SessionTypes

(* A login takes the lock: nothing was cached, the monitor was told to, or   *)
(* the session that was rejected has just been dropped.                      *)
LEMMA LoginStep ==
    ASSUME SessionInv, lock = None, NEW t \in S!Threads, thr[t].pc \notin {"logging", "receive"},
           NEW retry \in BOOLEAN, lock' = t,
           thr' = S!Moved(t, "logging", thr[t].sid, cfg, retry),
           \/ sessions' = sessions /\ (S!Cached = None \/ (t = Monitor /\ ws.force))
           \/ sessions' = S!NoSession /\ (S!Cached = None \/ Dead),
           UNCHANGED <<cfg, put, ws, alive, origin, changes, faults>>
    PROVE  SessionInv'
<1> USE DEF SessionInv
<1>1. /\ cfg \in Configs /\ put \in {"none", "clear"} /\ origin \in Seq(Configs)
      /\ sessions \in CachesTo(Len(origin))
      /\ thr \in [S!Threads -> ThreadsTo(Len(origin))]
      /\ ws \in MonitorsTo(Len(origin))
      /\ alive \in [Configs -> SidsTo(Len(origin))]
  BY SessionTypeDef DEF SessionTypes
<1>2. Monitor \in S!Threads /\ None \notin S!Threads /\ "logging" \in PCs
  BY ThreadsOf DEF PCs
<1>3. thr[t].sid \in SidsTo(Len(origin)) /\ None \in SidsTo(Len(origin)) /\ Len(origin) \in Nat
  BY SessionFacts DEF SidsTo
<1>4. /\ thr' \in [S!Threads -> ThreadsTo(Len(origin))]
      /\ \A u \in S!Threads : u # t => thr'[u] = thr[u]
      /\ thr'[t].pc = "logging" /\ thr'[t].sid = thr[t].sid /\ thr'[t].seen = cfg
  BY <1>1, <1>2, <1>3, MovedThread
<1>5. S!NoSession \in CachesTo(Len(origin)) /\ S!NoSession.sid = None
  BY <1>3, BlockedTypes DEF S!NoSession
<1>6. S!TypeOK'
  BY <1>1, <1>4, <1>5, SessionTypeNext
<1>7. \A u \in S!Threads : thr[u].pc # "logging"
  BY <1>2 DEF SessionTypes, Logging
<1>8. Logging'
  BY <1>1, <1>2, <1>4, <1>7 DEF SessionTypes, Logging
<1>9. /\ S!Cached' = None \/ S!Cached' = S!Cached
      /\ S!Cached' = None \/ (t = Monitor /\ ws.force)
  BY <1>5 DEF S!Cached
<1>10. (Listening' <=> Listening) /\ (Trouble' <=> Trouble)
  BY <1>2, <1>4 DEF Listening, Trouble
<1>11. ~Stale' /\ ~Stale
  BY <1>2, <1>4 DEF Stale
<1>12. Owed' <= Owed
  <2>1. CASE sessions' = S!NoSession
    <3>1. ~Good /\ ~Good' /\ ~Dead'
      BY <1>5, <2>1 DEF Good, Dead, S!Cached
    <3> QED BY <3>1, <1>10, <1>11 DEF Owed
  <2>2. CASE sessions' = sessions
    <3>1. (Good' <=> Good) /\ (Dead' <=> Dead)
      BY <2>2 DEF Good, Dead, S!Cached
    <3> QED BY <3>1, <1>10, <1>11 DEF Owed
  <2> QED BY <2>1, <2>2
<1>13. Owed' \in 0 .. 5 /\ Owed \in 0 .. 5
  BY DEF Owed
<1>14. Paid'
  BY <1>3, <1>10, <1>12, <1>13 DEF Paid
<1>15. Filing'
  BY <1>5 DEF Filing
<1>16. LoggingIn'
  BY <1>9, <1>11 DEF LoggingIn
<1>17. Rejections'
  <2> SUFFICES ASSUME NEW u \in S!Threads, thr'[u].pc = "rejected", sessions'.sid = thr'[u].sid
               PROVE  alive[sessions'.key] # sessions'.sid \/ (put = "clear" /\ sessions'.key # cfg)
    BY DEF Rejections
  <2>1. u # t /\ thr'[u] = thr[u] /\ thr[u].sid # None
    BY <1>4 DEF SessionTypes, Logging
  <2>2. sessions' = sessions
    BY <1>5, <2>1
  <2> QED BY <2>1, <2>2 DEF Rejections
<1> QED BY <1>6, <1>8, <1>14, <1>15, <1>16, <1>17 DEF SessionTypes

(* The monitor goes on without a login. *)
LEMMA MonitorStep ==
    ASSUME SessionInv, thr[Monitor].pc # "logging",
           NEW pc \in {"idle", "connect", "receive"}, NEW sid \in SidsTo(Len(origin)),
           thr' = S!Moved(Monitor, pc, sid, thr[Monitor].seen, thr[Monitor].retry),
           ws' \in MonitorsTo(Len(origin)),
           \/ ~Listening /\ pc # "receive" /\ (ws'.force => ws.force \/ Dead)
           \/ Trouble /\ pc # "receive"
           \/ ~Listening /\ Good /\ pc = "receive" /\ ws'.target = cfg /\ ws'.sid = S!Cached
              /\ ws'.force = ws.force,
           UNCHANGED <<cfg, put, sessions, lock, alive, origin, changes, faults>>
    PROVE  SessionInv'
<1> USE DEF SessionInv
<1>1. /\ cfg \in Configs /\ put \in {"none", "clear"} /\ origin \in Seq(Configs)
      /\ sessions \in CachesTo(Len(origin))
      /\ lock \in S!Threads \cup {None}
      /\ thr \in [S!Threads -> ThreadsTo(Len(origin))]
      /\ alive \in [Configs -> SidsTo(Len(origin))]
  BY SessionTypeDef DEF SessionTypes
<1>2. Monitor \in S!Threads /\ None \notin S!Threads /\ pc \in PCs
  BY ThreadsOf DEF PCs
<1>3. thr[Monitor].seen \in Configs \cup {None} /\ thr[Monitor].retry \in BOOLEAN /\ Len(origin) \in Nat
  BY <1>2, SessionFacts
<1>4. /\ thr' \in [S!Threads -> ThreadsTo(Len(origin))]
      /\ \A u \in S!Threads : u # Monitor => thr'[u] = thr[u]
      /\ thr'[Monitor].pc = pc /\ thr'[Monitor].seen = thr[Monitor].seen
  BY <1>1, <1>2, KeptThread
<1>5. S!TypeOK'
  BY <1>1, <1>4, SessionTypeNext
<1>6. lock # Monitor
  BY <1>2 DEF SessionTypes, Logging
<1>7. Logging'
  BY <1>2, <1>4, <1>6 DEF SessionTypes, Logging
<1>10. S!Cached' = S!Cached /\ (Good' <=> Good) /\ (Dead' <=> Dead)
  BY DEF S!Cached, Good, Dead
<1>11. Stale' <=> Stale
  BY <1>1, <1>4, <1>6 DEF Stale
<1>a. Stale => ~Good /\ ~Dead
  BY DEF LoggingIn, Good, Dead
<1>b. (Listening' <=> pc = "receive") /\ (ws.force => Trouble)
  BY <1>4 DEF Listening, Trouble
<1>8. Owed' <= Owed /\ Owed' \in 0 .. 5 /\ Owed \in 0 .. 5
  <2>1. CASE ~Listening /\ pc # "receive" /\ (ws'.force => ws.force \/ Dead)
    <3>1. Trouble' => Trouble \/ Dead
      BY <1>b, <2>1 DEF Trouble
    <3> QED BY <1>10, <1>11, <1>a, <1>b, <2>1, <3>1 DEF Owed
  <2>2. CASE Trouble /\ pc # "receive"
    BY <1>10, <1>11, <1>a, <1>b, <2>2 DEF Owed
  <2>3. CASE ~Listening /\ Good /\ pc = "receive" /\ ws'.target = cfg /\ ws'.sid = S!Cached
             /\ ws'.force = ws.force
    <3>1. Trouble' => Trouble
      BY <1>b, <2>3 DEF Trouble, Good
    <3> QED BY <1>10, <1>11, <1>a, <1>b, <2>3, <3>1 DEF Owed
  <2> QED BY <2>1, <2>2, <2>3
<1>9. Paid'
  <2>1. Listening' => ws'.target \in Configs
    BY <1>1, <1>b
  <2> QED BY <1>3, <1>8, <2>1 DEF Paid
<1>12. Filing' /\ LoggingIn'
  BY <1>6, <1>10, <1>11 DEF Filing, LoggingIn
<1>13. Rejections'
  BY <1>2, <1>4 DEF Rejections
<1> QED BY <1>5, <1>7, <1>9, <1>12, <1>13 DEF SessionTypes

(* The cache loses a session nobody is logging in for. *)
LEMMA CacheStep ==
    ASSUME SessionInv, sessions' \in CachesTo(Len(origin)),
           \/ sessions'.key = sessions.key /\ sessions'.sid = sessions.sid
           \/ sessions'.sid = None,
           put' \in {"none", "clear"}, lock = None \/ put' = put,
           put' = put \/ sessions'.sid = None,
           Len(origin) + Owed' <= 1 + 3 * changes' + 2 * faults',
           changes' \in Nat, faults' \in Nat,
           UNCHANGED <<cfg, lock, thr, ws, alive, origin>>
    PROVE  SessionInv'
<1> USE DEF SessionInv
<1>1. /\ cfg \in Configs /\ put \in {"none", "clear"} /\ origin \in Seq(Configs)
      /\ lock \in S!Threads \cup {None}
      /\ thr \in [S!Threads -> ThreadsTo(Len(origin))]
      /\ ws \in MonitorsTo(Len(origin))
      /\ alive \in [Configs -> SidsTo(Len(origin))]
  BY SessionTypeDef DEF SessionTypes
<1>2. S!TypeOK'
  BY <1>1, SessionTypeNext
<1>3. Logging'
  BY DEF SessionTypes, Logging
<1>4. Paid'
  BY DEF Paid, Listening
<1>5. S!Cached' = None \/ S!Cached' = S!Cached
  BY DEF S!Cached
<1>6. Stale' <=> Stale
  BY DEF Stale
<1>7. Filing'
  BY DEF Filing
<1>8. LoggingIn'
  BY <1>5, <1>6 DEF LoggingIn, Stale
<1>9. Rejections'
  <2> SUFFICES ASSUME NEW u \in S!Threads, thr[u].pc = "rejected", sessions'.sid = thr[u].sid
               PROVE  alive[sessions'.key] # sessions'.sid \/ (put' = "clear" /\ sessions'.key # cfg)
    BY DEF Rejections
  <2>1. thr[u].sid # None
    BY DEF SessionTypes, Logging
  <2>2. sessions'.key = sessions.key /\ sessions'.sid = sessions.sid /\ put' = put
    BY <2>1
  <2> QED BY <2>2 DEF Rejections
<1> QED BY <1>2, <1>3, <1>4, <1>7, <1>8, <1>9 DEF SessionTypes

(* A second rejection drops the cached session, which is dead, and blocks. *)
LEMMA BlockStep ==
    ASSUME SessionInv, NEW t \in Callers, thr[t].pc # "logging", lock = None, Dead \/ S!Cached = None,
           thr' = S!Moved(t, "idle", thr[t].sid, thr[t].seen, thr[t].retry),
           sessions' = S!Blocked(thr[t].seen),
           UNCHANGED <<cfg, put, lock, ws, alive, origin, changes, faults>>
    PROVE  SessionInv'
<1> USE DEF SessionInv
<1>1. /\ cfg \in Configs /\ put \in {"none", "clear"} /\ origin \in Seq(Configs)
      /\ thr \in [S!Threads -> ThreadsTo(Len(origin))]
      /\ ws \in MonitorsTo(Len(origin))
      /\ alive \in [Configs -> SidsTo(Len(origin))]
  BY SessionTypeDef DEF SessionTypes
<1>2. t \in S!Threads /\ Monitor \in S!Threads /\ t # Monitor /\ None \notin S!Threads
      /\ "idle" \in PCs
  BY ThreadsOf, ThreadsAssumption DEF PCs
<1>3. thr[t].sid \in SidsTo(Len(origin)) /\ thr[t].retry \in BOOLEAN /\ None \in SidsTo(Len(origin))
      /\ thr[t].seen \in Configs \cup {None} /\ Len(origin) \in Nat
  BY <1>2, SessionFacts DEF SidsTo
<1>4. /\ thr' \in [S!Threads -> ThreadsTo(Len(origin))]
      /\ \A u \in S!Threads : u # t => thr'[u] = thr[u]
      /\ thr'[t].pc = "idle"
  BY <1>1, <1>2, <1>3, KeptThread
<1>6. sessions' \in CachesTo(Len(origin)) /\ sessions'.sid = None
  BY <1>3, BlockedTypes
<1>7. S!TypeOK'
  BY <1>1, <1>4, <1>6, SessionTypeNext
<1>8. Logging'
  BY <1>2, <1>4 DEF SessionTypes, Logging
<1>9. ~Good /\ ~Good' /\ ~Dead' /\ S!Cached' = None
  BY <1>6 DEF Good, Dead, S!Cached
<1>10. (Listening' <=> Listening) /\ (Trouble' <=> Trouble) /\ ~Stale /\ ~Stale'
  BY <1>2, <1>4 DEF Listening, Trouble, Stale
<1>11. Owed' <= Owed /\ Owed' \in 0 .. 5 /\ Owed \in 0 .. 5
  BY <1>9, <1>10 DEF Owed
<1>12. Paid'
  BY <1>3, <1>10, <1>11 DEF Paid
<1>13. Filing' /\ LoggingIn'
  BY <1>6, <1>10 DEF Filing, LoggingIn
<1>14. Rejections'
  BY <1>2, <1>4, <1>6 DEF Rejections, SessionTypes, Logging
<1> QED BY <1>7, <1>8, <1>12, <1>13, <1>14 DEF SessionTypes

(* The configuration changes; a login under way becomes stale. *)
LEMMA SavedStep ==
    ASSUME SessionInv, S!ConfigSaved
    PROVE  SessionInv'
<1> USE DEF SessionInv
<1>1. /\ cfg \in Configs /\ put \in {"none", "clear"} /\ origin \in Seq(Configs)
      /\ sessions \in CachesTo(Len(origin))
      /\ lock \in S!Threads \cup {None}
      /\ thr \in [S!Threads -> ThreadsTo(Len(origin))]
      /\ ws \in MonitorsTo(Len(origin))
      /\ alive \in [Configs -> SidsTo(Len(origin))]
  BY SessionTypeDef DEF SessionTypes
<1>2. /\ put = "none" /\ put' = "clear" /\ cfg' \in Configs /\ cfg' # cfg /\ changes' = changes + 1
      /\ UNCHANGED <<sessions, lock, thr, ws, alive, origin, faults>>
  BY DEF S!ConfigSaved
<1>3. S!TypeOK'
  BY <1>1, <1>2, SessionTypeNext
<1>4. Logging'
  BY <1>2 DEF SessionTypes, Logging
<1>5. S!Cached' = None /\ ~Good' /\ ~Dead'
  BY <1>2 DEF Filing, S!Cached, Good, Dead
<1>6. ~Stale /\ (Stale' <=> lock # None)
  BY <1>2 DEF LoggingIn, Stale
<1>7. (Listening' <=> Listening) /\ (Trouble' <=> Trouble)
  BY <1>2 DEF Listening, Trouble
<1>8. lock # None => ~Good \/ Trouble
  BY DEF LoggingIn, Trouble, Good
<1>9. lock # None /\ lock # Monitor => ~Good
  BY DEF LoggingIn, Good
<1>10. Owed' <= Owed + 3 /\ Owed \in 0 .. 5 /\ Owed' \in 0 .. 5
  BY <1>2, <1>5, <1>6, <1>7, <1>8, <1>9 DEF Owed
<1>11. Len(origin) \in Nat
  BY <1>1
<1>12. Paid'
  BY <1>2, <1>7, <1>10, <1>11 DEF Paid
<1>13. Filing' /\ LoggingIn'
  BY <1>2, <1>5 DEF Filing, LoggingIn
<1>14. Rejections'
  BY <1>2 DEF Rejections
<1> QED BY <1>3, <1>4, <1>12, <1>13, <1>14 DEF SessionTypes

(* The router drops a session. *)
LEMMA DropsStep ==
    ASSUME SessionInv, S!RouterDropsSession
    PROVE  SessionInv'
<1> USE DEF SessionInv
<1>1. /\ cfg \in Configs /\ put \in {"none", "clear"} /\ origin \in Seq(Configs)
      /\ sessions \in CachesTo(Len(origin))
      /\ lock \in S!Threads \cup {None}
      /\ thr \in [S!Threads -> ThreadsTo(Len(origin))]
      /\ ws \in MonitorsTo(Len(origin))
      /\ alive \in [Configs -> SidsTo(Len(origin))]
  BY SessionTypeDef DEF SessionTypes
<1>2. /\ faults' = faults + 1 /\ UNCHANGED <<cfg, put, sessions, lock, thr, ws, origin, changes>>
  BY DEF S!RouterDropsSession
<1>3. PICK c \in Configs : alive' = [alive EXCEPT ![c] = None]
  BY DEF S!RouterDropsSession
<1>4. Len(origin) \in Nat /\ None \in SidsTo(Len(origin))
  BY <1>1 DEF SidsTo
<1>5. alive' \in [Configs -> SidsTo(Len(origin))] /\ alive'[c] = None
      /\ \A d \in Configs : d # c => alive'[d] = alive[d]
  BY <1>1, <1>3, <1>4
<1>6. S!TypeOK'
  BY <1>1, <1>2, <1>5, SessionTypeNext
<1>7. Logging'
  BY <1>2 DEF SessionTypes, Logging
<1>8. S!Cached' = S!Cached /\ (Listening' <=> Listening) /\ (Stale' <=> Stale)
  BY <1>2 DEF S!Cached, Listening, Stale
<1>9. c # cfg => (Good' <=> Good) /\ (Dead' <=> Dead)
  BY <1>1, <1>2, <1>5, <1>8 DEF Good, Dead
<1>10. Listening /\ ws.target # c => (Trouble' <=> Trouble)
  BY <1>2, <1>5, <1>8 DEF Trouble, Paid
<1>11. Owed' <= Owed + 2 /\ Owed \in 0 .. 5 /\ Owed' \in 0 .. 5
  <2>1. Listening \/ (Trouble' <=> Trouble)
    BY <1>2, <1>8 DEF Trouble
  <2> QED BY <1>2, <1>8, <1>9, <1>10, <2>1 DEF Owed
<1>12. Paid'
  BY <1>2, <1>4, <1>8, <1>11 DEF Paid
<1>13. Filing' /\ LoggingIn'
  BY <1>2, <1>8 DEF Filing, LoggingIn
<1>14. Rejections'
  <2> SUFFICES ASSUME NEW u \in S!Threads, thr[u].pc = "rejected", sessions.sid = thr[u].sid
               PROVE  alive'[sessions.key] # sessions.sid \/ (put = "clear" /\ sessions.key # cfg)
    BY <1>2 DEF Rejections
  <2>1. sessions.sid # None
    BY DEF SessionTypes, Logging
  <2>2. sessions.key \in Configs
    BY <1>1, <2>1, SessionFacts DEF Filing, SidsTo
  <2> QED BY <1>5, <2>1, <2>2 DEF Rejections
<1> QED BY <1>6, <1>7, <1>12, <1>13, <1>14 DEF SessionTypes

(* A login fails. *)
LEMMA FailedStep ==
    ASSUME SessionInv, NEW t \in S!Threads, thr[t].pc = "logging", lock' = None,
           faults' = faults + 1, sessions' \in {sessions, S!NoSession}, thr' = S!Goes(t, "idle"),
           UNCHANGED <<cfg, put, ws, alive, origin, changes>>
    PROVE  SessionInv'
<1> USE DEF SessionInv
<1>1. /\ cfg \in Configs /\ put \in {"none", "clear"} /\ origin \in Seq(Configs)
      /\ sessions \in CachesTo(Len(origin))
      /\ lock \in S!Threads \cup {None}
      /\ thr \in [S!Threads -> ThreadsTo(Len(origin))]
      /\ ws \in MonitorsTo(Len(origin))
      /\ alive \in [Configs -> SidsTo(Len(origin))]
  BY SessionTypeDef DEF SessionTypes
<1>2. Monitor \in S!Threads /\ None \notin S!Threads /\ "idle" \in PCs
  BY ThreadsOf DEF PCs
<1>3. thr[t].sid \in SidsTo(Len(origin)) /\ Len(origin) \in Nat /\ lock = t
  BY <1>1, SessionFacts DEF SessionTypes, Logging
<1>4. /\ thr' \in [S!Threads -> ThreadsTo(Len(origin))]
      /\ \A u \in S!Threads : u # t => thr'[u] = thr[u]
      /\ thr'[t].pc = "idle"
  BY <1>1, <1>2, <1>3, KeptThread DEF S!Goes
<1>5. S!NoSession \in CachesTo(Len(origin)) /\ S!NoSession.sid = None
  BY <1>3, BlockedTypes DEF S!NoSession
<1>6. S!TypeOK'
  BY <1>1, <1>4, <1>5, SessionTypeNext
<1>7. Logging'
  BY <1>2, <1>3, <1>4 DEF SessionTypes, Logging
<1>8. (Listening' <=> Listening) /\ (Trouble' <=> Trouble) /\ ~Stale'
  BY <1>2, <1>4 DEF Listening, Trouble, Stale
<1>9. Owed' <= Owed + 2 /\ Owed \in 0 .. 5 /\ Owed' \in 0 .. 5
  BY <1>8 DEF Owed
<1>10. Paid'
  <2> DEFINE n == Len(origin)
             m == Owed
             k == Owed'
  <2>1. /\ changes \in Nat /\ faults \in Nat /\ n + m <= 1 + 3 * changes + 2 * faults
        /\ Listening => ws.target \in Configs
    BY DEF Paid
  <2>2. n \in Nat /\ m \in 0 .. 5 /\ k \in 0 .. 5 /\ k <= m + 2
    BY <1>3, <1>9
  <2> HIDE DEF n, m, k
  <2>3. n + k <= 1 + 3 * changes + 2 * (faults + 1) /\ faults + 1 \in Nat
    BY <2>1, <2>2
  <2> QED BY <1>8, <2>1, <2>3 DEF Paid, n, k
<1>11. Filing' /\ LoggingIn'
  BY <1>5, <1>8 DEF Filing, LoggingIn
<1>12. Rejections'
  <2> SUFFICES ASSUME NEW u \in S!Threads, thr'[u].pc = "rejected", sessions'.sid = thr'[u].sid
               PROVE  alive[sessions'.key] # sessions'.sid \/ (put = "clear" /\ sessions'.key # cfg)
    BY DEF Rejections
  <2>1. u # t /\ thr'[u] = thr[u] /\ thr[u].sid # None
    BY <1>4 DEF SessionTypes, Logging
  <2>2. sessions' = sessions
    BY <1>5, <2>1
  <2> QED BY <2>1, <2>2 DEF Rejections
<1> QED BY <1>6, <1>7, <1>10, <1>11, <1>12 DEF SessionTypes

LEMMA OneLess ==
    ASSUME NEW n \in Nat, NEW c \in Nat, NEW f \in Nat, NEW x \in 0 .. 5, NEW y \in 0 .. 5,
           y + 1 <= x, n + x <= 1 + 3 * c + 2 * f
    PROVE  (n + 1) + y <= 1 + 3 * c + 2 * f
  OBVIOUS

LEMMA NoMore ==
    ASSUME NEW n \in Nat, NEW c \in Nat, NEW f \in Nat, NEW x \in 0 .. 5, NEW y \in 0 .. 5,
           y <= x, n + x <= 1 + 3 * c + 2 * f
    PROVE  n + y <= 1 + 3 * c + 2 * f
  OBVIOUS

LEMMA TwoMore ==
    ASSUME NEW n \in Nat, NEW c \in Nat, NEW f \in Nat, NEW x \in 0 .. 5, NEW y \in 0 .. 5,
           y <= x + 2, n + x <= 1 + 3 * c + 2 * f
    PROVE  n + y <= 1 + 3 * c + 2 * (f + 1)
  OBVIOUS

(* A login succeeds and pays for itself. *)
LEMMA DoneStep ==
    ASSUME SessionInv, NEW t \in S!Threads, thr[t].pc = "logging", lock' = None,
           origin' = Append(origin, thr[t].seen),
           alive' = [alive EXCEPT ![thr[t].seen] = Len(origin) + 1],
           sessions' = S!Filed(thr[t].seen, Len(origin) + 1),
           thr' = S!Moved(t, IF t = Monitor THEN "connect" ELSE IF thr[t].retry THEN "call" ELSE "login",
                          Len(origin) + 1, thr[t].seen, thr[t].retry),
           ws' = IF t = Monitor THEN S!Entered ELSE ws,
           UNCHANGED <<cfg, put, changes, faults>>
    PROVE  SessionInv'
<1> USE DEF SessionInv
<1>1. /\ cfg \in Configs /\ put \in {"none", "clear"} /\ origin \in Seq(Configs)
      /\ sessions \in CachesTo(Len(origin))
      /\ lock \in S!Threads \cup {None}
      /\ thr \in [S!Threads -> ThreadsTo(Len(origin))]
      /\ ws \in MonitorsTo(Len(origin))
      /\ alive \in [Configs -> SidsTo(Len(origin))]
  BY SessionTypeDef DEF SessionTypes
<1> DEFINE n == Len(origin)
           seen == thr[t].seen
           pc == IF t = Monitor THEN "connect" ELSE IF thr[t].retry THEN "call" ELSE "login"
<1>2. Monitor \in S!Threads /\ None \notin S!Threads /\ pc \in {"connect", "call", "login"} /\ pc \in PCs
      /\ (t = Monitor => pc = "connect")
  BY ThreadsOf DEF PCs
<1>3. lock = t /\ seen \in Configs /\ n \in Nat /\ None \notin Configs
  BY <1>1, ThreadsAssumption DEF SessionTypes, Logging
<1>4. /\ origin' \in Seq(Configs) /\ Len(origin') = n + 1 /\ origin'[n + 1] = seen
      /\ \A i \in 1 .. n : origin'[i] = origin[i]
  BY <1>1, <1>3
<1>5. /\ SidsTo(n) \subseteq SidsTo(n + 1) /\ n + 1 \in SidsTo(n + 1) /\ None \in SidsTo(n)
      /\ ThreadsTo(n) \subseteq ThreadsTo(n + 1) /\ MonitorsTo(n) \subseteq MonitorsTo(n + 1)
      /\ n + 1 # None /\ n + 1 \notin SidsTo(n)
  BY <1>3, SidsGrow
<1> HIDE DEF n
<1>6. thr \in [S!Threads -> ThreadsTo(n + 1)]
  BY <1>1, <1>5 DEF n
<1>7. thr' = S!Moved(t, pc, n + 1, thr[t].seen, thr[t].retry)
  BY DEF n
<1> HIDE DEF pc
<1>8. /\ thr' \in [S!Threads -> ThreadsTo(n + 1)]
      /\ \A u \in S!Threads : u # t => thr'[u] = thr[u]
      /\ thr'[t].pc = pc /\ thr'[t].sid = n + 1
  BY <1>2, <1>5, <1>6, <1>7, KeptThread
<1>9. /\ sessions' \in CachesTo(n + 1) /\ sessions'.key = seen
      /\ sessions'.sid = IF cfg = seen THEN n + 1 ELSE None
  <2> HIDE DEF seen
  <2> DEFINE sid == IF cfg = seen THEN n + 1 ELSE None
  <2>1. sessions' = [key |-> seen, sid |-> sid, blocked |-> None]
    BY DEF S!Filed, n, seen
  <2>2. sid \in SidsTo(n + 1)
    BY <1>5
  <2> HIDE DEF sid
  <2>3. [key |-> seen, sid |-> sid, blocked |-> None] \in CachesTo(n + 1)
    BY <1>3, <2>2, CachesToRecord
  <2>4. sessions' \in CachesTo(n + 1) /\ sessions'.key = seen /\ sessions'.sid = sid
    BY <2>1, <2>3
  <2> QED BY <2>4 DEF sid
<1>10. /\ alive' \in [Configs -> SidsTo(n + 1)] /\ alive'[seen] = n + 1
       /\ \A c \in Configs : c # seen => alive'[c] = alive[c]
  <2>1. alive \in [Configs -> SidsTo(n + 1)] /\ alive' = [alive EXCEPT ![seen] = n + 1]
    BY <1>1, <1>5 DEF n
  <2> HIDE DEF seen
  <2> QED BY <1>3, <1>5, <2>1
<1>11. /\ ws' \in MonitorsTo(n + 1)
       /\ t = Monitor => ws'.force = FALSE
       /\ t # Monitor => ws' = ws
  <2>1. CASE t # Monitor
    BY <1>1, <1>5, <2>1 DEF n
  <2>2. CASE t = Monitor
    <3>1. ws.target \in Configs \cup {None} /\ ws.sid \in SidsTo(n + 1) /\ ws' = S!Entered
      BY <1>5, <2>2, SessionFacts DEF n
    <3>2. S!Entered \in MonitorsTo(n + 1) /\ S!Entered.force = FALSE
      BY <3>1, MonitorsToRecord DEF S!Entered
    <3> QED BY <2>2, <3>1, <3>2
  <2> QED BY <2>1, <2>2
<1>12. S!TypeOK'
  BY <1>1, <1>4, <1>8, <1>9, <1>10, <1>11, SessionTypeNext
<1>13. Logging'
  BY <1>2, <1>3, <1>5, <1>8 DEF SessionTypes, Logging
<1>14. ~Stale'
  BY DEF Stale
<1>15. /\ cfg = seen => Good' /\ ~Dead' /\ S!Cached' = n + 1
       /\ cfg # seen => ~Good' /\ ~Dead'
  BY <1>5, <1>9, <1>10 DEF S!Cached, Good, Dead
<1>16. Stale <=> cfg # seen
  BY <1>2, <1>3 DEF Stale
<1>17. Owed' + 1 <= Owed /\ Owed \in 0 .. 5 /\ Owed' \in 0 .. 5
  <2>1. CASE t = Monitor
    <3>1. ~Listening /\ ~Listening' /\ ~Trouble'
      BY <1>2, <1>8, <1>11, <2>1 DEF Listening, Trouble
    <3>2. ~Good \/ Trouble
      BY <1>2, <1>3, <2>1 DEF LoggingIn, Good, Trouble
    <3>3. Stale => put = "clear"
      BY DEF LoggingIn
    <3> QED BY <1>3, <1>14, <1>15, <1>16, <2>1, <3>1, <3>2, <3>3 DEF Owed
  <2>2. CASE t # Monitor
    <3>1. (Listening' <=> Listening) /\ ws' = ws
      BY <1>2, <1>8, <1>11, <2>2 DEF Listening
    <3>2. ~Good /\ ~Dead
      BY <1>2, <1>3, <2>2 DEF LoggingIn, Good, Dead
    <3>3. ~Listening \/ ws.target # seen => (Trouble' <=> Trouble)
      BY <1>10, <3>1 DEF Trouble, Paid
    <3>4. Stale => put = "clear"
      BY DEF LoggingIn
    <3>5. CASE Stale
      BY <1>3, <1>14, <1>15, <1>16, <2>2, <3>1, <3>3, <3>4, <3>5 DEF Owed
    <3>6. CASE ~Stale
      BY <1>3, <1>14, <1>15, <1>16, <2>2, <3>1, <3>2, <3>3, <3>6 DEF Owed
    <3> QED BY <3>5, <3>6
  <2> QED BY <2>1, <2>2
<1>18. Paid'
  <2>1. Listening' => ws'.target \in Configs
    BY <1>2, <1>8, <1>11 DEF Paid, Listening
  <2>2. n + Owed <= 1 + 3 * changes + 2 * faults /\ changes \in Nat /\ faults \in Nat
    BY DEF Paid, n
  <2>3. changes' = changes /\ faults' = faults /\ Len(origin') = n + 1
    BY <1>4
  <2>4. (n + 1) + Owed' <= 1 + 3 * changes + 2 * faults
    BY <1>3, <1>17, <2>2, OneLess
  <2> QED BY <2>1, <2>2, <2>3, <2>4 DEF Paid
<1>19. Filing' /\ LoggingIn'
  BY <1>4, <1>9, <1>14 DEF Filing, LoggingIn
<1>20. Rejections'
  <2> SUFFICES ASSUME NEW u \in S!Threads, thr'[u].pc = "rejected", sessions'.sid = thr'[u].sid
               PROVE  FALSE
    BY DEF Rejections
  <2>1. u # t /\ thr'[u] = thr[u] /\ thr[u].sid # None
    BY <1>2, <1>8 DEF SessionTypes, Logging
  <2>2. thr[u].sid \in SidsTo(n)
    BY SessionFacts DEF n
  <2> QED BY <1>5, <1>9, <2>1, <2>2
<1> QED BY <1>12, <1>13, <1>18, <1>19, <1>20 DEF SessionTypes

(* The router accepts a login, but the session fails its check. *)
LEMMA UnvalidatedStep ==
    ASSUME SessionInv, NEW t \in S!Threads, thr[t].pc = "logging", lock' = None,
           origin' = Append(origin, thr[t].seen),
           alive' = [alive EXCEPT ![thr[t].seen] = Len(origin) + 1],
           sessions' = S!NoSession, thr' = S!Goes(t, "idle"), faults' = faults + 1,
           UNCHANGED <<cfg, put, ws, changes>>
    PROVE  SessionInv'
<1> USE DEF SessionInv
<1>1. /\ cfg \in Configs /\ put \in {"none", "clear"} /\ origin \in Seq(Configs)
      /\ sessions \in CachesTo(Len(origin))
      /\ lock \in S!Threads \cup {None}
      /\ thr \in [S!Threads -> ThreadsTo(Len(origin))]
      /\ ws \in MonitorsTo(Len(origin))
      /\ alive \in [Configs -> SidsTo(Len(origin))]
  BY SessionTypeDef DEF SessionTypes
<1> DEFINE n == Len(origin)
           seen == thr[t].seen
<1>2. Monitor \in S!Threads /\ None \notin S!Threads /\ "idle" \in PCs
  BY ThreadsOf DEF PCs
<1>3. lock = t /\ seen \in Configs /\ n \in Nat /\ None \notin Configs
  BY <1>1, ThreadsAssumption DEF SessionTypes, Logging
<1>4. origin' \in Seq(Configs) /\ Len(origin') = n + 1
  BY <1>1, <1>3
<1>5. /\ SidsTo(n) \subseteq SidsTo(n + 1) /\ n + 1 \in SidsTo(n + 1) /\ None \in SidsTo(n)
      /\ ThreadsTo(n) \subseteq ThreadsTo(n + 1) /\ MonitorsTo(n) \subseteq MonitorsTo(n + 1)
      /\ n + 1 # None /\ n + 1 \notin SidsTo(n)
  BY <1>3, SidsGrow
<1> HIDE DEF n
<1>6. thr \in [S!Threads -> ThreadsTo(n + 1)] /\ ws' \in MonitorsTo(n + 1)
  BY <1>1, <1>5 DEF n
<1>7. thr[t].sid \in SidsTo(n + 1)
  BY <1>5, SessionFacts DEF n
<1>8. /\ thr' \in [S!Threads -> ThreadsTo(n + 1)]
      /\ \A u \in S!Threads : u # t => thr'[u] = thr[u]
      /\ thr'[t].pc = "idle"
  BY <1>2, <1>6, <1>7, KeptThread DEF S!Goes
<1>9. sessions' \in CachesTo(n + 1) /\ sessions'.sid = None /\ sessions'.key = None
  BY <1>3, BlockedTypes DEF S!NoSession
<1>10. /\ alive' \in [Configs -> SidsTo(n + 1)] /\ alive'[seen] = n + 1
       /\ \A c \in Configs : c # seen => alive'[c] = alive[c]
  <2>1. alive \in [Configs -> SidsTo(n + 1)] /\ alive' = [alive EXCEPT ![seen] = n + 1]
    BY <1>1, <1>5 DEF n
  <2> HIDE DEF seen
  <2> QED BY <1>3, <1>5, <2>1
<1>11. S!TypeOK'
  BY <1>1, <1>4, <1>6, <1>8, <1>9, <1>10, SessionTypeNext
<1>12. Logging'
  BY <1>2, <1>3, <1>8 DEF SessionTypes, Logging
<1>13. ~Stale' /\ S!Cached' = None /\ ~Good' /\ ~Dead' /\ (Listening' <=> Listening)
  BY <1>2, <1>3, <1>8, <1>9 DEF Stale, S!Cached, Good, Dead, Listening
<1>14. Stale <=> cfg # seen
  BY <1>2, <1>3 DEF Stale
<1>15. Owed' <= Owed + 1 /\ Owed \in 0 .. 5 /\ Owed' \in 0 .. 5
  <2>1. ~Listening \/ ws.target # seen => (Trouble' <=> Trouble)
    BY <1>10, <1>13 DEF Trouble, Paid
  <2>2. CASE Stale
    BY <1>13, <2>2 DEF Owed
  <2>3. CASE ~Stale /\ t = Monitor
    <3>1. ~Listening
      BY <2>3 DEF Listening
    <3> QED BY <1>13, <2>1, <2>3, <3>1 DEF Owed
  <2>4. CASE ~Stale /\ t # Monitor
    <3>1. ~Good /\ ~Dead
      BY <1>2, <1>3, <2>4 DEF LoggingIn, Good, Dead
    <3> QED BY <1>13, <1>14, <2>1, <2>4, <3>1 DEF Owed
  <2> QED BY <2>2, <2>3, <2>4
<1>16. Paid'
  <2> DEFINE m == Owed
             k == Owed'
  <2>1. /\ changes \in Nat /\ faults \in Nat /\ n + m <= 1 + 3 * changes + 2 * faults
        /\ Listening => ws.target \in Configs
    BY DEF Paid, n
  <2>2. n \in Nat /\ m \in 0 .. 5 /\ k \in 0 .. 5 /\ k <= m + 1
    BY <1>3, <1>15
  <2> HIDE DEF m, k
  <2>3. (n + 1) + k <= 1 + 3 * changes + 2 * (faults + 1) /\ faults + 1 \in Nat
    BY <2>1, <2>2
  <2> QED BY <1>4, <1>13, <2>1, <2>3 DEF Paid, k
<1>17. Filing' /\ LoggingIn'
  BY <1>9, <1>13 DEF Filing, LoggingIn
<1>18. Rejections'
  <2> SUFFICES ASSUME NEW u \in S!Threads, thr'[u].pc = "rejected", sessions'.sid = thr'[u].sid
               PROVE  FALSE
    BY DEF Rejections
  <2>1. u # t /\ thr'[u] = thr[u] /\ thr[u].sid # None
    BY <1>2, <1>8 DEF SessionTypes, Logging
  <2> QED BY <1>9, <2>1
<1> QED BY <1>11, <1>12, <1>16, <1>17, <1>18 DEF SessionTypes

(* One action of the component after the other. *)
LEMMA CallerSteps ==
    ASSUME SessionInv, NEW t \in Callers, S!CallerStep(t)
    PROVE  SessionInv'
<1>1. /\ t \in S!Threads /\ t # Monitor
      /\ thr[t].sid \in SidsTo(Len(origin)) /\ thr[t].seen \in Configs \cup {None}
      /\ thr[t].retry \in BOOLEAN /\ cfg \in Configs /\ sessions.sid \in SidsTo(Len(origin))
  BY ThreadsOf, ThreadsAssumption, SessionFacts DEF SessionInv
<1>2. CASE S!Request(t)
  BY <1>1, <1>2, QuietStep DEF S!Request
<1>3. CASE S!LogsIn(t)
  <2> USE DEF S!LogsIn, S!login
  <2>1. thr[t].pc = "login" /\ lock = None
        /\ UNCHANGED <<cfg, put, sessions, ws, alive, origin, changes, faults>>
    BY <1>3
  <2>2. CASE thr' = S!Goes(t, "idle") /\ UNCHANGED lock
    BY <1>1, <2>1, <2>2, QuietStep DEF S!Goes
  <2>3. CASE S!Cached # None /\ thr' = S!Moved(t, "call", S!Cached, thr[t].seen, thr[t].retry) /\ UNCHANGED lock
    <3>1. S!Cached = sessions.sid
      BY <2>3 DEF S!Cached
    <3> QED BY <1>1, <2>1, <2>3, <3>1, QuietStep
  <2>4. CASE S!Cached = None /\ lock' = t
             /\ thr' = S!Moved(t, "logging", thr[t].sid, cfg, thr[t].retry)
    BY <1>1, <2>1, <2>4, LoginStep
  <2> QED BY <1>3, <2>2, <2>3, <2>4
<1>4. CASE S!Call(t)
  <2>1. CASE alive[cfg] = thr[t].sid
    BY <1>1, <1>4, <2>1, QuietStep DEF S!Call
  <2>2. CASE alive[cfg] # thr[t].sid
    BY <1>1, <1>4, <2>2, RejectedStep DEF S!Call
  <2> QED BY <2>1, <2>2
<1>5. CASE S!Rejected(t)
  <2> USE DEF S!Rejected
  <2>1. thr[t].pc = "rejected" /\ lock = None
        /\ UNCHANGED <<cfg, put, ws, alive, origin, changes, faults>>
    BY <1>5
  <2>2. CASE ~S!SameSession(t)
    BY <1>1, <1>5, <2>1, <2>2, QuietStep
  <2>3. CASE S!SameSession(t)
    <3>1. S!Cached = None \/ Dead
      BY <1>1, <2>1, <2>3 DEF S!SameSession, S!Cached, Dead, SessionInv, Rejections
    <3>2. CASE thr[t].retry
      BY <1>1, <1>5, <2>1, <2>3, <3>1, <3>2, LoginStep
    <3>3. CASE ~thr[t].retry
      BY <1>1, <1>5, <2>1, <2>3, <3>1, <3>3, BlockStep DEF S!Goes
    <3> QED BY <3>2, <3>3
  <2> QED BY <2>2, <2>3
<1> QED BY <1>2, <1>3, <1>4, <1>5 DEF S!CallerStep

LEMMA MonitorSteps ==
    ASSUME SessionInv, S!MonitorStep
    PROVE  SessionInv'
<1>1. /\ Monitor \in S!Threads /\ None \in SidsTo(Len(origin))
      /\ thr[Monitor].sid \in SidsTo(Len(origin)) /\ thr[Monitor].seen \in Configs \cup {None}
      /\ thr[Monitor].retry \in BOOLEAN /\ cfg \in Configs /\ sessions.sid \in SidsTo(Len(origin))
      /\ ws \in MonitorsTo(Len(origin)) /\ ws.force \in BOOLEAN /\ ws.once \in BOOLEAN
      /\ ws.target \in Configs \cup {None} /\ ws.sid \in SidsTo(Len(origin))
      /\ thr \in [S!Threads -> ThreadsTo(Len(origin))]
  BY ThreadsOf, SessionFacts DEF SessionInv, SidsTo
<1>2. CASE S!Authenticates
  <2> USE DEF S!Authenticates, S!login
  <2>1. thr[Monitor].pc = "idle" /\ ~Listening
        /\ UNCHANGED <<cfg, put, sessions, alive, origin, changes, faults>>
    BY <1>2 DEF Listening
  <2>2. CASE thr' = S!Goes(Monitor, "idle") /\ UNCHANGED lock
    <3>1. thr'[Monitor].pc = "idle"
      BY <1>1, <2>2, KeptThread DEF S!Goes, PCs
    <3>2. ws' = ws
      BY <1>2, <3>1
    <3> QED BY <1>1, <2>1, <2>2, <3>2, MonitorStep DEF S!Goes
  <2>3. CASE \E sid \in SidsTo(Len(origin)) :
               /\ thr' = S!Moved(Monitor, "connect", sid, thr[Monitor].seen, thr[Monitor].retry)
               /\ UNCHANGED lock
    <3>1. PICK sid \in SidsTo(Len(origin)) :
                thr' = S!Moved(Monitor, "connect", sid, thr[Monitor].seen, thr[Monitor].retry)
      BY <2>3
    <3>2. thr'[Monitor].pc = "connect"
      BY <1>1, <3>1, KeptThread DEF PCs
    <3>3. ws' = S!Entered
      BY <1>2, <3>2
    <3>4. ws' \in MonitorsTo(Len(origin)) /\ ws'.force = FALSE
      BY <1>1, <3>3, MonitorsToRecord DEF S!Entered
    <3> QED BY <1>1, <2>1, <2>3, <3>1, <3>4, MonitorStep
  <2>4. CASE lock = None /\ (S!Cached = None \/ ws.force) /\ lock' = Monitor
             /\ thr' = S!Moved(Monitor, "logging", thr[Monitor].sid, cfg, thr[Monitor].retry)
    <3>1. thr'[Monitor].pc = "logging"
      BY <1>1, <2>4, MovedThread DEF PCs
    <3>2. ws' = ws
      BY <1>2, <3>1
    <3> QED BY <1>1, <2>1, <2>4, <3>2, LoginStep
  <2> QED
    <3>1. S!Cached \in SidsTo(Len(origin))
      BY <1>1 DEF S!Cached
    <3> QED BY <1>1, <1>2, <2>2, <2>3, <2>4, <3>1 DEF S!Goes
<1>3. CASE S!Connects
  <2> USE DEF S!Connects
  <2>1. thr[Monitor].pc = "connect" /\ ~Listening
        /\ UNCHANGED <<cfg, put, sessions, lock, alive, origin, changes, faults>>
    BY <1>3 DEF Listening
  <2>2. CASE S!Cached = None
    <3>1. thr' = S!Goes(Monitor, "idle") /\ ws' = ws
      BY <1>3, <2>2
    <3> QED BY <1>1, <2>1, <3>1, MonitorStep DEF S!Goes
  <2>3. CASE Good
    <3>1. thr' = S!Goes(Monitor, "receive")
          /\ ws' = [force |-> ws.force, once |-> ws.once, target |-> cfg, sid |-> S!Cached]
      BY <1>3, <2>3 DEF Good
    <3>3. S!Cached \in SidsTo(Len(origin))
      BY <1>1 DEF S!Cached
    <3>4. ws' \in MonitorsTo(Len(origin)) /\ ws'.target = cfg /\ ws'.force = ws.force
          /\ ws'.sid = S!Cached
      BY <1>1, <3>1, <3>3, MonitorsToRecord
    <3> QED BY <1>1, <2>1, <2>3, <3>1, <3>4, MonitorStep DEF S!Goes
  <2>4. CASE Dead
    <3>1. thr' = S!Goes(Monitor, "idle") /\ ws' = [ws EXCEPT !.force = TRUE]
      BY <1>3, <2>4 DEF Dead
    <3>3. ws' \in MonitorsTo(Len(origin))
      BY <3>1, <1>1 DEF MonitorsTo
    <3> QED BY <1>1, <2>1, <2>4, <3>1, <3>3, MonitorStep DEF S!Goes
  <2> QED BY <2>2, <2>3, <2>4 DEF Good, Dead
<1>4. CASE S!Receives
  <2>1. /\ thr[Monitor].pc = "receive" /\ Trouble /\ thr' = S!Goes(Monitor, "idle")
        /\ UNCHANGED <<cfg, put, sessions, lock, alive, origin, changes, faults>>
    BY <1>4 DEF S!Receives, Trouble, Listening
  <2>2. PICK told \in BOOLEAN : ws' = [force |-> told, once |-> ws.once, target |-> None, sid |-> None]
    BY <1>4 DEF S!Receives
  <2>3. ws' \in MonitorsTo(Len(origin))
    BY <1>1, <2>2, MonitorsToRecord
  <2> QED BY <1>1, <2>1, <2>3, MonitorStep DEF S!Goes
<1> QED BY <1>2, <1>3, <1>4 DEF S!MonitorStep

LEMMA SessionStep ==
    ASSUME SessionInv, S!Next
    PROVE  SessionInv'
<1>1. /\ Len(origin) \in Nat /\ Owed \in 0 .. 5 /\ put \in {"none", "clear"}
      /\ changes \in Nat /\ faults \in Nat /\ Len(origin) + Owed <= 1 + 3 * changes + 2 * faults
      /\ sessions.key \in Configs \cup {None} /\ sessions.sid \in SidsTo(Len(origin))
      /\ sessions.blocked \in Configs \cup {None} /\ None \in SidsTo(Len(origin))
      /\ sessions = [key |-> sessions.key, sid |-> sessions.sid, blocked |-> sessions.blocked]
  BY SessionFacts, OwedTypes DEF SessionInv, Paid, SidsTo
<1>2. CASE \E t \in Callers : S!CallerStep(t)
  BY <1>2, CallerSteps
<1>3. CASE S!MonitorStep
  BY <1>3, MonitorSteps
<1>4. CASE \E t \in S!Threads : S!LoginEnds(t)
  <2>1. PICK t \in S!Threads : S!LoginEnds(t)
    BY <1>4
  <2>2. CASE faults' = faults + 1 /\ sessions' \in {sessions, S!NoSession} /\ thr' = S!Goes(t, "idle")
             /\ UNCHANGED <<alive, origin, ws>>
    BY <2>1, <2>2, FailedStep DEF S!LoginEnds
  <2>3. CASE /\ origin' = Append(origin, thr[t].seen)
             /\ alive' = [alive EXCEPT ![thr[t].seen] = Len(origin) + 1]
             /\ sessions' = S!Filed(thr[t].seen, Len(origin) + 1)
             /\ thr' = S!Moved(t, IF t = Monitor THEN "connect"
                                  ELSE IF thr[t].retry THEN "call" ELSE "login",
                               Len(origin) + 1, thr[t].seen, thr[t].retry)
             /\ ws' = (IF t = Monitor THEN S!Entered ELSE ws)
             /\ UNCHANGED faults
    BY <2>1, <2>3, DoneStep DEF S!LoginEnds
  <2>4. CASE /\ origin' = Append(origin, thr[t].seen)
             /\ alive' = [alive EXCEPT ![thr[t].seen] = Len(origin) + 1]
             /\ sessions' = S!NoSession /\ thr' = S!Goes(t, "idle") /\ faults' = faults + 1
             /\ UNCHANGED ws
    BY <2>1, <2>4, UnvalidatedStep DEF S!LoginEnds
  <2> QED BY <2>1, <2>2, <2>3, <2>4 DEF S!LoginEnds
<1>5. CASE S!BlockEnds
  <2>1. /\ sessions' = [sessions EXCEPT !.blocked = None]
        /\ UNCHANGED <<cfg, put, lock, thr, ws, alive, origin, changes, faults>>
    BY <1>5 DEF S!BlockEnds
  <2>2. sessions' = [key |-> sessions.key, sid |-> sessions.sid, blocked |-> None]
    BY <1>1, <2>1
  <2>3. sessions' \in CachesTo(Len(origin)) /\ sessions'.key = sessions.key /\ sessions'.sid = sessions.sid
    BY <1>1, <2>2, CachesToRecord
  <2>4. Owed' = Owed
    BY <2>1, <2>3 DEF Owed, Good, Dead, Trouble, Listening, Stale, S!Cached
  <2> QED BY <1>1, <2>1, <2>3, <2>4, CacheStep
<1>6. CASE S!SessionAges
  <2>1. /\ sessions' = [sessions EXCEPT !.sid = None] /\ faults' = faults + 1 /\ lock = None
        /\ UNCHANGED <<cfg, put, lock, thr, ws, alive, origin, changes>>
    BY <1>6 DEF S!SessionAges
  <2>2. sessions' = [key |-> sessions.key, sid |-> None, blocked |-> sessions.blocked]
    BY <1>1, <2>1
  <2>3. sessions' \in CachesTo(Len(origin)) /\ sessions'.sid = None
    BY <1>1, <2>2, CachesToRecord
  <2>4. ~Stale /\ ~Stale' /\ (Trouble' <=> Trouble) /\ (Listening' <=> Listening)
    BY <2>1 DEF Stale, Trouble, Listening
  <2>5. Owed' <= Owed + 2 /\ Owed' \in 0 .. 5
    BY <2>1, <2>4 DEF Owed
  <2>6. Len(origin) + Owed' <= 1 + 3 * changes + 2 * (faults + 1)
    BY <1>1, <2>5, TwoMore
  <2>7. /\ Len(origin) + Owed' <= 1 + 3 * changes' + 2 * faults'
        /\ changes' \in Nat /\ faults' \in Nat
    BY <1>1, <2>1, <2>6
  <2> QED BY <1>1, <2>1, <2>3, <2>7, CacheStep
<1>7. CASE S!ConfigCleared
  <2>1. /\ sessions' = S!NoSession /\ put = "clear" /\ put' = "none" /\ lock = None
        /\ UNCHANGED <<cfg, lock, thr, ws, alive, origin, changes, faults>>
    BY <1>7 DEF S!ConfigCleared
  <2>2. sessions' \in CachesTo(Len(origin)) /\ sessions'.sid = None
    BY <1>1, <2>1, BlockedTypes DEF S!NoSession
  <2>3. ~Stale /\ ~Stale' /\ (Trouble' <=> Trouble) /\ (Listening' <=> Listening) /\ ~Good' /\ ~Dead'
    BY <2>1, <2>2 DEF Stale, Trouble, Listening, Good, Dead, S!Cached
  <2>4. Owed' <= Owed /\ Owed' \in 0 .. 5
    BY <2>1, <2>3 DEF Owed
  <2>5. /\ Len(origin) + Owed' <= 1 + 3 * changes' + 2 * faults'
        /\ changes' \in Nat /\ faults' \in Nat
    BY <1>1, <2>1, <2>4, NoMore
  <2>6. put' \in {"none", "clear"}
    BY <2>1
  <2> QED BY <2>1, <2>2, <2>5, <2>6, CacheStep
<1>8. CASE S!Logout
  <2>1. /\ sessions' = S!NoSession /\ faults' = faults + 1 /\ lock = None
        /\ UNCHANGED <<cfg, put, lock, thr, ws, alive, origin, changes>>
    BY <1>8 DEF S!Logout
  <2>2. sessions' \in CachesTo(Len(origin)) /\ sessions'.sid = None
    BY <1>1, <2>1, BlockedTypes DEF S!NoSession
  <2>3. ~Stale /\ ~Stale' /\ (Trouble' <=> Trouble) /\ (Listening' <=> Listening)
    BY <2>1 DEF Stale, Trouble, Listening
  <2>4. Owed' <= Owed + 2 /\ Owed' \in 0 .. 5
    BY <2>1, <2>3 DEF Owed
  <2>5. Len(origin) + Owed' <= 1 + 3 * changes + 2 * (faults + 1)
    BY <1>1, <2>4, TwoMore
  <2>6. /\ Len(origin) + Owed' <= 1 + 3 * changes' + 2 * faults'
        /\ changes' \in Nat /\ faults' \in Nat
    BY <1>1, <2>1, <2>5
  <2> QED BY <1>1, <2>1, <2>2, <2>6, CacheStep
<1> QED BY <1>2, <1>3, <1>4, <1>5, <1>6, <1>7, <1>8, SavedStep, DropsStep DEF S!Next

LEMMA SessionInit == S!Init => SessionInv
<1> SUFFICES ASSUME S!Init PROVE SessionInv
  OBVIOUS
<1>1. /\ cfg \in Configs /\ put = "none" /\ sessions = S!NoSession /\ lock = None /\ origin = <<>>
      /\ thr = [t \in S!Threads |-> [pc |-> "idle", sid |-> None, seen |-> None, retry |-> TRUE]]
      /\ ws = [force |-> FALSE, once |-> FALSE, target |-> None, sid |-> None]
      /\ alive = [c \in Configs |-> None] /\ changes = 0 /\ faults = 0
  BY DEF S!Init
<1>2. Len(origin) = 0 /\ origin \in Seq(Configs) /\ None \in SidsTo(0)
  BY <1>1 DEF SidsTo
<1>3. sessions \in CachesTo(0) /\ sessions.sid = None
  BY <1>1, BlockedTypes DEF S!NoSession
<1>4. thr \in [S!Threads -> ThreadsTo(0)] /\ \A t \in S!Threads : thr[t].pc = "idle"
  <2>1. [pc |-> "idle", sid |-> None, seen |-> None, retry |-> TRUE] \in ThreadsTo(0)
    BY <1>2, ThreadsToRecord DEF PCs
  <2> QED BY <1>1, <2>1
<1>5. ws \in MonitorsTo(0) /\ ws.force = FALSE
  BY <1>1, <1>2, MonitorsToRecord
<1>6. S!TypeOK
  BY <1>1, <1>2, <1>3, <1>4, <1>5, SessionTypeDef
<1>7. Logging /\ Monitor \in S!Threads
  BY <1>1, <1>4, ThreadsOf DEF Logging
<1>8. ~Stale /\ ~Listening /\ ~Trouble /\ S!Cached = None /\ ~Good /\ ~Dead
  BY <1>1, <1>3, <1>4, <1>5, <1>7 DEF Stale, Listening, Trouble, S!Cached, Good, Dead
<1>9. Paid
  BY <1>1, <1>2, <1>8 DEF Paid, Owed
<1>10. Filing /\ LoggingIn /\ Rejections
  BY <1>1, <1>3, <1>4, <1>8 DEF Filing, LoggingIn, Rejections
<1> QED BY <1>6, <1>7, <1>9, <1>10 DEF SessionInv, SessionTypes

LEMMA SessionMeans == SessionInv => S!SessionOwn /\ S!NoLoginStorm
<1> SUFFICES ASSUME SessionInv PROVE S!SessionOwn /\ S!NoLoginStorm
  OBVIOUS
<1>1. Len(origin) \in Nat /\ Owed \in 0 .. 5
  BY SessionFacts, OwedTypes DEF SessionInv
<1> QED BY <1>1 DEF SessionInv, Paid, Filing, S!SessionOwn, S!NoLoginStorm

(* While another component runs, nobody has logged in. *)
RestingSession == focus # "session" => sessions.sid = None

LEMMA SessionRouterStep ==
    ASSUME focus = "session" => SessionInv, RestingSession, [RouterNext]_routerVars
    PROVE  (focus = "session" => SessionInv)' /\ RestingSession'
<1>1. focus' = focus
  BY DEF RouterNext, routerVars, notControl, notSession, notNat, notCache, notSignal, notPair, notCommand
<1>2. CASE focus = "session" /\ S!Next
  BY <1>1, <1>2, SessionStep DEF RestingSession
<1>3. CASE UNCHANGED routerVars
  BY <1>3 DEF routerVars, sessionVars, RestingSession, SessionInv, SessionTypes, Logging, S!TypeOK, S!Sids,
      Paid, Owed, Stale, Trouble, Listening, Good, Dead, S!Cached, Filing, LoggingIn, Rejections
<1>4. CASE focus # "session" /\ UNCHANGED sessionVars
  BY <1>1, <1>4 DEF sessionVars, RestingSession
<1> QED BY <1>2, <1>3, <1>4
     DEF RouterNext, notControl, notSession, notNat, notCache, notSignal, notPair, notCommand

(* The cache offers a session only to the configuration it was obtained with, *)
(* and however many callers there are, the router sees one login for the     *)
(* start, two for a fault and three for a change of the configuration.       *)
THEOREM SessionsStaySound == RouterSpec => []SessionSound
<1> DEFINE Inv == (focus = "session" => SessionInv) /\ RestingSession
<1>1. RouterInit => Inv
  BY SessionInit, BlockedTypes DEF RouterInit, RestingSession, S!Init, S!NoSession
<1>2. Inv /\ [RouterNext]_routerVars => Inv'
  BY SessionRouterStep
<1>3. Inv => SessionSound
  BY SessionMeans DEF SessionSound, RestingSession, S!SessionOwn
<1> QED BY <1>1, <1>2, <1>3, PTL DEF RouterSpec

-----------------------------------------------------------------------------
(* NatDiagnostic *)

NatThreads ==
    [pc : {"none", "set", "store", "poll"}, left : 0 .. NatPolls,
     status : {"running", "completed", "error"}]
NatTypes ==
    /\ generation \in 0 .. MaxStarts /\ asked \in [N!Generations -> Requests \cup {None}]
    /\ natThread \in [N!Generations -> NatThreads]
    /\ router \in [request : Requests \cup {None}, ended : BOOLEAN]
    /\ result \in [status : {"idle", "running", "completed", "error"},
                   request : Requests \cup {None}]
NatInv == NatTypes /\ N!ResultOfLatest

LEMMA NatThreadFields ==
    ASSUME NEW r \in NatThreads
    PROVE  /\ r.pc \in {"none", "set", "store", "poll"} /\ r.left \in 0 .. NatPolls
           /\ r.status \in {"running", "completed", "error"}
  BY DEF NatThreads

LEMMA NatThreadRecord ==
    ASSUME NEW pc \in {"none", "set", "store", "poll"}, NEW left \in 0 .. NatPolls,
           NEW status \in {"running", "completed", "error"}
    PROVE  N!At(pc, left, status) \in NatThreads /\ N!At(pc, left, status).pc = pc
  BY DEF N!At, NatThreads

(* The thread of one generation moves; the latest one stops only with a result. *)
LEMMA NatMoves ==
    ASSUME NatInv, NEW g \in N!Generations, NEW r \in NatThreads,
           natThread' = [natThread EXCEPT ![g] = r],
           UNCHANGED <<generation, asked>>, router' \in [request : Requests \cup {None}, ended : BOOLEAN],
           result' = result \/ (g = generation /\ result' = [status |-> natThread[g].status,
                                                             request |-> asked[g]]),
           g # generation \/ r.pc # "none" \/ result'.status # "running",
           natThread[g].pc # "none"
    PROVE  NatInv'
<1> USE DEF NatInv, NatTypes
<1>1. natThread[g].status \in {"running", "completed", "error"}
  BY NatThreadFields
<1>2. result' \in [status : {"idle", "running", "completed", "error"}, request : Requests \cup {None}]
      /\ (result' = result \/ result'.request = asked[g])
  BY <1>1
<1>3. natThread' \in [N!Generations -> NatThreads] /\ natThread'[g] = r
      /\ \A h \in N!Generations : h # g => natThread'[h] = natThread[h]
  OBVIOUS
<1>4. NatTypes'
  BY <1>2, <1>3 DEF N!Generations
<1>5. N!ResultOfLatest'
  <2> SUFFICES ASSUME generation > 0
               PROVE  /\ result'.request = asked[generation]
                      /\ result'.status = "running" => natThread'[generation].pc # "none"
    BY DEF N!ResultOfLatest
  <2>1. generation \in N!Generations
    BY LimitsAssumption DEF N!Generations
  <2> QED BY <1>2, <1>3, <2>1 DEF N!ResultOfLatest
<1> QED BY <1>4, <1>5

LEMMA NatStep ==
    ASSUME NatInv, N!Next
    PROVE  NatInv'
<1> USE DEF NatInv
<1>1. CASE \E request \in Requests : N!Start(request)
  <2>1. PICK request \in Requests : N!Start(request)
    BY <1>1
  <2> DEFINE r == N!At("set", NatPolls, "running")
  <2>2. r \in NatThreads /\ r.pc = "set"
    BY LimitsAssumption, NatThreadRecord
  <2>3. /\ generation < MaxStarts /\ generation' = generation + 1
        /\ asked' = [asked EXCEPT ![generation + 1] = request]
        /\ result' = [status |-> "running", request |-> request]
        /\ natThread' = [natThread EXCEPT ![generation + 1] = r]
        /\ router' = router
    BY <2>1 DEF N!Start
  <2> HIDE DEF r
  <2>4. generation' \in 0 .. MaxStarts /\ generation' \in N!Generations
    BY <2>3, LimitsAssumption DEF NatTypes, N!Generations
  <2>5. NatTypes'
    BY <2>2, <2>3, <2>4 DEF NatTypes, N!Generations
  <2>6. asked'[generation'] = request /\ natThread'[generation'].pc = "set"
        /\ result'.request = request
    BY <2>2, <2>3, <2>4 DEF NatTypes
  <2> QED BY <2>5, <2>6 DEF N!ResultOfLatest
<1>2. CASE \E g \in N!Generations : N!Worker(g)
  <2>1. PICK g \in N!Generations : N!Worker(g)
    BY <1>2
  <2>2. /\ natThread[g].left \in 0 .. NatPolls
        /\ natThread[g].status \in {"running", "completed", "error"} /\ g \in 1 .. MaxStarts
        /\ asked[g] \in Requests \cup {None}
        /\ router \in [request : Requests \cup {None}, ended : BOOLEAN]
    BY NatThreadFields DEF NatTypes, N!Generations
  <2>3. ASSUME NEW status \in {"running", "completed", "error"}, N!Storing(g, status),
               router' \in [request : Requests \cup {None}, ended : BOOLEAN],
               UNCHANGED <<generation, asked, result>>, natThread[g].pc # "none"
        PROVE  NatInv'
    <3> DEFINE r == N!At("store", natThread[g].left, status)
    <3>1. r \in NatThreads /\ r.pc = "store"
      BY <2>2, NatThreadRecord
    <3>2. natThread' = [natThread EXCEPT ![g] = r]
      BY <2>3 DEF N!Storing
    <3> HIDE DEF r
    <3> QED BY <2>3, <3>1, <3>2, NatMoves
  <2>4. CASE N!Sets(g)
    <3>1. natThread[g].pc # "none" /\ UNCHANGED <<generation, asked, result>>
      BY <2>4 DEF N!Sets
    <3>2. ASSUME NEW status \in {"running", "completed", "error"}, N!Storing(g, status),
                 router' = [request |-> asked[g], ended |-> status # "running"]
          PROVE  NatInv'
      <4>1. router' \in [request : Requests \cup {None}, ended : BOOLEAN]
        BY <2>2, <3>2
      <4> QED BY <2>3, <3>1, <3>2, <4>1
    <3>3. CASE N!Storing(g, "error") /\ UNCHANGED router
      BY <2>2, <2>3, <3>1, <3>3
    <3> QED BY <2>4, <3>2, <3>3 DEF N!Sets
  <2>5. CASE N!Stores(g)
    <3> DEFINE r == IF N!Current(g) /\ natThread[g].status # "running" THEN N!NoThread
                    ELSE N!At("poll", natThread[g].left, natThread[g].status)
    <3>1. /\ natThread' = [natThread EXCEPT ![g] = r] /\ natThread[g].pc = "store"
          /\ UNCHANGED <<generation, asked, router>>
          /\ result' = IF N!Current(g) THEN [status |-> natThread[g].status, request |-> asked[g]]
                       ELSE result
      BY <2>5 DEF N!Stores
    <3>2. r \in NatThreads /\ (r.pc # "none" \/ (N!Current(g) /\ natThread[g].status # "running"))
      BY <2>2, LimitsAssumption, NatThreadRecord DEF N!NoThread
    <3> HIDE DEF r
    <3>3. CASE N!Current(g)
      BY <2>2, <3>1, <3>2, <3>3, NatMoves DEF N!Current
    <3>4. CASE ~N!Current(g)
      BY <2>2, <3>1, <3>2, <3>4, NatMoves DEF N!Current
    <3> QED BY <3>3, <3>4
  <2>6. CASE N!Polls(g)
    <3>1. natThread[g].pc = "poll" /\ UNCHANGED <<generation, asked, result, router>>
      BY <2>6 DEF N!Polls
    <3>2. CASE g # generation /\ natThread' = [natThread EXCEPT ![g] = N!NoThread]
      <4>1. N!NoThread \in NatThreads
        BY LimitsAssumption, NatThreadRecord DEF N!NoThread
      <4> QED BY <2>2, <3>1, <3>2, <4>1, NatMoves
    <3>3. ASSUME NEW status \in {"running", "completed", "error"}, natThread[g].left > 0,
                 natThread' = [natThread EXCEPT ![g] = N!At("store", natThread[g].left - 1, status)]
          PROVE  NatInv'
      <4> DEFINE r == N!At("store", natThread[g].left - 1, status)
      <4>1. natThread[g].left - 1 \in 0 .. NatPolls
        BY <2>2, <3>3, LimitsAssumption
      <4>2. r \in NatThreads /\ r.pc = "store" /\ natThread' = [natThread EXCEPT ![g] = r]
        BY <3>3, <4>1, NatThreadRecord
      <4> HIDE DEF r
      <4> QED BY <2>2, <3>1, <4>2, NatMoves
    <3>4. CASE /\ natThread[g].left > 0
               /\ natThread' = [natThread EXCEPT ![g] =
                                  N!At("poll", natThread[g].left - 1, natThread[g].status)]
      <4> DEFINE r == N!At("poll", natThread[g].left - 1, natThread[g].status)
      <4>1. natThread[g].left - 1 \in 0 .. NatPolls
        BY <2>2, <3>4, LimitsAssumption
      <4>2. r \in NatThreads /\ r.pc = "poll" /\ natThread' = [natThread EXCEPT ![g] = r]
        BY <2>2, <3>4, <4>1, NatThreadRecord
      <4> HIDE DEF r
      <4> QED BY <2>2, <3>1, <4>2, NatMoves
    <3>5. CASE N!Storing(g, "error")
      BY <2>2, <2>3, <3>1, <3>5
    <3> QED BY <2>6, <3>2, <3>3, <3>4, <3>5 DEF N!Polls, N!Answers, N!Current
  <2> QED BY <2>1, <2>4, <2>5, <2>6 DEF N!Worker
<1>3. CASE N!RouterEnds
  <2>1. router' = [router EXCEPT !.ended = TRUE] /\ UNCHANGED <<generation, asked, result, natThread>>
    BY <1>3 DEF N!RouterEnds
  <2>2. router' \in [request : Requests \cup {None}, ended : BOOLEAN]
    BY <2>1 DEF NatTypes
  <2> QED BY <2>1, <2>2 DEF NatTypes, N!Generations, N!ResultOfLatest
<1> QED BY <1>1, <1>2, <1>3 DEF N!Next

LEMMA NatInit == N!Init => NatInv
<1> SUFFICES ASSUME N!Init PROVE NatInv
  OBVIOUS
<1>1. N!NoThread \in NatThreads
  BY LimitsAssumption, NatThreadRecord DEF N!NoThread
<1> QED BY <1>1, LimitsAssumption DEF N!Init, NatInv, NatTypes, N!ResultOfLatest

-----------------------------------------------------------------------------
(* SlowCache *)

ReaderRecords == [pc : K!Pcs, value : K!Value \cup {K!NoValue}]
WorkerPcs == {"idle", "reading", "read"}
CacheTypes ==
    /\ config \in Configs /\ said \in [Configs -> 0 .. MaxChanges]
    /\ entry \in [value : K!Value, fresh : BOOLEAN] \cup {None}
    /\ reader \in [K!All -> ReaderRecords]
    /\ refreshing \in BOOLEAN
    /\ \A t \in K!All : reader[t].pc = "read" => reader[t].value \in K!Value
    /\ \A w \in Workers : reader[w].pc \in WorkerPcs
CacheInv == CacheTypes /\ K!RefreshMarked

(* A reader moves; a worker that ends takes the mark with it. *)
LEMMA ReaderMoves ==
    ASSUME CacheInv, NEW t \in K!All, NEW pc \in K!Pcs, t \in Workers => pc \in WorkerPcs,
           NEW v \in K!Value \cup {K!NoValue}, pc = "read" => v \in K!Value,
           reader' = [reader EXCEPT ![t] = [pc |-> pc, value |-> v]],
           entry' \in [value : K!Value, fresh : BOOLEAN] \cup {None},
           refreshing' \in BOOLEAN,
           refreshing' => (refreshing /\ (t \notin Workers \/ pc # "idle")) \/ (t \in Workers /\ pc # "idle"),
           UNCHANGED <<config, said>>
    PROVE  CacheInv'
<1> USE DEF CacheInv
<1> DEFINE r == [pc |-> pc, value |-> v]
<1>1. r \in ReaderRecords /\ r.pc = pc /\ r.value = v
  BY DEF ReaderRecords
<1> HIDE DEF r
<1>2. reader' = [reader EXCEPT ![t] = r]
  BY DEF r
<1>3. reader' \in [K!All -> ReaderRecords]
      /\ reader'[t] = r /\ \A u \in K!All : u # t => reader'[u] = reader[u]
  BY <1>1, <1>2 DEF CacheTypes
<1>4. CacheTypes'
  BY <1>1, <1>3 DEF CacheTypes, K!All
<1>5. K!RefreshMarked'
  <2> SUFFICES ASSUME refreshing' PROVE \E w \in Workers : reader'[w].pc # "idle"
    BY DEF K!RefreshMarked
  <2>1. CASE t \in Workers /\ pc # "idle"
    BY <1>1, <1>3, <2>1
  <2>2. CASE refreshing /\ t \notin Workers
    <3>1. PICK w \in Workers : reader[w].pc # "idle"
      BY <2>2 DEF K!RefreshMarked
    <3> QED BY <1>3, <2>2, <3>1 DEF K!All
  <2> QED BY <2>1, <2>2
<1> QED BY <1>4, <1>5

(* Another number on a router. *)
LEMMA SaidMoves ==
    ASSUME CacheInv, \A s \in Configs : said[s] <= changes, changes \in 0 .. MaxChanges,
           NEW s \in Configs, said' = [said EXCEPT ![s] = said[s] + 1],
           changes < MaxChanges, changes' = changes + 1
    PROVE  /\ said' \in [Configs -> 0 .. MaxChanges] /\ changes' \in 0 .. MaxChanges
           /\ \A u \in Configs : said'[u] <= changes'
<1>1. said \in [Configs -> 0 .. MaxChanges]
  BY DEF CacheInv, CacheTypes
<1>2. said[s] + 1 \in 0 .. MaxChanges /\ changes' \in 0 .. MaxChanges
  BY <1>1, LimitsAssumption
<1> QED BY <1>1, <1>2, LimitsAssumption

LEMMA SlowCacheStep ==
    ASSUME CacheInv, \A s \in Configs : said[s] <= changes, changes \in 0 .. MaxChanges, K!Next
    PROVE  CacheInv' /\ (\A s \in Configs : said[s] <= changes)' /\ changes' \in 0 .. MaxChanges
<1> USE DEF CacheInv
<1>1. /\ config \in Configs /\ said \in [Configs -> 0 .. MaxChanges] /\ refreshing \in BOOLEAN
      /\ entry \in [value : K!Value, fresh : BOOLEAN] \cup {None}
      /\ \A t \in K!All : /\ reader[t].pc \in K!Pcs
                          /\ reader[t].value \in K!Value \cup {K!NoValue}
                          /\ reader[t].pc = "read" => reader[t].value \in K!Value
                          /\ t \in Workers => reader[t].pc \in WorkerPcs
      /\ [router |-> config, said |-> said[config]] \in K!Value
  BY DEF CacheTypes, ReaderRecords, K!Value
<1>2. K!Kept \in [value : K!Value, fresh : BOOLEAN] \cup {None}
  BY <1>1 DEF K!Kept
<1>3. CASE K!Changes
  <2>1. PICK s \in Configs : said' = [said EXCEPT ![s] = said[s] + 1]
    BY <1>3 DEF K!Changes
  <2>2. /\ changes < MaxChanges /\ changes' = changes + 1
        /\ UNCHANGED <<config, scope, entry, refreshing, backoff, reader, switches, faults>>
    BY <1>3 DEF K!Changes
  <2>3. /\ said' \in [Configs -> 0 .. MaxChanges] /\ changes' \in 0 .. MaxChanges
        /\ \A u \in Configs : said'[u] <= changes'
    BY <2>1, <2>2, SaidMoves
  <2> QED BY <2>2, <2>3 DEF CacheTypes, K!RefreshMarked, ReaderRecords, K!Value, K!All, K!NoValue
<1>4. CASE K!Switches
  <2>1. config' \in Configs /\ UNCHANGED <<said, scope, entry, refreshing, backoff, reader, changes, faults>>
    BY <1>4 DEF K!Switches
  <2> QED BY <2>1 DEF CacheTypes, K!RefreshMarked
<1>5. CASE K!Expires
  <2>1. /\ entry' = [entry EXCEPT !.fresh = FALSE] /\ entry # None
        /\ UNCHANGED <<config, said, scope, refreshing, backoff, reader, changes, switches, faults>>
    BY <1>5 DEF K!Expires
  <2>2. entry' \in [value : K!Value, fresh : BOOLEAN]
    BY <1>1, <2>1
  <2> QED BY <2>1, <2>2 DEF CacheTypes, K!RefreshMarked
<1>6. CASE K!BackoffEnds
  BY <1>6 DEF K!BackoffEnds, CacheTypes, K!RefreshMarked
<1>asks. ASSUME NEW t \in K!All, NEW force \in BOOLEAN, K!cached(t, force), t \notin Workers \/ force
         PROVE  CacheInv' /\ UNCHANGED <<said, changes>>
  <2> DEFINE pc == IF force THEN "reading" ELSE "peek"
  <2>1. /\ entry' = K!Kept /\ refreshing' = (refreshing /\ ~K!NewScope)
        /\ UNCHANGED <<config, said, changes, switches, faults>>
        /\ reader' = [reader EXCEPT ![t] = [pc |-> pc, value |-> reader[t].value]]
    BY <1>asks DEF K!cached, K!Goes
  <2>2. pc \in K!Pcs /\ pc # "read" /\ pc # "idle" /\ (t \in Workers => pc \in WorkerPcs)
    BY <1>asks DEF K!Pcs, WorkerPcs
  <2> HIDE DEF pc
  <2>3. CacheInv'
    BY <1>1, <1>2, <2>1, <2>2, ReaderMoves
  <2> QED BY <2>1, <2>3
<1>7. ASSUME NEW t \in Readers, NEW force \in BOOLEAN, K!cached(t, force)
      PROVE  CacheInv' /\ UNCHANGED <<said, changes>>
  BY <1>7, <1>asks, ThreadsAssumption DEF K!All
<1>8. ASSUME NEW t \in Readers, K!Writes(t)
      PROVE  CacheInv' /\ (\A s \in Configs : said[s] <= changes)' /\ changes' \in 0 .. MaxChanges
  <2>1. /\ changes < MaxChanges /\ changes' = changes + 1
        /\ said' = [said EXCEPT ![config] = said[config] + 1]
        /\ reader' = [reader EXCEPT ![t] = [pc |-> "written", value |-> reader[t].value]]
        /\ UNCHANGED <<config, entry, refreshing>>
    BY <1>8 DEF K!Writes, K!Goes
  <2>2. /\ said' \in [Configs -> 0 .. MaxChanges] /\ changes' \in 0 .. MaxChanges
        /\ \A u \in Configs : said'[u] <= changes'
    BY <1>1, <2>1, SaidMoves
  <2> DEFINE r == [pc |-> "written", value |-> reader[t].value]
  <2>3. r \in ReaderRecords /\ r.pc = "written" /\ t \in K!All /\ t \notin Workers
    BY <1>1, ThreadsAssumption DEF ReaderRecords, K!Pcs, K!All
  <2>4. reader' = [reader EXCEPT ![t] = r]
    BY <2>1
  <2> HIDE DEF r
  <2>5. /\ reader' \in [K!All -> ReaderRecords] /\ reader'[t].pc = "written"
        /\ \A u \in K!All : u # t => reader'[u] = reader[u]
    BY <2>3, <2>4 DEF CacheTypes
  <2>6. CacheTypes'
    BY <2>1, <2>2, <2>3, <2>5 DEF CacheTypes, ReaderRecords, K!Value, K!All, K!NoValue
  <2>7. K!RefreshMarked'
    BY <2>1, <2>3, <2>5 DEF K!RefreshMarked, K!All
  <2> QED BY <2>2, <2>6, <2>7
<1>9. ASSUME NEW t \in K!All, K!Load(t) \/ K!Fails(t)
      PROVE  CacheInv' /\ UNCHANGED <<said, changes>>
  <2>1. K!NoValue \in K!Value \cup {K!NoValue} /\ K!Idle = [pc |-> "idle", value |-> K!NoValue]
        /\ {"idle", "reading", "read", "peek", "stale", "verify"} \subseteq K!Pcs
        /\ {"idle", "reading", "read"} \subseteq WorkerPcs
    BY DEF K!Idle, K!Pcs, WorkerPcs
  <2>2. CASE K!Peeks(t)
    <3> DEFINE pc == IF entry = None THEN "reading" ELSE IF entry.fresh THEN "idle" ELSE "stale"
    <3>1. /\ reader' = [reader EXCEPT ![t] = [pc |-> pc, value |-> reader[t].value]]
          /\ reader[t].pc = "peek" /\ UNCHANGED <<config, said, entry, refreshing, changes>>
      BY <2>2 DEF K!Peeks, K!Goes
    <3>2. pc \in K!Pcs /\ pc # "read" /\ t \notin Workers
      BY <1>1, <2>1, <3>1 DEF WorkerPcs
    <3> HIDE DEF pc
    <3>3. CacheInv'
      BY <1>1, <3>1, <3>2, ReaderMoves
    <3> QED BY <3>1, <3>3
  <2>3. CASE K!StartsRefresh(t)
    <3>1. reader[t].pc = "stale" /\ UNCHANGED <<config, said, entry, changes>> /\ t \notin Workers
      BY <1>1, <2>3 DEF K!StartsRefresh, WorkerPcs
    <3>2. CASE reader' = K!Goes(t, "idle") /\ UNCHANGED refreshing
      <4>1. reader' = [reader EXCEPT ![t] = [pc |-> "idle", value |-> reader[t].value]]
        BY <3>2 DEF K!Goes
      <4>2. CacheInv'
        BY <1>1, <2>1, <3>1, <3>2, <4>1, ReaderMoves
      <4> QED BY <3>1, <4>2
    <3>3. CASE \E w \in Workers : /\ reader' = [K!Reading(w) EXCEPT ![t] = [pc |-> "idle", value |-> reader[t].value]]
                                  /\ refreshing' = TRUE
      <4>1. PICK w \in Workers : reader' = [K!Reading(w) EXCEPT ![t] = [pc |-> "idle", value |-> reader[t].value]]
        BY <3>3
      <4> DEFINE p == [pc |-> "reading", value |-> reader[w].value]
                 q == [pc |-> "idle", value |-> reader[t].value]
      <4>2. /\ p \in ReaderRecords /\ p.pc = "reading" /\ q \in ReaderRecords /\ q.pc = "idle"
            /\ w \in K!All /\ w # t
        BY <1>1, <2>1, <3>1 DEF ReaderRecords, K!All
      <4>3. reader' = [[reader EXCEPT ![w] = p] EXCEPT ![t] = q]
        BY <4>1 DEF K!Reading, K!Goes
      <4> HIDE DEF p, q
      <4>4. /\ reader' \in [K!All -> ReaderRecords] /\ reader'[t].pc = "idle" /\ reader'[w].pc = "reading"
            /\ \A u \in K!All : u # t /\ u # w => reader'[u] = reader[u]
        BY <4>2, <4>3 DEF CacheTypes
      <4>5. CacheTypes'
        BY <3>1, <3>3, <4>2, <4>4 DEF CacheTypes, K!All, WorkerPcs
      <4>6. K!RefreshMarked'
        BY <4>4 DEF K!RefreshMarked
      <4> QED BY <3>1, <4>5, <4>6
    <3> QED BY <2>3, <3>2, <3>3 DEF K!StartsRefresh
  <2>4. CASE K!Clears(t)
    <3>1. /\ reader' = [reader EXCEPT ![t] = [pc |-> "verify", value |-> reader[t].value]]
          /\ reader[t].pc = "written" /\ entry' = None /\ UNCHANGED <<config, said, refreshing, changes>>
      BY <2>4 DEF K!Clears, K!Goes
    <3>2. t \notin Workers
      BY <1>1, <3>1 DEF WorkerPcs
    <3>3. CacheInv'
      BY <1>1, <2>1, <3>1, <3>2, ReaderMoves
    <3> QED BY <3>1, <3>3
  <2>5. CASE K!Verifies(t)
    BY <2>5, <1>asks DEF K!Verifies
  <2>6. CASE K!Reads(t)
    <3>1. /\ reader' = [reader EXCEPT ![t] = [pc |-> "read", value |-> [router |-> config, said |-> said[config]]]]
          /\ UNCHANGED <<config, said, entry, refreshing, changes>>
      BY <2>6 DEF K!Reads
    <3>2. CacheInv'
      BY <1>1, <2>1, <3>1, ReaderMoves
    <3> QED BY <3>1, <3>2
  <2>7. CASE K!Puts(t)
    <3>1. entry' \in [value : K!Value, fresh : BOOLEAN]
      BY <1>1, <2>7 DEF K!Puts
    <3>2. /\ reader' = [reader EXCEPT ![t] = [pc |-> "idle", value |-> K!NoValue]]
          /\ refreshing' = (IF t \in Workers THEN FALSE ELSE refreshing)
          /\ UNCHANGED <<config, said, changes, switches, faults>>
      BY <2>1, <2>7 DEF K!Puts
    <3>3. CacheInv'
      BY <1>1, <2>1, <3>1, <3>2, ReaderMoves
    <3> QED BY <3>2, <3>3
  <2>8. CASE K!Fails(t)
    <3>2. /\ reader' = [reader EXCEPT ![t] = [pc |-> "idle", value |-> K!NoValue]]
          /\ refreshing' = (IF t \in Workers THEN FALSE ELSE refreshing)
          /\ UNCHANGED <<config, said, entry, changes, switches>>
      BY <2>1, <2>8 DEF K!Fails
    <3>3. CacheInv'
      BY <1>1, <2>1, <3>2, ReaderMoves
    <3> QED BY <3>2, <3>3
  <2> QED BY <1>9, <2>2, <2>3, <2>4, <2>5, <2>6, <2>7, <2>8 DEF K!Load
<1> QED BY <1>3, <1>4, <1>5, <1>6, <1>7, <1>8, <1>9 DEF K!Next

LEMMA SlowCacheInit == K!Init => CacheInv /\ (\A s \in Configs : said[s] <= changes) /\ changes \in 0 .. MaxChanges
<1> SUFFICES ASSUME K!Init
             PROVE  CacheInv /\ (\A s \in Configs : said[s] <= changes) /\ changes \in 0 .. MaxChanges
  OBVIOUS
<1>1. K!Idle \in ReaderRecords /\ K!Idle.pc = "idle"
  BY DEF K!Idle, ReaderRecords, K!Pcs
<1>2. /\ config \in Configs /\ said = [s \in Configs |-> 0] /\ entry = None /\ refreshing = FALSE
      /\ reader = [t \in K!All |-> K!Idle] /\ changes = 0
  BY DEF K!Init
<1>3. 0 \in 0 .. MaxChanges
  BY LimitsAssumption
<1>4. said \in [Configs -> 0 .. MaxChanges] /\ \A s \in Configs : said[s] <= changes
  BY <1>2, <1>3
<1>5. /\ reader \in [K!All -> ReaderRecords]
      /\ \A t \in K!All : reader[t].pc = "idle"
  BY <1>1, <1>2
<1> QED BY <1>2, <1>3, <1>4, <1>5 DEF CacheInv, CacheTypes, K!RefreshMarked, WorkerPcs, K!All

-----------------------------------------------------------------------------
(* RouterControl *)

CallStates == {"idle", "putting", "waiting", "value", "error"}
Priority == {10, 20, 30, 50}
CallRecords == [pc : CallStates, priority : Priority]
ControlTypes ==
    /\ queue \in Seq(C!Item)
    /\ actor.pc \in {"idle", "got", "running"}
    /\ actor.item \in C!Item \/ (actor.pc = "idle" /\ actor.item = None)
    /\ pending \in Nat
    /\ call \in [C!Threads -> CallRecords]

(* An item that is still waited for belongs to a thread that waits, and no  *)
(* two such items to the same one: whoever the actor wakes has waited.      *)
Awaited ==
    /\ \A i \in DOMAIN queue : queue[i].waited => call[queue[i].who].pc = "waiting"
    /\ \A i, j \in DOMAIN queue :
         queue[i].waited /\ queue[j].waited /\ i # j => queue[i].who # queue[j].who
    /\ actor.pc # "idle" /\ actor.item.waited =>
         /\ call[actor.item.who].pc = "waiting"
         /\ \A i \in DOMAIN queue : queue[i].waited => queue[i].who # actor.item.who

Putting == {t \in C!Threads : call[t].pc = "putting" /\ ~C!Background(call[t].priority)}
Queued == {i \in DOMAIN queue : ~C!Background(queue[i].priority)}
Taken == IF actor.pc = "got" /\ ~C!Background(actor.item.priority) THEN 1 ELSE 0
Counted == pending = Cardinality(Putting) + Cardinality(Queued) + Taken

ControlInv == ControlTypes /\ Awaited /\ Counted

LEMMA CountedMeans ==
    /\ Counted <=> C!PendingExact
    /\ Counted' <=> C!PendingExact'
<1>1. \A X : C!Cardinality(X) = Cardinality(X)
  BY DEF C!Cardinality, Cardinality, C!IsFiniteSet, IsFiniteSet
<1> QED BY <1>1 DEF Counted, C!PendingExact, Putting, Queued, Taken

LEMMA ItemFields ==
    ASSUME NEW r \in C!Item
    PROVE  r.who \in C!Threads /\ r.priority \in Priority /\ r.waited \in BOOLEAN
  BY DEF C!Item, Priority

LEMMA ItemRecord ==
    ASSUME NEW t \in C!Threads, NEW p \in Priority, NEW w \in BOOLEAN
    PROVE  /\ [who |-> t, priority |-> p, waited |-> w] \in C!Item
           /\ [who |-> t, priority |-> p, waited |-> w].who = t
           /\ [who |-> t, priority |-> p, waited |-> w].priority = p
           /\ [who |-> t, priority |-> p, waited |-> w].waited = w
  BY DEF C!Item, Priority

LEMMA CallFields ==
    ASSUME NEW r \in CallRecords
    PROVE  r.pc \in CallStates /\ r.priority \in Priority
  BY DEF CallRecords

LEMMA CountsFinite ==
    ASSUME ControlTypes
    PROVE  /\ IsFiniteSet(Putting) /\ Cardinality(Putting) \in Nat
           /\ IsFiniteSet(Queued) /\ Cardinality(Queued) \in Nat
           /\ Putting \subseteq C!Threads /\ Queued \subseteq 1 .. Len(queue)
<1>1. IsFiniteSet(C!Threads)
  BY ThreadsAssumption DEF C!IsFiniteSet, IsFiniteSet
<1>2. Putting \in SUBSET C!Threads /\ Queued \in SUBSET (1 .. Len(queue)) /\ Len(queue) \in Nat
  BY DEF Putting, Queued, ControlTypes
<1>3. IsFiniteSet(1 .. Len(queue))
  BY <1>2, FS_Interval
<1>4. IsFiniteSet(Putting) /\ IsFiniteSet(Queued)
  BY <1>1, <1>2, <1>3, FS_Subset
<1> QED BY <1>2, <1>4, FS_CardinalityType

(* A call moves: it joins or leaves those being put. *)
LEMMA CallMoves ==
    ASSUME ControlTypes, NEW t \in C!Threads, NEW pc \in CallStates, NEW p \in Priority,
           call' = [call EXCEPT ![t] = [pc |-> pc, priority |-> p]]
    PROVE  /\ call' \in [C!Threads -> CallRecords]
           /\ call'[t].pc = pc /\ \A u \in C!Threads : u # t => call'[u] = call[u]
           /\ Cardinality(Putting') =
                Cardinality(Putting) - (IF t \in Putting THEN 1 ELSE 0)
                + (IF pc = "putting" /\ ~C!Background(p) THEN 1 ELSE 0)
<1> DEFINE r == [pc |-> pc, priority |-> p]
           fg == pc = "putting" /\ ~C!Background(p)
<1>1. r \in CallRecords /\ r.pc = pc /\ r.priority = p
  BY DEF CallRecords
<1>2. call' = [call EXCEPT ![t] = r]
  OBVIOUS
<1> HIDE DEF r
<1>3. /\ call' \in [C!Threads -> CallRecords] /\ call'[t] = r
      /\ \A u \in C!Threads : u # t => call'[u] = call[u]
  BY <1>1, <1>2 DEF ControlTypes
<1>4. Putting' = {u \in C!Threads : call'[u].pc = "putting" /\ ~C!Background(call'[u].priority)}
  BY DEF Putting, C!Threads
<1>5. Putting' = (Putting \ {t}) \cup (IF fg THEN {t} ELSE {})
  BY <1>1, <1>3, <1>4 DEF Putting
<1>6. /\ IsFiniteSet(Putting \ {t})
      /\ Cardinality(Putting \ {t}) = Cardinality(Putting) - (IF t \in Putting THEN 1 ELSE 0)
  <2>1. IsFiniteSet(Putting) /\ Cardinality(Putting) \in Nat
    BY CountsFinite
  <2>2. /\ IsFiniteSet(Putting \ {t})
        /\ Cardinality(Putting \ {t}) =
             IF t \in Putting THEN Cardinality(Putting) - 1 ELSE Cardinality(Putting)
    BY <2>1, FS_RemoveElement
  <2> QED BY <2>1, <2>2
<1>7. CASE fg
  <2>1. Cardinality((Putting \ {t}) \cup {t}) = Cardinality(Putting \ {t}) + 1
    <3>1. t \notin Putting \ {t}
      OBVIOUS
    <3> QED BY <1>6, <3>1, FS_AddElement
  <2> QED BY <1>1, <1>3, <1>5, <1>6, <1>7, <2>1, CountsFinite
<1>8. CASE ~fg
  <2>1. Putting' = Putting \ {t}
    BY <1>5, <1>8
  <2> QED BY <1>1, <1>3, <1>6, <1>8, <2>1, CountsFinite
<1> QED BY <1>7, <1>8

(* Indices of an extended and of a shortened queue. *)
LEMMA QueueGrows ==
    ASSUME ControlTypes, NEW r \in C!Item, queue' = Append(queue, r)
    PROVE  /\ queue' \in Seq(C!Item) /\ DOMAIN queue' = DOMAIN queue \cup {Len(queue) + 1}
           /\ Len(queue) + 1 \notin DOMAIN queue /\ queue'[Len(queue) + 1] = r
           /\ \A i \in DOMAIN queue : queue'[i] = queue[i]
           /\ Cardinality(Queued') = Cardinality(Queued) + (IF C!Background(r.priority) THEN 0 ELSE 1)
<1>1. /\ queue' \in Seq(C!Item) /\ DOMAIN queue' = DOMAIN queue \cup {Len(queue) + 1}
      /\ Len(queue) + 1 \notin DOMAIN queue /\ queue'[Len(queue) + 1] = r
      /\ \A i \in DOMAIN queue : queue'[i] = queue[i]
  BY DEF ControlTypes
<1>2. Queued' = {i \in DOMAIN queue' : ~C!Background(queue'[i].priority)}
  BY DEF Queued
<1>3. Queued' = Queued \cup (IF C!Background(r.priority) THEN {} ELSE {Len(queue) + 1})
  BY <1>1, <1>2 DEF Queued
<1>4. CASE C!Background(r.priority)
  <2>1. Queued' = Queued
    BY <1>3, <1>4
  <2> QED BY <1>1, <1>4, <2>1, CountsFinite
<1>5. CASE ~C!Background(r.priority)
  <2>1. Queued' = Queued \cup {Len(queue) + 1} /\ Len(queue) + 1 \notin Queued
    BY <1>1, <1>3, <1>5 DEF Queued
  <2>2. Cardinality(Queued \cup {Len(queue) + 1}) = Cardinality(Queued) + 1
    BY <2>1, CountsFinite, FS_AddElement
  <2> QED BY <1>1, <1>5, <2>1, <2>2
<1> QED BY <1>4, <1>5

LEMMA Concatenated ==
    ASSUME NEW X, NEW s \in Seq(X), NEW u \in Seq(X)
    PROVE  s \o u \in Seq(X) /\ Len(s \o u) = Len(s) + Len(u)
  OBVIOUS

LEMMA SecondPart ==
    ASSUME NEW X, NEW s \in Seq(X), NEW u \in Seq(X), NEW j \in Nat,
           j > Len(s), j <= Len(s) + Len(u)
    PROVE  (s \o u)[j] = u[j - Len(s)]
  OBVIOUS

LEMMA QueueShrinks ==
    ASSUME ControlTypes, NEW i \in DOMAIN queue, queue' = C!Without(i)
    PROVE  /\ queue' \in Seq(C!Item)
           /\ \A j \in DOMAIN queue' :
                 /\ (IF j < i THEN j ELSE j + 1) \in DOMAIN queue \ {i}
                 /\ queue'[j] = queue[IF j < i THEN j ELSE j + 1]
           /\ Cardinality(Queued') =
                Cardinality(Queued) - (IF C!Background(queue[i].priority) THEN 0 ELSE 1)
<1>1. /\ queue \in Seq(C!Item) /\ Len(queue) \in Nat /\ DOMAIN queue = 1 .. Len(queue)
      /\ i \in 1 .. Len(queue)
  BY DEF ControlTypes
<1> DEFINE a == SubSeq(queue, 1, i - 1)
           b == SubSeq(queue, i + 1, Len(queue))
<1>2. /\ a \in Seq(C!Item) /\ Len(a) = i - 1 /\ \A j \in 1 .. (i - 1) : a[j] = queue[j]
  BY <1>1
<1>3. /\ b \in Seq(C!Item) /\ Len(b) = Len(queue) - i
      /\ \A j \in 1 .. (Len(queue) - i) : b[j] = queue[i + j]
  BY <1>1
<1>4. queue' = a \o b
  BY DEF C!Without
<1> HIDE DEF a, b
<1>5. /\ queue' \in Seq(C!Item) /\ DOMAIN queue' = 1 .. (Len(queue) - 1)
      /\ \A j \in 1 .. (Len(queue) - 1) : queue'[j] = queue[IF j < i THEN j ELSE j + 1]
  <2>1. queue' \in Seq(C!Item) /\ Len(queue') = Len(queue) - 1
    <3>1. queue' \in Seq(C!Item) /\ Len(queue') = Len(a) + Len(b)
      BY <1>2, <1>3, <1>4, Concatenated
    <3> QED BY <1>1, <1>2, <1>3, <3>1
  <2>2. ASSUME NEW j \in 1 .. (Len(queue) - 1)
        PROVE  queue'[j] = queue[IF j < i THEN j ELSE j + 1]
    <3>1. CASE j < i
      BY <1>1, <1>2, <1>3, <1>4, <3>1
    <3>2. CASE ~(j < i)
      <4>1. j - (i - 1) \in 1 .. (Len(queue) - i) /\ i + (j - (i - 1)) = j + 1
        BY <1>1, <3>2
      <4>2. queue'[j] = b[j - (i - 1)]
        <5>1. j > Len(a) /\ j <= Len(a) + Len(b) /\ j - Len(a) = j - (i - 1)
          BY <1>1, <1>2, <1>3, <3>2
        <5>2. a \in Seq(C!Item) /\ b \in Seq(C!Item) /\ j \in Nat
          BY <1>2, <1>3
        <5>3. (a \o b)[j] = b[j - Len(a)]
          BY <5>1, <5>2, SecondPart
        <5> QED BY <1>4, <5>1, <5>3
      <4> QED BY <1>3, <3>2, <4>1, <4>2
    <3> QED BY <3>1, <3>2
  <2> QED BY <2>1, <2>2
<1>6. \A j \in DOMAIN queue' : (IF j < i THEN j ELSE j + 1) \in DOMAIN queue \ {i}
  BY <1>1, <1>5
<1> DEFINE T == {j \in DOMAIN queue' : ~C!Background(queue'[j].priority)}
           U == Queued \ {i}
           f == [j \in T |-> IF j < i THEN j ELSE j + 1]
<1>7. Queued' = T
  BY DEF Queued
<1>8. f \in [T -> U]
  BY <1>1, <1>5, <1>6 DEF Queued
<1>9. \A j, k \in T : f[j] = f[k] => j = k
  BY <1>1, <1>5
<1>10. ASSUME NEW u \in U PROVE \E j \in T : f[j] = u
  <2>1. u \in 1 .. Len(queue) /\ u # i /\ ~C!Background(queue[u].priority)
    BY <1>1 DEF Queued
  <2>2. CASE u < i
    <3>1. u \in T
      BY <1>1, <1>5, <2>1, <2>2
    <3> QED BY <2>2, <3>1
  <2>3. CASE u > i
    <3>1. u - 1 \in 1 .. (Len(queue) - 1) /\ ~(u - 1 < i) /\ u - 1 + 1 = u
      BY <1>1, <2>1, <2>3
    <3>2. u - 1 \in T
      BY <1>5, <2>1, <3>1
    <3> QED BY <3>1, <3>2
  <2> QED BY <1>1, <2>1, <2>2, <2>3
<1>11. ExistsBijection(T, U)
  <2> HIDE DEF T, U, f
  <2>1. f \in Injection(T, U)
    BY <1>8, <1>9 DEF Injection, IsInjective
  <2>2. f \in Surjection(T, U)
    BY <1>8, <1>10 DEF Surjection
  <2> QED BY <2>1, <2>2 DEF ExistsBijection, Bijection
<1>12. IsFiniteSet(T)
  <2>1. T \in SUBSET (1 .. (Len(queue) - 1))
    BY <1>5
  <2>2. IsFiniteSet(1 .. (Len(queue) - 1))
    <3>1. Len(queue) - 1 \in Int /\ 1 \in Int
      BY <1>1
    <3> QED BY <3>1, FS_Interval
  <2> QED BY <2>1, <2>2, FS_Subset
<1> HIDE DEF T, U
<1>13. Cardinality(T) = Cardinality(U)
  BY <1>11, <1>12, FS_Bijection
<1>14. Cardinality(U) = Cardinality(Queued) - (IF C!Background(queue[i].priority) THEN 0 ELSE 1)
  <2>1. i \in Queued <=> ~C!Background(queue[i].priority)
    BY DEF Queued
  <2>2. IsFiniteSet(Queued) /\ Cardinality(Queued) \in Nat
    BY CountsFinite
  <2>3. Cardinality(Queued \ {i}) =
          IF i \in Queued THEN Cardinality(Queued) - 1 ELSE Cardinality(Queued)
    BY <2>2, FS_RemoveElement
  <2> QED BY <2>1, <2>2, <2>3 DEF U
<1> QED BY <1>5, <1>6, <1>7, <1>13, <1>14
-----------------------------------------------------------------------------
(* A call that nobody waits for moves, and the counter with it. *)
LEMMA CallOnly ==
    ASSUME ControlInv, NEW t \in C!Threads, NEW pc \in CallStates, NEW p \in Priority,
           call' = [call EXCEPT ![t] = [pc |-> pc, priority |-> p]],
           call[t].pc # "waiting", UNCHANGED <<queue, actor>>,
           pending' = pending
                      - (IF call[t].pc = "putting" /\ ~C!Background(call[t].priority) THEN 1 ELSE 0)
                      + (IF pc = "putting" /\ ~C!Background(p) THEN 1 ELSE 0)
    PROVE  ControlInv'
<1> USE DEF ControlInv
<1>1. /\ call' \in [C!Threads -> CallRecords]
      /\ call'[t].pc = pc /\ \A u \in C!Threads : u # t => call'[u] = call[u]
      /\ Cardinality(Putting') = Cardinality(Putting) - (IF t \in Putting THEN 1 ELSE 0)
                                 + (IF pc = "putting" /\ ~C!Background(p) THEN 1 ELSE 0)
  BY CallMoves
<1>2. t \in Putting <=> call[t].pc = "putting" /\ ~C!Background(call[t].priority)
  BY DEF Putting
<1>3. Queued' = Queued /\ Taken' = Taken /\ Taken \in {0, 1}
  BY DEF Queued, Taken
<1>4. Counted'
  <2>1. /\ IsFiniteSet(Putting) /\ Cardinality(Putting) \in Nat /\ Cardinality(Queued) \in Nat
    BY CountsFinite
  <2>2. pending' = Cardinality(Putting') + Cardinality(Queued) + Taken
    BY <1>1, <1>2, <1>3, <2>1 DEF Counted
  <2> QED BY <1>3, <2>2 DEF Counted
<1>5. ControlTypes'
  <2>1. pending' \in Nat
    <3>1. /\ IsFiniteSet(Putting) /\ Cardinality(Putting) \in Nat /\ Cardinality(Queued) \in Nat
      BY CountsFinite
    <3>2. t \in Putting => Cardinality(Putting) # 0
      BY <3>1, FS_EmptySet
    <3> QED BY <1>2, <1>3, <3>1, <3>2 DEF Counted
  <2> QED BY <1>1, <2>1 DEF ControlTypes
<1>6. Awaited'
  <2>1. \A i \in DOMAIN queue : queue[i] \in C!Item /\ queue[i].who \in C!Threads
    BY ItemFields DEF ControlTypes
  <2>2. actor.pc # "idle" => actor.item.who \in C!Threads
    BY ItemFields DEF ControlTypes
  <2> QED BY <1>1, <2>1, <2>2 DEF Awaited
<1> QED BY <1>4, <1>5, <1>6

LEMMA ThreadCalls ==
    ASSUME ControlInv, NEW t \in C!Threads
    PROVE  call[t].pc \in CallStates /\ call[t].priority \in Priority
  BY CallFields DEF ControlInv, ControlTypes

LEMMA EnterKeeps ==
    ASSUME ControlInv, NEW t \in C!Threads, NEW p \in Priority, C!Enter(t, p),
           UNCHANGED <<queue, actor>>
    PROVE  ControlInv'
<1>1. /\ call[t].pc = "idle"
      /\ call' = [call EXCEPT ![t] = [pc |-> "putting", priority |-> p]]
      /\ pending' = IF C!Background(p) THEN pending ELSE pending + 1
  BY DEF C!Enter
<1>2. pending \in Nat /\ "putting" \in CallStates
  BY DEF ControlInv, ControlTypes, CallStates
<1>3. pending' = pending - 0 + (IF "putting" = "putting" /\ ~C!Background(p) THEN 1 ELSE 0)
  BY <1>1, <1>2
<1> QED BY <1>1, <1>2, <1>3, CallOnly

LEMMA AnswerTaken ==
    ASSUME ControlInv, NEW t \in C!Threads, call[t].pc \in {"value", "error"},
           call' = C!Now(t, "idle"), UNCHANGED <<queue, actor, pending>>
    PROVE  ControlInv'
<1>1. call' = [call EXCEPT ![t] = [pc |-> "idle", priority |-> call[t].priority]]
  BY DEF C!Now
<1>2. pending \in Nat /\ "idle" \in CallStates
  BY DEF ControlInv, ControlTypes, CallStates
<1>3. pending' = pending - 0 + 0
  BY <1>2
<1> QED BY <1>1, <1>2, <1>3, ThreadCalls, CallOnly

LEMMA PutKeeps ==
    ASSUME ControlInv, NEW t \in C!Threads, C!Put(t)
    PROVE  ControlInv'
<1> USE DEF ControlInv
<1> DEFINE p == call[t].priority
           one == IF C!Background(p) THEN 0 ELSE 1
<1>1. call[t].pc = "putting" /\ UNCHANGED actor
  BY DEF C!Put
<1>2. p \in Priority /\ pending \in Nat
  BY ThreadCalls DEF ControlTypes
<1>3. CASE /\ queue' = Append(queue, [who |-> t, priority |-> p, waited |-> TRUE])
           /\ call' = C!Now(t, "waiting") /\ UNCHANGED pending
  <2> DEFINE r == [who |-> t, priority |-> p, waited |-> TRUE]
  <2>1. r \in C!Item /\ r.who = t /\ r.priority = p /\ r.waited = TRUE
    BY <1>2, ItemRecord
  <2>2. queue' = Append(queue, r)
    BY <1>3
  <2>3. call' = [call EXCEPT ![t] = [pc |-> "waiting", priority |-> p]] /\ "waiting" \in CallStates
    BY <1>3 DEF C!Now, CallStates
  <2> HIDE DEF r, p
  <2>4. /\ queue' \in Seq(C!Item) /\ DOMAIN queue' = DOMAIN queue \cup {Len(queue) + 1}
        /\ Len(queue) + 1 \notin DOMAIN queue /\ queue'[Len(queue) + 1] = r
        /\ \A i \in DOMAIN queue : queue'[i] = queue[i]
        /\ Cardinality(Queued') = Cardinality(Queued) + one
    BY <2>1, <2>2, QueueGrows
  <2>5. /\ call' \in [C!Threads -> CallRecords]
        /\ call'[t].pc = "waiting" /\ \A u \in C!Threads : u # t => call'[u] = call[u]
        /\ Cardinality(Putting') = Cardinality(Putting) - (IF t \in Putting THEN 1 ELSE 0) + 0
    BY <1>2, <2>3, CallMoves
  <2>6. t \in Putting <=> ~C!Background(p)
    BY <1>1 DEF Putting, p
  <2>7. ControlTypes'
    BY <1>1, <1>3, <2>4, <2>5 DEF ControlTypes
  <2>8. Counted'
    <3>1. Cardinality(Putting) \in Nat /\ Cardinality(Queued) \in Nat
      BY CountsFinite
    <3>2. Taken' = Taken /\ Taken \in {0, 1}
      BY <1>1 DEF Taken
    <3>3. pending = Cardinality(Putting') + Cardinality(Queued') + Taken
      BY <2>4, <2>5, <2>6, <3>1, <3>2 DEF Counted
    <3> QED BY <1>3, <3>2, <3>3 DEF Counted
  <2>9. Awaited'
    <3>1. \A i \in DOMAIN queue : queue[i].who \in C!Threads /\ (queue[i].waited => queue[i].who # t)
      BY <1>1, ItemFields DEF ControlTypes, Awaited
    <3>2. actor.pc # "idle" => actor.item.who \in C!Threads /\ (actor.item.waited => actor.item.who # t)
      BY <1>1, ItemFields DEF ControlTypes, Awaited
    <3> QED BY <1>1, <2>1, <2>4, <2>5, <3>1, <3>2 DEF Awaited
  <2> QED BY <2>7, <2>8, <2>9
<1>4. CASE /\ call' = C!Now(t, "error") /\ UNCHANGED queue
           /\ pending' = IF C!Background(p) THEN pending ELSE pending - 1
  <2>1. call' = [call EXCEPT ![t] = [pc |-> "error", priority |-> p]] /\ "error" \in CallStates
    BY <1>4 DEF C!Now, CallStates
  <2>2. pending' = pending - (IF call[t].pc = "putting" /\ ~C!Background(p) THEN 1 ELSE 0) + 0
    BY <1>1, <1>2, <1>4
  <2> QED BY <1>1, <1>2, <1>4, <2>1, <2>2, CallOnly
<1> QED BY <1>3, <1>4 DEF C!Put

(* An item its caller has left is the same item, waited for no more. *)
LEMMA Left ==
    ASSUME NEW t, NEW r \in C!Item
    PROVE  /\ C!LeftBy(t, r) \in C!Item /\ C!LeftBy(t, r).who = r.who
           /\ C!LeftBy(t, r).priority = r.priority
           /\ C!LeftBy(t, r).waited <=> r.waited /\ r.who # t
  BY DEF C!LeftBy, C!Item

LEMMA TimeoutKeeps ==
    ASSUME ControlInv, NEW t \in C!Threads, C!Timeout(t)
    PROVE  ControlInv'
<1> USE DEF ControlInv
<1>1. /\ call[t].pc = "waiting" /\ UNCHANGED pending
      /\ queue' = [i \in DOMAIN queue |-> C!LeftBy(t, queue[i])]
      /\ actor' = IF actor.item = None THEN actor
                  ELSE [pc |-> actor.pc, item |-> C!LeftBy(t, actor.item)]
  BY DEF C!Timeout
<1>2. /\ call' = [call EXCEPT ![t] = [pc |-> "error", priority |-> call[t].priority]]
      /\ "error" \in CallStates
  BY DEF C!Timeout, C!Now, CallStates
<1>3. /\ call' \in [C!Threads -> CallRecords]
      /\ call'[t].pc = "error" /\ \A u \in C!Threads : u # t => call'[u] = call[u]
      /\ Cardinality(Putting') = Cardinality(Putting) - (IF t \in Putting THEN 1 ELSE 0) + 0
  BY <1>2, ThreadCalls, CallMoves
<1>4. \A i \in DOMAIN queue : queue[i] \in C!Item /\ queue[i].who \in C!Threads
  BY ItemFields DEF ControlTypes
<1>5. /\ DOMAIN queue' = DOMAIN queue
      /\ \A i \in DOMAIN queue : /\ queue'[i] \in C!Item /\ queue'[i].who = queue[i].who
                                 /\ queue'[i].priority = queue[i].priority
                                 /\ queue'[i].waited <=> queue[i].waited /\ queue[i].who # t
  BY <1>1, <1>4, Left
<1>6. queue' \in Seq(C!Item)
  <2>1. DOMAIN queue = 1 .. Len(queue) /\ Len(queue) \in Nat
    BY DEF ControlTypes
  <2>2. queue' \in [1 .. Len(queue) -> C!Item]
    BY <1>1, <1>4, <2>1, Left
  <2> QED BY <2>1, <2>2
<1>7. actor.item # None => /\ actor.item \in C!Item /\ actor.item.who \in C!Threads
  BY ItemFields DEF ControlTypes
<1>8. CASE actor.item = None
  <2>1. actor' = actor /\ actor.pc = "idle"
    BY <1>1, <1>8, ThreadsAssumption DEF ControlTypes
  <2>2. Queued' = Queued
    BY <1>5 DEF Queued
  <2>3. Counted'
    <3>1. Cardinality(Putting') = Cardinality(Putting)
      BY <1>1, <1>3, CountsFinite DEF Putting
    <3> QED BY <1>1, <2>1, <2>2, <3>1 DEF Counted, Taken
  <2>4. ControlTypes'
    BY <1>1, <1>3, <1>6, <2>1 DEF ControlTypes
  <2>5. Awaited'
    BY <1>3, <1>4, <1>5, <2>1 DEF Awaited
  <2> QED BY <2>3, <2>4, <2>5
<1>9. CASE actor.item # None
  <2>1. /\ actor'.pc = actor.pc /\ actor'.item \in C!Item /\ actor'.item.who = actor.item.who
        /\ actor'.item.priority = actor.item.priority
        /\ actor'.item.waited <=> actor.item.waited /\ actor.item.who # t
    BY <1>1, <1>7, <1>9, Left
  <2>2. Queued' = Queued
    BY <1>5 DEF Queued
  <2>3. Counted'
    <3>1. Cardinality(Putting') = Cardinality(Putting)
      BY <1>1, <1>3, CountsFinite DEF Putting
    <3>2. Taken' = Taken
      BY <2>1 DEF Taken
    <3> QED BY <1>1, <2>2, <3>1, <3>2 DEF Counted
  <2>4. ControlTypes'
    BY <1>1, <1>3, <1>6, <2>1 DEF ControlTypes
  <2>5. Awaited'
    BY <1>3, <1>4, <1>5, <1>7, <1>9, <2>1 DEF Awaited
  <2> QED BY <2>3, <2>4, <2>5
<1> QED BY <1>8, <1>9

LEMMA ActorKeeps ==
    ASSUME ControlInv, C!Actor
    PROVE  ControlInv'
<1> USE DEF ControlInv
<1>1. \A i \in DOMAIN queue : queue[i] \in C!Item /\ queue[i].who \in C!Threads
  BY ItemFields DEF ControlTypes
<1>2. Cardinality(Putting) \in Nat /\ Cardinality(Queued) \in Nat
  BY CountsFinite
<1>3. CASE C!Get
  <2>1. PICK i \in DOMAIN queue :
          actor' = [pc |-> "got", item |-> queue[i]] /\ queue' = C!Without(i)
    BY <1>3 DEF C!Get
  <2>2. actor.pc = "idle" /\ UNCHANGED <<pending, call>>
    BY <1>3 DEF C!Get
  <2>3. /\ queue' \in Seq(C!Item)
        /\ \A j \in DOMAIN queue' : /\ (IF j < i THEN j ELSE j + 1) \in DOMAIN queue \ {i}
                                    /\ queue'[j] = queue[IF j < i THEN j ELSE j + 1]
        /\ Cardinality(Queued') =
             Cardinality(Queued) - (IF C!Background(queue[i].priority) THEN 0 ELSE 1)
    BY <2>1, QueueShrinks
  <2>4. ControlTypes'
    BY <1>1, <2>1, <2>2, <2>3 DEF ControlTypes
  <2>5. Counted'
    <3>1. Putting' = Putting
      BY <2>2 DEF Putting, C!Threads
    <3>2. Taken = 0 /\ Taken' = IF C!Background(queue[i].priority) THEN 0 ELSE 1
      BY <2>1, <2>2 DEF Taken
    <3>3. pending = Cardinality(Putting) + Cardinality(Queued') + Taken'
      BY <1>2, <2>3, <3>2 DEF Counted
    <3> QED BY <2>2, <3>1, <3>3 DEF Counted
  <2>6. Awaited'
    <3> DEFINE at(j) == IF j < i THEN j ELSE j + 1
    <3>1. \A j, k \in DOMAIN queue' : j # k => at(j) # at(k)
      <4>1. i \in Nat /\ DOMAIN queue' \subseteq Nat
        BY <2>3 DEF ControlTypes
      <4> QED BY <4>1
    <3>2. \A j \in DOMAIN queue' : at(j) \in DOMAIN queue /\ at(j) # i /\ queue'[j] = queue[at(j)]
      BY <2>3
    <3> HIDE DEF at
    <3>3. \A j \in DOMAIN queue' : queue'[j].waited => call[queue'[j].who].pc = "waiting"
      BY <3>2 DEF Awaited
    <3>4. \A j, k \in DOMAIN queue' :
            queue'[j].waited /\ queue'[k].waited /\ j # k => queue'[j].who # queue'[k].who
      BY <3>1, <3>2 DEF Awaited
    <3>5. queue[i].waited => /\ call[queue[i].who].pc = "waiting"
                             /\ \A j \in DOMAIN queue' : queue'[j].waited => queue'[j].who # queue[i].who
      BY <3>2 DEF Awaited
    <3> QED BY <2>1, <2>2, <3>3, <3>4, <3>5 DEF Awaited
  <2> QED BY <2>4, <2>5, <2>6
<1>4. CASE C!Begin
  <2>1. /\ actor.pc = "got" /\ actor' = [pc |-> "running", item |-> actor.item]
        /\ pending' = IF C!Background(actor.item.priority) THEN pending
                      ELSE IF pending > 0 THEN pending - 1 ELSE 0
        /\ UNCHANGED <<queue, call>>
    BY <1>4 DEF C!Begin
  <2>2. Putting' = Putting /\ Queued' = Queued
    BY <2>1 DEF Putting, Queued, C!Threads
  <2>3. Taken' = 0 /\ Taken = IF C!Background(actor.item.priority) THEN 0 ELSE 1
    BY <2>1 DEF Taken
  <2>4. pending' \in Nat /\ pending' = Cardinality(Putting) + Cardinality(Queued) + 0
    BY <1>2, <2>1, <2>3 DEF Counted
  <2>5. ControlTypes'
    BY <2>1, <2>4 DEF ControlTypes
  <2>6. Counted'
    BY <2>2, <2>3, <2>4 DEF Counted
  <2>7. Awaited'
    BY <2>1 DEF Awaited
  <2> QED BY <2>5, <2>6, <2>7
<1>5. CASE C!Run
  <2>1. PICK failed \in BOOLEAN :
          call' = IF actor.item.waited
                  THEN C!Now(actor.item.who, IF failed THEN "error" ELSE "value") ELSE call
    BY <1>5 DEF C!Run
  <2>2. /\ actor.pc = "running" /\ actor' = [pc |-> "idle", item |-> None]
        /\ UNCHANGED <<queue, pending>>
    BY <1>5 DEF C!Run, C!IdleWorker
  <2>3. Queued' = Queued /\ Taken = 0 /\ Taken' = 0
    BY <2>2 DEF Queued, Taken
  <2>4. CASE ~actor.item.waited
    <3>1. call' = call /\ Putting' = Putting
      BY <2>1, <2>4 DEF Putting, C!Threads
    <3>2. ControlTypes'
      BY <2>2, <3>1 DEF ControlTypes
    <3>3. Counted'
      BY <2>2, <2>3, <3>1 DEF Counted
    <3>4. Awaited'
      BY <2>2, <3>1 DEF Awaited
    <3> QED BY <3>2, <3>3, <3>4
  <2>5. CASE actor.item.waited
    <3> DEFINE t == actor.item.who
               pc == IF failed THEN "error" ELSE "value"
    <3>1. t \in C!Threads /\ call[t].pc = "waiting"
      BY <2>2, <2>5, ItemFields DEF ControlTypes, Awaited
    <3>2. call' = [call EXCEPT ![t] = [pc |-> pc, priority |-> call[t].priority]]
      BY <2>1, <2>5 DEF C!Now
    <3>3. pc \in CallStates /\ pc # "putting"
      BY DEF CallStates
    <3>4. \A i \in DOMAIN queue : queue[i].waited => queue[i].who # t
      BY <2>2, <2>5 DEF Awaited
    <3> HIDE DEF t, pc
    <3>5. /\ call' \in [C!Threads -> CallRecords]
          /\ \A u \in C!Threads : u # t => call'[u] = call[u]
          /\ Cardinality(Putting') = Cardinality(Putting) - (IF t \in Putting THEN 1 ELSE 0)
                                     + (IF pc = "putting" /\ ~C!Background(call[t].priority) THEN 1 ELSE 0)
      BY <3>1, <3>2, <3>3, ThreadCalls, CallMoves
    <3>6. Cardinality(Putting') = Cardinality(Putting)
      <4>1. t \notin Putting
        BY <3>1 DEF Putting
      <4> QED BY <1>2, <3>3, <3>5, <4>1
    <3>7. ControlTypes'
      BY <2>2, <3>5 DEF ControlTypes
    <3>8. Counted'
      BY <2>2, <2>3, <3>6 DEF Counted
    <3>9. Awaited'
      BY <1>1, <2>2, <3>4, <3>5 DEF Awaited
    <3> QED BY <3>7, <3>8, <3>9
  <2> QED BY <2>4, <2>5
<1> QED BY <1>3, <1>4, <1>5 DEF C!Actor

(* A Hub that starts has nothing queued and nobody counted. *)
LEMMA ControlEmpty ==
    /\ queue = <<>> /\ actor = C!IdleWorker /\ pending = 0
       /\ call = [t \in C!Threads |-> [pc |-> "idle", priority |-> 50]] => ControlInv
    /\ (queue = <<>> /\ actor = C!IdleWorker /\ pending = 0
       /\ call = [t \in C!Threads |-> [pc |-> "idle", priority |-> 50]] => ControlInv)'
<1>1. ASSUME queue = <<>>, actor = C!IdleWorker, pending = 0,
             call = [t \in C!Threads |-> [pc |-> "idle", priority |-> 50]]
      PROVE  ControlInv
  <2>1. actor.pc = "idle" /\ actor.item = None
    BY <1>1 DEF C!IdleWorker
  <2>2. ControlTypes
    BY <1>1, <2>1 DEF ControlTypes, CallRecords, CallStates, Priority
  <2>3. Putting = {} /\ Queued = {} /\ Taken = 0
    BY <1>1, <2>1 DEF Putting, Queued, Taken
  <2>4. Counted
    BY <1>1, <2>3, FS_EmptySet DEF Counted
  <2>5. Awaited
    BY <1>1, <2>1 DEF Awaited
  <2> QED BY <2>2, <2>4, <2>5 DEF ControlInv
<1> QED BY <1>1, PTL

LEMMA ControlStep ==
    ASSUME ControlInv, C!Next
    PROVE  ControlInv'
<1>1. CASE C!Actor
  BY <1>1, ActorKeeps
<1>2. CASE C!HubRestart
  <2>1. /\ queue' = <<>> /\ actor' = C!IdleWorker /\ pending' = 0
        /\ call' = [t \in C!Threads |-> [pc |-> "idle", priority |-> 50]]
    BY <1>2 DEF C!HubRestart
  <2> QED BY <2>1, ControlEmpty
<1>3. ASSUME NEW t \in C!Threads, C!Call(t) \/ C!Put(t) \/ C!Timeout(t) \/ C!Returned(t)
      PROVE  ControlInv'
  <2>1. CASE C!Call(t)
    <3>1. PICK p \in C!Priorities(t) : C!Enter(t, p)
      BY <2>1 DEF C!Call
    <3>2. p \in Priority
      BY DEF C!Priorities, Priority
    <3> QED BY <2>1, <3>1, <3>2, EnterKeeps DEF C!Call
  <2>2. CASE C!Returned(t)
    BY <2>2, AnswerTaken DEF C!Returned
  <2> QED BY <1>3, <2>1, <2>2, PutKeeps, TimeoutKeeps
<1>4. ASSUME NEW k \in Kinds, C!Start(k) \/ C!TaskStep(k)
      PROVE  ControlInv'
  <2>1. k \in C!Threads /\ 20 \in Priority
    BY DEF C!Threads, Priority
  <2>2. CASE C!SendsCommand(k) \/ C!Observes(k)
    <3>1. C!Enter(k, 20) /\ UNCHANGED <<queue, actor>>
      BY <2>2 DEF C!SendsCommand, C!Observes
    <3> QED BY <2>1, <3>1, EnterKeeps
  <2>3. CASE C!CommandAnswered(k) \/ C!Observed(k)
    <3>1. /\ call[k].pc \in {"value", "error"} /\ call' = C!Now(k, "idle")
          /\ UNCHANGED <<queue, actor, pending>>
      BY <2>3 DEF C!CommandAnswered, C!Observed
    <3> QED BY <2>1, <3>1, AnswerTaken
  <2>4. CASE C!Start(k) \/ C!Deadline(k)
    <3>1. UNCHANGED <<queue, actor, pending, call>>
      BY <2>4 DEF C!Start, C!Deadline, C!actorVars
    <3> QED BY <3>1 DEF ControlInv, ControlTypes, Awaited, Counted, Putting, Queued, Taken
  <2> QED BY <1>4, <2>2, <2>3, <2>4 DEF C!TaskStep
<1> QED BY <1>1, <1>2, <1>3, <1>4 DEF C!Next

LEMMA ControlInit == C!Init => ControlInv
  BY ControlEmpty DEF C!Init

-----------------------------------------------------------------------------
(* The components together *)

NotesInv ==
    /\ ControlInv /\ NatInv
    /\ focus # "cache" => ~refreshing
    /\ focus = "cache" =>
         CacheInv /\ (\A s \in Configs : said[s] <= changes) /\ changes \in 0 .. MaxChanges

LEMMA NotesStep ==
    ASSUME NotesInv, [RouterNext]_routerVars
    PROVE  NotesInv'
<1>1. focus' = focus
  BY DEF RouterNext, routerVars, notControl, notSession, notNat, notCache, notSignal, notPair, notCommand
<1>2. ASSUME UNCHANGED controlVars PROVE ControlInv'
  BY <1>2 DEF NotesInv, controlVars, ControlInv, ControlTypes, Awaited, Counted, Putting, Queued, Taken
<1>3. ASSUME UNCHANGED natVars PROVE NatInv'
  BY <1>3 DEF NotesInv, natVars, NatInv, NatTypes, N!ResultOfLatest, N!Generations
<1>4. CASE focus = "control" /\ C!Next /\ UNCHANGED notControl
  <2>1. UNCHANGED natVars /\ UNCHANGED refreshing
    BY <1>4 DEF notControl, cacheVars
  <2> QED BY <1>1, <1>3, <1>4, <2>1, ControlStep DEF NotesInv
<1>5. CASE focus = "nat" /\ N!Next /\ UNCHANGED notNat
  <2>1. UNCHANGED controlVars /\ UNCHANGED refreshing
    BY <1>5 DEF notNat, cacheVars
  <2> QED BY <1>1, <1>2, <1>5, <2>1, NatStep DEF NotesInv
<1>6. CASE focus = "cache" /\ K!Next /\ UNCHANGED notCache
  <2>1. UNCHANGED controlVars /\ UNCHANGED natVars
    BY <1>6 DEF notCache
  <2> QED BY <1>1, <1>2, <1>3, <1>6, <2>1, SlowCacheStep DEF NotesInv
<1>7. CASE focus \notin {"control", "nat", "cache"} /\ UNCHANGED <<controlVars, natVars, cacheVars>>
  <2>1. UNCHANGED controlVars /\ UNCHANGED natVars /\ UNCHANGED refreshing
    BY <1>7 DEF cacheVars
  <2> QED BY <1>1, <1>2, <1>3, <1>7, <2>1 DEF NotesInv
<1>8. CASE UNCHANGED routerVars
  <2>1. UNCHANGED controlVars /\ UNCHANGED natVars /\ UNCHANGED cacheVars /\ UNCHANGED changes
    BY <1>8 DEF routerVars
  <2>2. CacheInv => CacheInv'
    BY <2>1 DEF cacheVars, CacheInv, CacheTypes, ReaderRecords, K!RefreshMarked, K!Value, K!All, K!NoValue
  <2> QED BY <1>1, <1>2, <1>3, <2>1, <2>2 DEF NotesInv, cacheVars
<1> QED BY <1>4, <1>5, <1>6, <1>7, <1>8
     DEF RouterNext, notSession, notSignal, notPair, notCommand

(* What the Hub notes about work under way is exact, for any queue size, any *)
(* number of threads, tasks, requests, readers and workers: the counter that *)
(* turns background loaders away counts the calls of users and tasks that    *)
(* are being put, queued or just taken, through full queues, timed-out waits *)
(* and restarts; the NAT result shown is that of the latest request, and     *)
(* somebody still works on one that is running; the mark of a refresh stands *)
(* for a worker that runs.                                                   *)
THEOREM NotesStayExact == RouterSpec => []NotesExact
<1>1. RouterInit => NotesInv
  BY ControlInit, NatInit, SlowCacheInit DEF RouterInit, NotesInv, K!Init
<1>2. NotesInv /\ [RouterNext]_routerVars => NotesInv'
  BY NotesStep
<1>3. NotesInv => NotesExact
  BY CountedMeans DEF NotesInv, NotesExact, ControlInv, NatInv, CacheInv, K!RefreshMarked
<1> QED BY <1>1, <1>2, <1>3, PTL DEF RouterSpec

-----------------------------------------------------------------------------
(* The types of what runs *)

(* What C!TypeOK says beyond ControlTypes: the queue keeps its bound, and   *)
(* the tasks and their threads their types.                                 *)
TaskStates == C!Terminal \cup C!Active \cup {"idle"}
TaskThreads == [pc : {"none", "start", "command", "observe", "observing"}, left : 0 .. TaskPolls]
Actors == [pc : {"idle", "got", "running"}, item : C!Item \cup {None}]
QueueBound == Len(queue) <= QueueSize /\ actor \in Actors
TaskTypes == task \in [Kinds -> TaskStates] /\ thread \in [Kinds -> TaskThreads]

LEMMA QueueBoundStep ==
    ASSUME ControlInv, QueueBound, C!Next
    PROVE  QueueBound'
<1>1. /\ queue \in Seq(C!Item) /\ Len(queue) \in Nat /\ Len(queue) <= QueueSize
      /\ QueueSize \in Nat /\ actor \in Actors
  BY LimitsAssumption DEF ControlInv, ControlTypes, QueueBound
<1>2. actor.pc \in {"idle", "got", "running"} /\ actor.item \in C!Item \cup {None}
  BY <1>1 DEF Actors
<1>3. ASSUME UNCHANGED <<queue, actor>> PROVE QueueBound'
  BY <1>1, <1>3 DEF QueueBound
<1>4. CASE C!Get
  <2>1. PICK i \in DOMAIN queue :
          actor' = [pc |-> "got", item |-> queue[i]] /\ queue' = C!Without(i)
    BY <1>4 DEF C!Get
  <2>2. /\ queue[i] \in C!Item /\ i \in 1 .. Len(queue)
    BY <1>1
  <2>3. actor' \in Actors
    BY <2>1, <2>2 DEF Actors
  <2> DEFINE a == SubSeq(queue, 1, i - 1)
             b == SubSeq(queue, i + 1, Len(queue))
  <2>4. a \in Seq(C!Item) /\ Len(a) = i - 1 /\ b \in Seq(C!Item) /\ Len(b) = Len(queue) - i
    BY <1>1, <2>2
  <2>5. queue' = a \o b
    BY <2>1 DEF C!Without
  <2> HIDE DEF a, b
  <2>6. Len(queue') = (i - 1) + (Len(queue) - i)
    BY <2>4, <2>5, Concatenated
  <2> QED BY <1>1, <2>2, <2>3, <2>6 DEF QueueBound
<1>5. CASE C!Begin
  <2>1. actor' = [pc |-> "running", item |-> actor.item] /\ queue' = queue
    BY <1>5 DEF C!Begin
  <2>2. actor' \in Actors
    BY <1>2, <2>1 DEF Actors
  <2> QED BY <1>1, <2>1, <2>2 DEF QueueBound
<1>6. CASE C!Run
  <2>1. actor' = [pc |-> "idle", item |-> None] /\ queue' = queue
    BY <1>6 DEF C!Run, C!IdleWorker
  <2>2. actor' \in Actors
    BY <2>1 DEF Actors
  <2> QED BY <1>1, <2>1, <2>2 DEF QueueBound
<1>7. CASE C!HubRestart
  <2>1. actor' = [pc |-> "idle", item |-> None] /\ queue' = <<>>
    BY <1>7 DEF C!HubRestart, C!IdleWorker
  <2>2. actor' \in Actors
    BY <2>1 DEF Actors
  <2> QED BY <1>1, <2>1, <2>2 DEF QueueBound
<1>8. ASSUME NEW t \in C!Threads, C!Call(t) \/ C!Put(t) \/ C!Timeout(t) \/ C!Returned(t)
      PROVE  QueueBound'
  <2>1. CASE C!Put(t)
    <3>1. CASE queue' = queue
      BY <1>3, <2>1, <3>1 DEF C!Put
    <3>2. CASE Len(queue) < QueueSize
               /\ queue' = Append(queue, [who |-> t, priority |-> call[t].priority, waited |-> TRUE])
      <4>1. Len(queue') = Len(queue) + 1
        BY <1>1, <3>2
      <4>2. actor' = actor
        BY <2>1 DEF C!Put
      <4> QED BY <1>1, <3>2, <4>1, <4>2 DEF QueueBound
    <3> QED BY <2>1, <3>1, <3>2 DEF C!Put
  <2>2. CASE C!Timeout(t)
    <3>1. /\ queue' = [i \in DOMAIN queue |-> C!LeftBy(t, queue[i])]
          /\ actor' = IF actor.item = None THEN actor
                      ELSE [pc |-> actor.pc, item |-> C!LeftBy(t, actor.item)]
      BY <2>2 DEF C!Timeout
    <3>2. DOMAIN queue = 1 .. Len(queue) /\ \A i \in 1 .. Len(queue) : queue[i] \in C!Item
      BY <1>1
    <3>3. queue' \in [1 .. Len(queue) -> C!Item]
      BY <3>1, <3>2, Left
    <3>4. Len(queue') = Len(queue)
      BY <1>1, <3>3
    <3>5. actor' \in Actors
      <4>1. CASE actor.item = None
        BY <1>1, <3>1, <4>1
      <4>2. CASE actor.item # None
        <5>1. C!LeftBy(t, actor.item) \in C!Item
          BY <1>2, <4>2, Left
        <5> QED BY <1>2, <3>1, <4>2, <5>1 DEF Actors
      <4> QED BY <4>1, <4>2
    <3> QED BY <1>1, <3>4, <3>5 DEF QueueBound
  <2> QED BY <1>3, <1>8, <2>1, <2>2 DEF C!Call, C!Returned
<1>9. ASSUME NEW k \in Kinds, C!Start(k) \/ C!TaskStep(k)
      PROVE  QueueBound'
  <2>1. UNCHANGED <<queue, actor>>
    BY <1>9 DEF C!Start, C!TaskStep, C!SendsCommand, C!CommandAnswered, C!Observes, C!Observed,
         C!Deadline, C!actorVars
  <2> QED BY <1>3, <2>1
<1> QED BY <1>4, <1>5, <1>6, <1>7, <1>8, <1>9 DEF C!Next, C!Actor

LEMMA TaskThreadRecord ==
    ASSUME NEW pc \in {"none", "start", "command", "observe", "observing"}, NEW n \in 0 .. TaskPolls
    PROVE  [pc |-> pc, left |-> n] \in TaskThreads
  BY DEF TaskThreads

(* A task thread goes on, with one observation less or as many as before. *)
LEMMA ThreadMoves ==
    ASSUME TaskTypes, NEW k \in Kinds,
           NEW pc \in {"none", "start", "command", "observe", "observing"}
    PROVE  /\ [thread EXCEPT ![k].pc = pc] \in [Kinds -> TaskThreads]
           /\ thread[k].left \in 0 .. TaskPolls
<1>1. thread \in [Kinds -> TaskThreads] /\ thread[k] \in TaskThreads
  BY DEF TaskTypes
<1>2. thread[k].left \in 0 .. TaskPolls /\ [thread[k] EXCEPT !.pc = pc] \in TaskThreads
  BY <1>1 DEF TaskThreads
<1> DEFINE r == [thread[k] EXCEPT !.pc = pc]
<1>3. [thread EXCEPT ![k].pc = pc] = [thread EXCEPT ![k] = r]
  BY <1>1
<1> HIDE DEF r
<1>4. [thread EXCEPT ![k] = r] \in [Kinds -> TaskThreads]
  BY <1>1, <1>2 DEF r
<1> QED BY <1>2, <1>3, <1>4

LEMMA TaskTypesStep ==
    ASSUME TaskTypes, C!Next
    PROVE  TaskTypes'
<1>1. task \in [Kinds -> TaskStates] /\ thread \in [Kinds -> TaskThreads] /\ TaskPolls \in Nat
  BY LimitsAssumption DEF TaskTypes
<1>2. C!NoThread \in TaskThreads
  BY <1>1, TaskThreadRecord DEF C!NoThread
<1>3. ASSUME UNCHANGED <<task, thread>> PROVE TaskTypes'
  BY <1>1, <1>3 DEF TaskTypes
<1>4. ASSUME NEW k \in Kinds, NEW x \in TaskStates, C!Ended(k, x) PROVE TaskTypes'
  BY <1>1, <1>2, <1>4 DEF C!Ended, TaskTypes
<1>5. "queued" \in TaskStates /\ "running" \in TaskStates /\ "failed" \in TaskStates
      /\ C!Terminal \subseteq TaskStates /\ "timed_out" \in TaskStates /\ "succeeded" \in TaskStates
  BY DEF TaskStates, C!Terminal, C!Active
<1>6. CASE C!Actor
  BY <1>3, <1>6 DEF C!Actor, C!Get, C!Begin, C!Run
<1>7. CASE C!HubRestart
  <2>1. task' = [k \in Kinds |-> C!Restored(task[k])] /\ thread' = [k \in Kinds |-> C!NoThread]
    BY <1>7 DEF C!HubRestart
  <2>2. \A k \in Kinds : C!Restored(task[k]) \in TaskStates
    BY <1>1, <1>5 DEF C!Restored
  <2> QED BY <1>2, <2>1, <2>2 DEF TaskTypes
<1>8. ASSUME NEW t \in C!Threads, C!Call(t) \/ C!Put(t) \/ C!Timeout(t) \/ C!Returned(t)
      PROVE  TaskTypes'
  BY <1>3, <1>8 DEF C!Call, C!Put, C!Timeout, C!Returned
<1>9. ASSUME NEW k \in Kinds, C!Start(k) \/ C!TaskStep(k)
      PROVE  TaskTypes'
  <2>1. CASE C!Start(k)
    <3> DEFINE r == [pc |-> "start", left |-> TaskPolls]
    <3>1. r \in TaskThreads
      BY <1>1, TaskThreadRecord
    <3>2. task' = [task EXCEPT ![k] = "queued"] /\ thread' = [thread EXCEPT ![k] = r]
      BY <2>1 DEF C!Start
    <3> HIDE DEF r
    <3> QED BY <1>1, <1>5, <3>1, <3>2 DEF TaskTypes
  <2>2. CASE C!SendsCommand(k)
    <3>1. task' = [task EXCEPT ![k] = "running"] /\ thread' = [thread EXCEPT ![k].pc = "command"]
      BY <2>2, Zenon DEF C!SendsCommand
    <3>2. task' \in [Kinds -> TaskStates]
      BY <1>1, <1>5, <3>1
    <3>3. thread' \in [Kinds -> TaskThreads]
      BY <3>1, ThreadMoves
    <3> QED BY <3>2, <3>3 DEF TaskTypes
  <2>o. ASSUME thread' = [thread EXCEPT ![k].pc = "observe"], UNCHANGED task PROVE TaskTypes'
    <3>1. thread' \in [Kinds -> TaskThreads]
      BY <2>o, ThreadMoves
    <3> QED BY <1>1, <2>o, <3>1 DEF TaskTypes
  <2>3. CASE C!CommandAnswered(k)
    <3>1. \/ C!Ended(k, "failed") \/ \E x \in C!Terminal : C!Ended(k, x)
          \/ thread' = [thread EXCEPT ![k].pc = "observe"] /\ UNCHANGED task
      BY <2>3, Zenon DEF C!CommandAnswered
    <3> QED BY <1>4, <1>5, <2>o, <3>1
  <2>4. CASE C!Observes(k)
    <3> DEFINE n == thread[k].left
    <3>1. n > 0 /\ task' = task /\ thread' = [thread EXCEPT ![k] = [pc |-> "observing", left |-> n - 1]]
      BY <2>4 DEF C!Observes
    <3>2. n \in 0 .. TaskPolls
      BY ThreadMoves
    <3> HIDE DEF n
    <3>3. n - 1 \in 0 .. TaskPolls
      BY <1>1, <3>1, <3>2
    <3>4. [pc |-> "observing", left |-> n - 1] \in TaskThreads
      BY <3>3, TaskThreadRecord
    <3>5. thread' \in [Kinds -> TaskThreads]
      BY <1>1, <3>1, <3>4
    <3> QED BY <1>1, <3>1, <3>5 DEF TaskTypes
  <2>5. CASE C!Observed(k)
    <3>1. \/ \E x \in {"succeeded", "failed"} : C!Ended(k, x)
          \/ thread' = [thread EXCEPT ![k].pc = "observe"] /\ UNCHANGED task
      BY <2>5, Zenon DEF C!Observed
    <3> QED BY <1>4, <1>5, <2>o, <3>1
  <2>6. CASE C!Deadline(k)
    BY <1>4, <1>5, <2>6 DEF C!Deadline
  <2> QED BY <1>9, <2>1, <2>2, <2>3, <2>4, <2>5, <2>6 DEF C!TaskStep
<1> QED BY <1>6, <1>7, <1>8, <1>9 DEF C!Next

LEMMA ControlTypesInit == C!Init => QueueBound /\ TaskTypes
<1> SUFFICES ASSUME C!Init PROVE QueueBound /\ TaskTypes
  OBVIOUS
<1>1. QueueSize \in Nat /\ TaskPolls \in Nat
  BY LimitsAssumption
<1>2. C!NoThread \in TaskThreads /\ C!IdleWorker \in Actors /\ "idle" \in TaskStates
  BY <1>1, TaskThreadRecord DEF C!NoThread, C!IdleWorker, Actors, TaskStates
<1>3. QueueBound
  BY <1>1, <1>2 DEF QueueBound, C!Init
<1>4. TaskTypes
  BY <1>2 DEF TaskTypes, C!Init
<1> QED BY <1>3, <1>4

LEMMA FirstNumbers ==
    ASSUME NEW n \in Nat
    PROVE  IsFiniteSet(1 .. n) /\ Cardinality(1 .. n) = n
<1>1. IsFiniteSet(1 .. n) /\ Cardinality(1 .. n) = IF 1 > n THEN 0 ELSE n - 1 + 1
  BY FS_Interval
<1> QED BY <1>1

(* The counter of the calls under way has a bound: a thread puts one call   *)
(* at a time, the queue is bounded and the actor holds one item.            *)
LEMMA ControlMeans ==
    ASSUME ControlInv, QueueBound, TaskTypes
    PROVE  C!TypeOK
<1>1. /\ queue \in Seq(C!Item) /\ Len(queue) \in Nat /\ Len(queue) <= QueueSize
      /\ QueueSize \in Nat /\ actor \in Actors /\ pending \in Nat /\ Counted
      /\ call \in [C!Threads -> CallRecords]
  BY LimitsAssumption DEF ControlInv, ControlTypes, QueueBound
<1>2. IsFiniteSet(C!Threads) /\ C!Cardinality(C!Threads) = Cardinality(C!Threads)
  BY ThreadsAssumption DEF C!IsFiniteSet, IsFiniteSet, C!Cardinality, Cardinality
<1>3. /\ Putting \subseteq C!Threads /\ Queued \subseteq 1 .. Len(queue)
      /\ Cardinality(Putting) \in Nat /\ Cardinality(Queued) \in Nat
  BY CountsFinite DEF ControlInv
<1>4. Cardinality(Putting) <= Cardinality(C!Threads) /\ Cardinality(C!Threads) \in Nat
  BY <1>2, <1>3, FS_Subset, FS_CardinalityType
<1>5. Cardinality(Queued) <= Len(queue)
  <2>1. IsFiniteSet(1 .. Len(queue)) /\ Cardinality(1 .. Len(queue)) = Len(queue)
    BY <1>1, FirstNumbers
  <2> QED BY <1>3, <2>1, FS_Subset
<1>6. Taken \in 0 .. 1
  BY DEF Taken
<1>7. pending \in 0 .. (C!Cardinality(C!Threads) + QueueSize + 1)
  BY <1>1, <1>2, <1>3, <1>4, <1>5, <1>6 DEF Counted
<1> QED BY <1>1, <1>7 DEF C!TypeOK, Actors, TaskTypes, TaskStates, TaskThreads, CallRecords, CallStates, Priority

-----------------------------------------------------------------------------
(* NatDiagnostic and SlowCache: what their types say beyond NatTypes and    *)
(* CacheTypes.                                                              *)

LEMMA NatFaults ==
    ASSUME faults \in 0 .. MoreFaults, N!Next
    PROVE  faults' \in 0 .. MoreFaults
<1>1. faults' = faults \/ (faults < MoreFaults /\ faults' = faults + 1)
  BY DEF N!Next, N!Start, N!Worker, N!Sets, N!Stores, N!Polls, N!RouterEnds
<1> QED BY <1>1, LimitsAssumption

LEMMA NatMeans == NatTypes /\ faults \in 0 .. MoreFaults => N!TypeOK
  BY DEF NatTypes, N!TypeOK, NatThreads

ScopeTypes == scope \in Configs \cup {None} /\ backoff \in BOOLEAN

LEMMA ScopeStep ==
    ASSUME CacheInv, ScopeTypes, K!Next
    PROVE  ScopeTypes'
<1>1. config \in Configs
  BY DEF CacheInv, CacheTypes
<1>2. ASSUME NEW t \in Readers, NEW force \in BOOLEAN, K!cached(t, force) PROVE ScopeTypes'
  <2>1. scope' = config /\ backoff' = (backoff /\ ~K!NewScope)
    BY <1>2, Zenon DEF K!cached
  <2>2. backoff' \in BOOLEAN
    BY <2>1, Zenon DEF ScopeTypes
  <2> QED BY <1>1, <2>1, <2>2 DEF ScopeTypes
<1>3. ASSUME NEW t \in K!All, K!Load(t) \/ K!Fails(t) PROVE ScopeTypes'
  <2>1. CASE K!Verifies(t)
    <3>1. scope' = config /\ backoff' = (backoff /\ ~K!NewScope)
      BY <2>1, Zenon DEF K!Verifies, K!cached
    <3>2. backoff' \in BOOLEAN
      BY <3>1, Zenon DEF ScopeTypes
    <3> QED BY <1>1, <3>1, <3>2 DEF ScopeTypes
  <2>2. CASE K!Peeks(t) \/ K!StartsRefresh(t) \/ K!Clears(t) \/ K!Reads(t) \/ K!Puts(t) \/ K!Fails(t)
    BY <2>2 DEF K!Peeks, K!StartsRefresh, K!Clears, K!Reads, K!Puts, K!Fails, ScopeTypes
  <2> QED BY <1>3, <2>1, <2>2 DEF K!Load
<1>5. ASSUME NEW t \in Readers, K!Writes(t) PROVE ScopeTypes'
  BY <1>5 DEF K!Writes, ScopeTypes
<1>4. CASE K!Changes \/ K!Switches \/ K!Expires \/ K!BackoffEnds
  BY <1>4 DEF K!Changes, K!Switches, K!Expires, K!BackoffEnds, ScopeTypes
<1> QED BY <1>2, <1>3, <1>4, <1>5 DEF K!Next

LEMMA CacheMeans == CacheTypes /\ ScopeTypes => K!TypeOK
  BY DEF CacheTypes, ScopeTypes, K!TypeOK, ReaderRecords

-----------------------------------------------------------------------------
(* RevisionSignal: nothing is announced, read or kept for a reconnect that  *)
(* the store did not write.                                                 *)

WritersTo(n) == [pc : {"idle", "notify", "publish"}, revision : 0 .. n]
NetworksTo(n) == [pc : {"idle", "read", "publish", "lost"}, revision : 0 .. n]
SignalTypes ==
    /\ revision \in 1 .. MaxRevision /\ signalled \in 1 .. revision /\ latest \in 1 .. revision
    /\ connected \in BOOLEAN /\ retained \in 0 .. revision
    /\ writer \in WritersTo(revision) /\ network \in NetworksTo(revision)
    /\ kept \in 0 .. revision /\ beaten \in BOOLEAN /\ faults \in 0 .. MoreFaults

LEMMA SignalMeans == SignalTypes <=> R!TypeOK
  BY DEF SignalTypes, R!TypeOK, WritersTo, NetworksTo

LEMMA WritersFields ==
    ASSUME NEW n, NEW r \in WritersTo(n)
    PROVE  r.pc \in {"idle", "notify", "publish"} /\ r.revision \in 0 .. n
  BY DEF WritersTo

LEMMA WritersRecord ==
    ASSUME NEW n, NEW pc \in {"idle", "notify", "publish"}, NEW m \in 0 .. n
    PROVE  [pc |-> pc, revision |-> m] \in WritersTo(n)
  BY DEF WritersTo

LEMMA NetworksFields ==
    ASSUME NEW n, NEW r \in NetworksTo(n)
    PROVE  r.pc \in {"idle", "read", "publish", "lost"} /\ r.revision \in 0 .. n
  BY DEF NetworksTo

LEMMA NetworksRecord ==
    ASSUME NEW n, NEW pc \in {"idle", "read", "publish", "lost"}, NEW m \in 0 .. n
    PROVE  [pc |-> pc, revision |-> m] \in NetworksTo(n)
  BY DEF NetworksTo

LEMMA RevisionGrows ==
    ASSUME NEW n \in Nat
    PROVE  /\ WritersTo(n) \subseteq WritersTo(n + 1) /\ NetworksTo(n) \subseteq NetworksTo(n + 1)
           /\ 0 .. n \subseteq 0 .. (n + 1) /\ 1 .. n \subseteq 1 .. (n + 1)
<1>1. 0 .. n \subseteq 0 .. (n + 1) /\ 1 .. n \subseteq 1 .. (n + 1)
  OBVIOUS
<1>2. WritersTo(n) \subseteq WritersTo(n + 1)
  BY <1>1 DEF WritersTo
<1>3. NetworksTo(n) \subseteq NetworksTo(n + 1)
  BY <1>1 DEF NetworksTo
<1> QED BY <1>1, <1>2, <1>3

LEMMA SignalInit == R!Init => SignalTypes
<1>1. MaxRevision \in Nat \ {0} /\ MoreFaults \in Nat
  BY LimitsAssumption
<1>2. R!Idle \in WritersTo(1) /\ R!Idle \in NetworksTo(1)
  BY WritersRecord, NetworksRecord DEF R!Idle
<1>3. 1 \in 1 .. MaxRevision /\ 1 \in 1 .. 1 /\ 0 \in 0 .. 1 /\ 1 \in 0 .. 1 /\ 0 \in 0 .. MoreFaults
  BY <1>1
<1> QED BY <1>2, <1>3 DEF R!Init, SignalTypes

LEMMA SignalStep ==
    ASSUME SignalTypes, R!Next
    PROVE  SignalTypes'
<1>1. /\ revision \in 1 .. MaxRevision /\ signalled \in 1 .. revision /\ latest \in 1 .. revision
      /\ connected \in BOOLEAN /\ retained \in 0 .. revision
      /\ writer \in WritersTo(revision) /\ network \in NetworksTo(revision)
      /\ kept \in 0 .. revision /\ beaten \in BOOLEAN /\ faults \in 0 .. MoreFaults
      /\ MaxRevision \in Nat /\ MoreFaults \in Nat /\ revision \in Nat
  BY LimitsAssumption DEF SignalTypes
<1>2. /\ writer.pc \in {"idle", "notify", "publish"} /\ writer.revision \in 0 .. revision
      /\ network.pc \in {"idle", "read", "publish", "lost"} /\ network.revision \in 0 .. revision
  BY <1>1, WritersFields, NetworksFields
<1>3. R!Idle \in WritersTo(revision) /\ R!Idle \in NetworksTo(revision)
  BY <1>1, WritersRecord, NetworksRecord DEF R!Idle
<1>4. CASE R!Save
  <2>1. /\ revision < MaxRevision /\ revision' = revision + 1
        /\ \/ signalled' = revision + 1 /\ writer' = [pc |-> "notify", revision |-> revision + 1]
           \/ signalled' = signalled /\ writer' = writer
        /\ UNCHANGED <<latest, connected, retained, network, beaten, faults, kept>>
    BY <1>4 DEF R!Save
  <2>2. revision + 1 \in 1 .. MaxRevision /\ revision + 1 \in 1 .. (revision + 1)
        /\ revision + 1 \in 0 .. (revision + 1)
    BY <1>1, <2>1
  <2>3. [pc |-> "notify", revision |-> revision + 1] \in WritersTo(revision + 1)
    BY <2>2, WritersRecord
  <2>4. writer' \in WritersTo(revision + 1) /\ signalled' \in 1 .. (revision + 1)
    BY <1>1, <2>1, <2>2, <2>3, RevisionGrows
  <2>5. /\ latest' \in 1 .. (revision + 1) /\ retained' \in 0 .. (revision + 1)
        /\ network' \in NetworksTo(revision + 1) /\ kept' \in 0 .. (revision + 1)
    BY <1>1, <2>1, RevisionGrows
  <2> QED BY <1>1, <2>1, <2>2, <2>4, <2>5 DEF SignalTypes
<1>5. CASE R!Notify
  <2>1. /\ \/ writer' = R!Idle /\ latest' = latest
           \/ /\ writer.revision > latest /\ latest' = writer.revision
              /\ writer' = [writer EXCEPT !.pc = "publish"]
        /\ UNCHANGED <<revision, signalled, connected, retained, network, beaten, faults, kept>>
    BY <1>1, <1>2, <1>5 DEF R!Notify
  <2>2. [writer EXCEPT !.pc = "publish"] \in WritersTo(revision)
    BY <1>1 DEF WritersTo
  <2>3. writer' \in WritersTo(revision) /\ latest' \in 1 .. revision
    BY <1>1, <1>2, <1>3, <2>1, <2>2
  <2> QED BY <1>1, <2>1, <2>3 DEF SignalTypes
<1>6. CASE R!PublishNotified
  <2>1. /\ writer' = R!Idle /\ UNCHANGED <<revision, signalled, latest, connected, network, faults>>
        /\ retained' \in {retained, writer.revision} /\ kept' \in {kept, writer.revision}
        /\ beaten' \in {beaten, FALSE}
    BY <1>6 DEF R!PublishNotified
  <2> QED BY <1>1, <1>2, <1>3, <2>1 DEF SignalTypes
<1>7. CASE R!Connect
  <2>1. [pc |-> "read", revision |-> 0] \in NetworksTo(revision)
    BY <1>1, NetworksRecord
  <2> QED BY <1>1, <1>7, <2>1 DEF R!Connect, SignalTypes
<1>8. CASE R!ConnectReads
  <2> DEFINE m == R!Max2(latest, revision)
  <2>1. m \in 1 .. revision /\ m \in 0 .. revision
    BY <1>1 DEF R!Max2
  <2>2. /\ latest' = m /\ network' = [pc |-> "publish", revision |-> m]
        /\ UNCHANGED <<revision, signalled, connected, retained, writer, beaten, faults, kept>>
    BY <1>8 DEF R!ConnectReads
  <2> HIDE DEF m
  <2>3. [pc |-> "publish", revision |-> m] \in NetworksTo(revision)
    BY <2>1, NetworksRecord
  <2> QED BY <1>1, <2>1, <2>2, <2>3 DEF SignalTypes
<1>9. CASE R!ConnectPublishes
  <2>1. /\ retained' = network.revision /\ beaten' \in BOOLEAN /\ network' = R!Idle
        /\ UNCHANGED <<revision, signalled, latest, connected, writer, faults, kept>>
    BY <1>9 DEF R!ConnectPublishes
  <2> QED BY <1>1, <1>2, <1>3, <2>1 DEF SignalTypes
<1>10. CASE R!Resend
  <2>1. /\ retained' = kept /\ beaten' \in BOOLEAN /\ kept' = 0
        /\ UNCHANGED <<revision, signalled, latest, connected, writer, network, faults>>
    BY <1>10 DEF R!Resend
  <2> QED BY <1>1, <2>1 DEF SignalTypes
<1>11. CASE R!Lose
  <2>1. [pc |-> "lost", revision |-> 0] \in NetworksTo(revision)
    BY <1>1, NetworksRecord
  <2> QED BY <1>1, <1>11, <2>1 DEF R!Lose, SignalTypes
<1>12. CASE R!Disconnect
  BY <1>1, <1>3, <1>12 DEF R!Disconnect, SignalTypes
<1> QED BY <1>4, <1>5, <1>6, <1>7, <1>8, <1>9, <1>10, <1>11, <1>12 DEF R!Next, R!Writer, R!Network

-----------------------------------------------------------------------------
(* RouterCredentials: every nonce somebody holds was given out, and each    *)
(* was given out for a refresh or a restart.                                *)
Nonces ==
    /\ requested \in Nat \ {0} /\ requested <= 1 + refreshes + faults
    /\ refreshes \in 0 .. MaxRefresh /\ faults \in 0 .. MoreFaults
    /\ reads \in SUBSET (1 .. requested)
    /\ completed \in 0 .. requested /\ best \in 0 .. requested
    /\ last \in 0 .. requested /\ push \in 0 .. requested

LEMMA NoncesInit == P!Init => Nonces
  BY LimitsAssumption DEF P!Init, Nonces

LEMMA NoncesMean == Nonces => P!TypeOK
<1> SUFFICES ASSUME Nonces PROVE P!TypeOK
  OBVIOUS
<1> DEFINE top == P!MaxNonce
<1>1. top \in Nat /\ requested \in 1 .. top
  BY LimitsAssumption DEF Nonces, P!MaxNonce
<1>2. 0 .. requested \subseteq 0 .. top /\ 1 .. requested \subseteq 1 .. top
  BY <1>1
<1> HIDE DEF top
<1>3. /\ reads \in SUBSET (1 .. top) /\ completed \in 0 .. top /\ best \in 0 .. top
      /\ last \in 0 .. top /\ push \in 0 .. top /\ refreshes \in 0 .. MaxRefresh
      /\ faults \in 0 .. MoreFaults
  BY <1>2 DEF Nonces
<1> QED BY <1>1, <1>3 DEF P!TypeOK, top

LEMMA NoncesStep ==
    ASSUME Nonces, P!Next
    PROVE  Nonces'
<1>1. /\ requested \in Nat \ {0} /\ requested <= 1 + refreshes + faults
      /\ refreshes \in 0 .. MaxRefresh /\ faults \in 0 .. MoreFaults
      /\ refreshes \in Nat /\ faults \in Nat
      /\ reads \in SUBSET (1 .. requested)
      /\ completed \in 0 .. requested /\ best \in 0 .. requested
      /\ last \in 0 .. requested /\ push \in 0 .. requested
      /\ MaxRefresh \in Nat /\ MoreFaults \in Nat
  BY LimitsAssumption DEF Nonces
<1>2. 0 .. requested \subseteq 0 .. (requested + 1) /\ 1 .. requested \subseteq 1 .. (requested + 1)
      /\ requested + 1 \in 1 .. (requested + 1) /\ requested \in 0 .. requested
  BY <1>1
<1>3. CASE P!refresh
  <2>1. /\ refreshes < MaxRefresh /\ refreshes' = refreshes + 1 /\ requested' = requested + 1
        /\ reads' = reads \cup {requested + 1} /\ UNCHANGED <<completed, best, last, push, faults>>
    BY <1>3 DEF P!refresh
  <2>2. requested' \in Nat \ {0} /\ requested' <= 1 + refreshes' + faults' /\ refreshes' \in 0 .. MaxRefresh
    BY <1>1, <2>1
  <2>3. reads' \in SUBSET (1 .. (requested + 1))
    BY <1>1, <1>2, <2>1
  <2> QED BY <1>1, <1>2, <2>1, <2>2, <2>3 DEF Nonces
<1>4. ASSUME NEW n \in reads, P!ReadEnds(n) PROVE Nonces'
  <2>1. n \in 0 .. requested /\ reads' = reads \ {n} /\ completed' \in {completed, n}
        /\ best' \in {best, n} /\ UNCHANGED <<requested, refreshes, last, push, faults>>
    BY <1>1, <1>4 DEF P!ReadEnds, P!Store
  <2> QED BY <1>1, <2>1 DEF Nonces
<1>5. CASE P!dashboard_push
  BY <1>1, <1>2, <1>5 DEF P!dashboard_push, Nonces
<1>6. CASE P!PushFails
  <2>1. /\ faults < MoreFaults /\ faults' = faults + 1 /\ push' = 0
        /\ UNCHANGED <<requested, completed, best, reads, refreshes, last>>
    BY <1>6 DEF P!PushFails, P!Fault
  <2>2. faults' \in 0 .. MoreFaults /\ requested <= 1 + refreshes + faults' /\ 0 \in 0 .. requested
    BY <1>1, <2>1
  <2> QED BY <1>1, <2>1, <2>2 DEF Nonces
<1>7. CASE P!PushStored
  <2>1. /\ completed' = push /\ best' \in {best, push} /\ push' = 0 /\ last' \in {push, last}
        /\ faults' = faults \/ (faults < MoreFaults /\ faults' = faults + 1)
        /\ UNCHANGED <<requested, reads, refreshes>>
    BY <1>7 DEF P!PushStored, P!Store, P!Fault
  <2>2. faults' \in 0 .. MoreFaults /\ requested <= 1 + refreshes + faults' /\ 0 \in 0 .. requested
    BY <1>1, <2>1
  <2> QED BY <1>1, <2>1, <2>2 DEF Nonces
<1>8. CASE P!HubRestart
  <2>1. /\ faults < MoreFaults /\ faults' = faults + 1 /\ requested' = requested + 1 /\ completed' = 0
        /\ reads' = {} /\ UNCHANGED <<best, refreshes, last, push>>
    BY <1>8 DEF P!HubRestart, P!Fault
  <2>2. /\ faults' \in 0 .. MoreFaults /\ requested' \in Nat \ {0}
        /\ requested' <= 1 + refreshes + faults' /\ 0 \in 0 .. (requested + 1)
    BY <1>1, <2>1
  <2> QED BY <1>1, <1>2, <2>1, <2>2 DEF Nonces
<1> QED BY <1>3, <1>4, <1>5, <1>6, <1>7, <1>8 DEF P!Next, P!DirectRead

-----------------------------------------------------------------------------
(* The component that runs keeps its types. *)
RouterTypesInv ==
    /\ NotesInv /\ (focus = "session" => SessionInv) /\ RestingSession
    /\ focus = "control" => QueueBound /\ TaskTypes
    /\ focus = "nat" => faults \in 0 .. MoreFaults
    /\ focus = "cache" => ScopeTypes
    /\ focus = "signal" => SignalTypes
    /\ focus = "credentials" => Nonces
    /\ IF focus = "commands" THEN CommandInv ELSE cmds = <<>>

LEMMA RouterTypesInit == RouterInit => RouterTypesInv
<1> SUFFICES ASSUME RouterInit PROVE RouterTypesInv
  OBVIOUS
<1>1. C!Init /\ S!Init /\ N!Init /\ K!Init /\ R!Init /\ P!Init /\ Init
  BY DEF RouterInit
<1>2. NotesInv
  BY <1>1, ControlInit, NatInit, SlowCacheInit DEF NotesInv, K!Init
<1>3. SessionInv /\ RestingSession
  BY <1>1, SessionInit, BlockedTypes DEF RestingSession, S!Init, S!NoSession
<1>4. QueueBound /\ TaskTypes /\ SignalTypes /\ Nonces /\ CommandInv
  BY <1>1, ControlTypesInit, SignalInit, NoncesInit, CommandInit
<1>5. cmds = <<>> /\ faults \in 0 .. MoreFaults
  BY <1>1, LimitsAssumption DEF Init
<1>6. ScopeTypes
  BY <1>1 DEF K!Init, ScopeTypes
<1> QED BY <1>2, <1>3, <1>4, <1>5, <1>6 DEF RouterTypesInv

LEMMA RouterTypesStep ==
    ASSUME RouterTypesInv, [RouterNext]_routerVars
    PROVE  RouterTypesInv'
<1>1. focus' = focus
  BY DEF RouterNext, routerVars, notControl, notSession, notNat, notCache, notSignal, notPair, notCommand
<1>2. NotesInv' /\ (focus = "session" => SessionInv)' /\ RestingSession'
  BY NotesStep, SessionRouterStep DEF RouterTypesInv
<1>3. ASSUME focus = "control" PROVE (QueueBound /\ TaskTypes)'
  <2>1. CASE C!Next
    BY <1>3, <2>1, QueueBoundStep, TaskTypesStep DEF RouterTypesInv, NotesInv
  <2>2. CASE UNCHANGED routerVars
    BY <1>3, <2>2 DEF routerVars, controlVars, RouterTypesInv, QueueBound, TaskTypes
  <2> QED BY <1>3, <2>1, <2>2 DEF RouterNext
<1>4. ASSUME focus = "nat" PROVE faults' \in 0 .. MoreFaults
  <2>1. CASE N!Next
    BY <1>4, <2>1, NatFaults DEF RouterTypesInv
  <2>2. CASE UNCHANGED routerVars
    BY <1>4, <2>2 DEF routerVars, RouterTypesInv
  <2> QED BY <1>4, <2>1, <2>2 DEF RouterNext
<1>5. ASSUME focus = "cache" PROVE ScopeTypes'
  <2>1. CASE K!Next
    BY <1>5, <2>1, ScopeStep DEF RouterTypesInv, NotesInv
  <2>2. CASE UNCHANGED routerVars
    BY <1>5, <2>2 DEF routerVars, cacheVars, RouterTypesInv, ScopeTypes
  <2> QED BY <1>5, <2>1, <2>2 DEF RouterNext
<1>6. ASSUME focus = "signal" PROVE SignalTypes'
  <2>1. CASE R!Next
    BY <1>6, <2>1, SignalStep DEF RouterTypesInv
  <2>2. CASE UNCHANGED routerVars
    BY <1>6, <2>2 DEF routerVars, signalVars, RouterTypesInv, SignalTypes
  <2> QED BY <1>6, <2>1, <2>2 DEF RouterNext
<1>7. ASSUME focus = "credentials" PROVE Nonces'
  <2>1. CASE P!Next
    BY <1>7, <2>1, NoncesStep DEF RouterTypesInv
  <2>2. CASE UNCHANGED routerVars
    BY <1>7, <2>2 DEF routerVars, pairVars, RouterTypesInv, Nonces
  <2> QED BY <1>7, <2>1, <2>2 DEF RouterNext
<1>8. ASSUME focus = "commands" PROVE CommandInv'
  <2>1. CASE Next
    BY <1>8, <2>1, CommandStep DEF RouterTypesInv
  <2>2. CASE UNCHANGED routerVars
    <3>1. UNCHANGED vars
      BY <2>2 DEF routerVars, commandVars, vars
    <3> QED BY <1>8, <3>1, CommandStep DEF RouterTypesInv
  <2> QED BY <1>8, <2>1, <2>2 DEF RouterNext
<1>9. ASSUME focus # "commands" PROVE cmds' = <<>>
  <2>1. cmds' = cmds
    BY <1>9 DEF RouterNext, routerVars, notControl, notSession, notNat, notCache, notSignal, notPair, commandVars
  <2> QED BY <1>9, <2>1 DEF RouterTypesInv
<1> QED BY <1>1, <1>2, <1>3, <1>4, <1>5, <1>6, <1>7, <1>8, <1>9 DEF RouterTypesInv

LEMMA RouterTypesInvariant == RouterSpec => []RouterTypesInv
<1>1. RouterTypesInv /\ [RouterNext]_routerVars => RouterTypesInv'
  BY RouterTypesStep
<1> QED BY <1>1, RouterTypesInit, PTL DEF RouterSpec

(* Whichever component runs keeps its types and its limits, for any number  *)
(* of threads, tasks, configurations and faults: the queue of the actor     *)
(* never exceeds its size and the counter of calls under way stays within   *)
(* what threads, queue and actor can account for; nothing is announced to   *)
(* the APPs that the store did not write; every nonce was given out for a   *)
(* refresh or a restart; and the commands document keeps its length.        *)
THEOREM RouterTypesKept == RouterSpec => []RouterTypeOK
<1>1. RouterTypesInv => RouterTypeOK
  <2> SUFFICES ASSUME RouterTypesInv PROVE RouterTypeOK
    OBVIOUS
  <2>1. focus = "control" => C!TypeOK
    BY ControlMeans DEF RouterTypesInv, NotesInv
  <2>2. focus = "session" => S!TypeOK
    BY DEF RouterTypesInv, SessionInv, SessionTypes
  <2>3. focus = "nat" => N!TypeOK
    BY NatMeans DEF RouterTypesInv, NotesInv, NatInv
  <2>4. focus = "cache" => K!TypeOK
    BY CacheMeans DEF RouterTypesInv, NotesInv, CacheInv
  <2>5. focus = "signal" => R!TypeOK
    BY SignalMeans DEF RouterTypesInv
  <2>6. focus = "credentials" => P!TypeOK
    BY NoncesMean DEF RouterTypesInv
  <2>7. focus = "commands" => TypeOK
    BY DEF RouterTypesInv, CommandInv
  <2> QED BY <2>1, <2>2, <2>3, <2>4, <2>5, <2>6, <2>7 DEF RouterTypeOK
<1> QED BY <1>1, RouterTypesInvariant, PTL

(* In the composed system too a command row says "completed" only when the  *)
(* agent has run with the target since, or the command's installer passed   *)
(* its checks (hub.py: the acknowledgement, the status report and the       *)
(* workers all write the row), for any limit on the kept rows.              *)
THEOREM CompletionsStayEarned == RouterSpec => []CompletionEarned
<1>1. RouterTypesInv => CompletionEarned
  <2> SUFFICES ASSUME RouterTypesInv PROVE CompletionEarned
    OBVIOUS
  <2>1. CASE focus = "commands"
    BY <2>1, CompletedFollows DEF RouterTypesInv
  <2>2. CASE focus # "commands"
    BY <2>2 DEF RouterTypesInv, CompletionEarned
  <2> QED BY <2>1, <2>2
<1> QED BY <1>1, RouterTypesInvariant, PTL
=============================================================================
