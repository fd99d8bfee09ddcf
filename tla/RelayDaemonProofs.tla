-------------------------- MODULE RelayDaemonProofs --------------------------
(***************************************************************************)
(* Proofs about the LabRelay daemon, for every set of rules and handlers.  *)
(***************************************************************************)
EXTENDS RelayDaemon, TLAPS

(* Only the holder of operation_lock is past waiting for it. *)
LockInv == \A x \in Handlers : pc[x] \notin {"idle", "lock"} => lock = x

(* What a handler serves, by where it is. *)
ReqInv ==
    \A x \in Handlers :
        /\ pc[x] # "idle" => req[x] \in Request
        /\ pc[x] \in {"upsert", "upsertPersist", "rollback", "rollbackPersist",
                      "restore", "restoreBind"} => req[x].act = "upsert"
        /\ pc[x] \in {"enable", "enablePersist"} => req[x].act = "start"

TypeInv == TypeOK /\ LockInv /\ ReqInv

(* The fields of a request of the control socket. *)
LEMMA RequestFields ==
    ASSUME NEW r \in Request
    PROVE  /\ r.id \in RuleIds
           /\ r.act \in {"upsert", "start", "stop", "delete"}
           /\ r.act = "upsert" => r.rule \in Rule
           /\ r.act # "upsert" => r.rule = NoRule
  BY DEF Request

(* The daemon starts with its types in order and operation_lock free. *)
LEMMA TypeInit == Init => TypeInv
  BY MaxExpAssumption DEF Init, TypeInv, TypeOK, LockInv, ReqInv, Config, EmptyConfig, Where

(* The request a busy handler serves names a rule. *)
LEMMA BusyId ==
    ASSUME TypeInv, NEW x \in Handlers, pc[x] # "idle"
    PROVE  req[x] \in Request /\ req[x].id \in RuleIds
  BY RequestFields DEF TypeInv, ReqInv

(* Every step keeps the types and leaves at most one handler past the lock. *)
LEMMA TypeStep == TypeInv /\ [Next]_vars => TypeInv'
<1> SUFFICES ASSUME TypeInv, [Next]_vars PROVE TypeInv'
  OBVIOUS
<1> USE DEF TypeInv, TypeOK, LockInv, ReqInv, Goto, Where
<1>1. ASSUME NEW x \in Handlers, NEW r \in Request, Receive(x, r) PROVE TypeInv'
  BY <1>1, RequestFields, NoHandlerAssumption DEF Receive
<1>2. ASSUME NEW x \in Handlers, Acquire(x) PROVE TypeInv'
  <2>1. req[x] \in Request
    BY <1>2 DEF Acquire
  <2> QED
    BY <1>2, <2>1, RequestFields, NoHandlerAssumption DEF Acquire, FirstStep
<1>3. ASSUME NEW x \in Handlers, HandlerStep(x) PROVE TypeInv'
  <2> DEFINE id == req[x].id
  <2>0. pc[x] \notin {"idle", "lock"} /\ lock = x /\ req[x] \in Request /\ id \in RuleIds
    BY <1>3, RequestFields
       DEF HandlerStep, UpsertConflict, UpsertUnchanged, UpsertInsert, UpsertPersist,
           Rollback, RollbackPersist, StartCheck, StartRefused, Bind, BindFails,
           NotFound, StopDisable, StopPersist, StopRuntime, EnableRule, EnablePersist,
           DeleteStop, DeleteRemove, DeletePersist, Persist, PersistAndReply, SetEnabled
  <2> HIDE DEF id
  <2>1. CASE UpsertConflict(x) \/ UpsertUnchanged(x)
    BY <2>1, <2>0 DEF UpsertConflict, UpsertUnchanged, Reply
  <2>2. CASE UpsertInsert(x)
    BY <2>2, <2>0, RequestFields DEF UpsertInsert, Config, id
  <2>3. CASE UpsertPersist(x)
    BY <2>3, <2>0, RequestFields DEF UpsertPersist, Persist
  <2>4. CASE Rollback(x)
    BY <2>4, <2>0 DEF Rollback, Config, id
  <2>5. CASE RollbackPersist(x)
    BY <2>5, <2>0 DEF RollbackPersist, Persist, PersistAndReply, Reply
  <2>6. CASE StartCheck(x)
    BY <2>6, <2>0 DEF StartCheck, Config, id
  <2>7. CASE StartRefused(x)
    BY <2>7, <2>0 DEF StartRefused, StartFailed, Reply
  <2>8. CASE Bind(x)
    BY <2>8, <2>0 DEF Bind, Reply, Config, id
  <2>9. CASE BindFails(x)
    BY <2>9, <2>0 DEF BindFails, StartFailed, Reply
  <2>10. CASE NotFound(x)
    BY <2>10, <2>0 DEF NotFound, Reply
  <2>11. CASE StopDisable(x) \/ EnableRule(x)
    <3>1. rules[id] \in Rule
      BY <2>11, <2>0 DEF StopDisable, EnableRule, SetEnabled, Config, id
    <3>2. \A flag \in BOOLEAN : [rules[id] EXCEPT !.enabled = flag] \in Rule
      BY <3>1 DEF Rule
    <3>3. rules' \in Config
      BY <2>11, <3>2, <2>0 DEF StopDisable, EnableRule, SetEnabled, Config, id
    <3> QED
      BY <2>11, <2>0, <3>3 DEF StopDisable, EnableRule, SetEnabled
  <2>12. CASE StopPersist(x) \/ EnablePersist(x)
    BY <2>12, <2>0 DEF StopPersist, EnablePersist, Persist
  <2>13. CASE StopRuntime(x)
    BY <2>13, <2>0 DEF StopRuntime, Reply, Config, id
  <2>14. CASE DeleteStop(x)
    BY <2>14, <2>0 DEF DeleteStop, Config, id
  <2>15. CASE DeleteRemove(x)
    BY <2>15, <2>0 DEF DeleteRemove, Config, id
  <2>16. CASE DeletePersist(x)
    BY <2>16, <2>0 DEF DeletePersist, PersistAndReply, Reply
  <2> QED
    BY <1>3, <2>1, <2>2, <2>3, <2>4, <2>5, <2>6, <2>7, <2>8, <2>9, <2>10, <2>11,
       <2>12, <2>13, <2>14, <2>15, <2>16 DEF HandlerStep
<1>4. ASSUME NEW x \in Handlers, PersistFails(x) PROVE TypeInv'
  BY <1>4 DEF PersistFails, Reply
<1>5. CASE BootStep
  BY <1>5 DEF BootStep, BootStart, BootStartFails, Config
<1>6. CASE Tick
  BY <1>6, MaxExpAssumption DEF Tick
<1>7. ASSUME NEW id \in RuleIds, ListenerExpires(id) PROVE TypeInv'
  BY <1>7 DEF ListenerExpires
<1>8. CASE Crash
  BY <1>8 DEF Crash, Config, EmptyConfig
<1>9. CASE UNCHANGED vars
  BY <1>9 DEF vars
<1> QED
  BY <1>1, <1>2, <1>3, <1>4, <1>5, <1>6, <1>7, <1>8, <1>9 DEF Next

(* The daemon's state keeps its types, and only the holder of              *)
(* operation_lock runs a mutating operation.                               *)
THEOREM LockDiscipline == Spec => []TypeInv
  BY TypeInit, TypeStep, PTL DEF Spec

(* The type invariant by itself: the rule map, the file, the handles and   *)
(* the requests keep their types whatever fails or crashes.                *)
THEOREM TypeCorrect == Spec => []TypeOK
<1>1. TypeInv => TypeOK
  BY DEF TypeInv
<1> QED
  BY <1>1, LockDiscipline, PTL
-----------------------------------------------------------------------------
(* Ports. *)

(* While an upsert may still be rolled back, nobody takes the port of the  *)
(* rule that would come back: the strengthening NoPortClash needs.         *)
PrevFree ==
    \A x \in Handlers :
        pc[x] \in {"upsertPersist", "start", "bind", "rollback"}
        /\ req[x].act = "upsert" /\ prev[x] # NoRule
        => ~ PortTaken(rules, req[x].id, prev[x])

PortInv == NoPortClash /\ PrevFree

(* Putting a rule on a port that is free, or removing a rule, makes no conflict. *)
LEMMA SetKeepsConflictFree ==
    ASSUME NEW c \in Config, ConflictFree(c), NEW id \in RuleIds,
           NEW r \in Rule \cup {NoRule}, r = NoRule \/ ~ PortTaken(c, id, r)
    PROVE  ConflictFree([c EXCEPT ![id] = r])
  BY DEF ConflictFree, PortTaken, Config

(* In a configuration without conflicts, nobody else has a rule's port. *)
LEMMA OwnPortIsFree ==
    ASSUME NEW c \in Config, ConflictFree(c), NEW id \in RuleIds, c[id] # NoRule
    PROVE  ~ PortTaken(c, id, c[id])
  BY DEF ConflictFree, PortTaken

(* Whether a port is taken for an id does not depend on the id's own rule. *)
LEMMA PortTakenByOthers ==
    ASSUME NEW c \in Config, NEW id \in RuleIds, NEW r, NEW v
    PROVE  PortTaken([c EXCEPT ![id] = v], id, r) <=> PortTaken(c, id, r)
  BY DEF PortTaken, Config

(* The empty configuration has no conflict. *)
LEMMA PortInit == Init => PortInv
  BY DEF Init, PortInv, NoPortClash, PrevFree, ConflictFree, EmptyConfig

(* Every step keeps the ports of the rule map, of the file and of a rollback free. *)
LEMMA PortStep == TypeInv /\ PortInv /\ [Next]_vars => PortInv'
<1> SUFFICES ASSUME TypeInv, PortInv, [Next]_vars PROVE PortInv'
  OBVIOUS
<1> USE DEF PortInv
<1>a. rules \in Config /\ disk \in Config /\ pc \in [Handlers -> Where]
      /\ req \in [Handlers -> Request \cup {NoRequest}]
      /\ prev \in [Handlers -> Rule \cup {NoRule}]
  BY DEF TypeInv, TypeOK
<1>b. \A x \in Handlers : pc[x] \notin {"idle", "lock"} =>
          \A y \in Handlers \ {x} : pc[y] \in {"idle", "lock"}
  BY DEF TypeInv, LockInv
<1>1. ASSUME NEW x \in Handlers, NEW r \in Request, Receive(x, r) PROVE PortInv'
  BY <1>1, <1>a DEF Receive, Goto, NoPortClash, PrevFree
<1>2. ASSUME NEW x \in Handlers, Acquire(x) PROVE PortInv'
  <2>1. FirstStep(req[x].act) \notin {"upsertPersist", "start", "bind", "rollback"}
    BY <1>2, BusyId, RequestFields DEF Acquire, FirstStep
  <2> QED
    BY <1>2, <1>a, <2>1 DEF Acquire, Goto, NoPortClash, PrevFree
<1>3. ASSUME NEW x \in Handlers, HandlerStep(x) PROVE PortInv'
  <2> DEFINE id == req[x].id
  <2>0. pc[x] \notin {"idle", "lock"} /\ id \in RuleIds
    BY <1>3, BusyId
       DEF HandlerStep, UpsertConflict, UpsertUnchanged, UpsertInsert, UpsertPersist,
           Rollback, RollbackPersist, StartCheck, StartRefused, Bind, BindFails,
           NotFound, StopDisable, StopPersist, StopRuntime, EnableRule, EnablePersist,
           DeleteStop, DeleteRemove, DeletePersist, Persist, PersistAndReply, SetEnabled
  <2>1. CASE UpsertConflict(x) \/ UpsertUnchanged(x) \/ NotFound(x)
    BY <2>1, <2>0, <1>a, <1>b
       DEF UpsertConflict, UpsertUnchanged, NotFound, Reply, Goto, NoPortClash, PrevFree
  <2>2. CASE UpsertInsert(x)
    <3>0. req[x].rule \in Rule /\ req[x].act = "upsert"
      BY <2>2, BusyId, RequestFields DEF UpsertInsert, TypeInv, ReqInv
    <3>1. NoPortClash'
      BY <2>2, <2>0, <3>0, <1>a, SetKeepsConflictFree DEF UpsertInsert, NoPortClash
    <3>2. rules[id] # NoRule => ~ PortTaken(rules, id, rules[id])
      BY <2>0, <1>a, OwnPortIsFree DEF NoPortClash
    <3>3. prev'[x] = rules[id] /\ rules' = [rules EXCEPT ![id] = req[x].rule]
          /\ req' = req /\ \A y \in Handlers \ {x} : pc'[y] = pc[y]
      BY <2>2, <1>a DEF UpsertInsert, Goto
    <3>4. prev'[x] # NoRule => ~ PortTaken(rules', id, prev'[x])
      BY <3>2, <3>3, <2>0, <1>a, PortTakenByOthers
    <3>5. PrevFree'
      BY <3>3, <3>4, <2>0, <1>b DEF PrevFree
    <3> QED
      BY <3>1, <3>5
  <2>3. CASE UpsertPersist(x) \/ StopPersist(x)
    BY <2>3, <2>0, <1>a, <1>b
       DEF UpsertPersist, StopPersist, Persist, Goto, NoPortClash, PrevFree
  <2>4. CASE Rollback(x)
    <3>1. prev[x] = NoRule \/ ~ PortTaken(rules, id, prev[x])
      BY <2>4 DEF Rollback, PrevFree, TypeInv, ReqInv
    <3>2. NoPortClash'
      BY <2>4, <2>0, <1>a, <3>1, SetKeepsConflictFree DEF Rollback, NoPortClash
    <3>3. PrevFree'
      BY <2>4, <2>0, <1>a, <1>b DEF Rollback, Goto, PrevFree
    <3> QED
      BY <3>2, <3>3
  <2>5. CASE RollbackPersist(x)
    BY <2>5, <2>0, <1>a, <1>b
       DEF RollbackPersist, Persist, PersistAndReply, Reply, Goto, NoPortClash, PrevFree
  <2>6. CASE StartCheck(x)
    BY <2>6, <2>0, <1>a, <1>b DEF StartCheck, Goto, NoPortClash, PrevFree
  <2>7. CASE StartRefused(x) \/ BindFails(x)
    BY <2>7, <2>0, <1>a, <1>b
       DEF StartRefused, BindFails, StartFailed, Reply, Goto, NoPortClash, PrevFree
  <2>8. CASE Bind(x) \/ StopRuntime(x)
    BY <2>8, <2>0, <1>a, <1>b DEF Bind, StopRuntime, Reply, Goto, NoPortClash, PrevFree
  <2>9. CASE StopDisable(x) \/ EnableRule(x)
    <3>1. rules[id] \in Rule
      BY <2>9, <2>0, <1>a DEF StopDisable, EnableRule, SetEnabled, Config
    <3>2. PICK r \in Rule : r.port = rules[id].port /\ rules' = [rules EXCEPT ![id] = r]
      <4>1. \A flag \in BOOLEAN : /\ [rules[id] EXCEPT !.enabled = flag] \in Rule
                                  /\ [rules[id] EXCEPT !.enabled = flag].port = rules[id].port
        BY <3>1 DEF Rule
      <4> QED
        BY <2>9, <4>1 DEF StopDisable, EnableRule, SetEnabled
    <3>3. ~ PortTaken(rules, id, r)
      <4>1. ~ PortTaken(rules, id, rules[id])
        BY <2>0, <1>a, <2>9, OwnPortIsFree
           DEF NoPortClash, StopDisable, EnableRule, SetEnabled
      <4> QED
        BY <3>2, <4>1 DEF PortTaken
    <3>4. NoPortClash'
      BY <2>9, <2>0, <1>a, <3>2, <3>3, SetKeepsConflictFree
         DEF StopDisable, EnableRule, SetEnabled, NoPortClash
    <3>5. PrevFree'
      BY <2>9, <2>0, <1>a, <1>b DEF StopDisable, EnableRule, SetEnabled, Goto, PrevFree
    <3> QED
      BY <3>4, <3>5
  <2>10. CASE EnablePersist(x)
    <3>1. req[x].act = "start"
      BY <2>10 DEF EnablePersist, Persist, TypeInv, ReqInv
    <3> QED
      BY <2>10, <3>1, <2>0, <1>a, <1>b
         DEF EnablePersist, Persist, Goto, NoPortClash, PrevFree
  <2>11. CASE DeleteStop(x)
    BY <2>11, <2>0, <1>a, <1>b DEF DeleteStop, Goto, NoPortClash, PrevFree
  <2>12. CASE DeleteRemove(x)
    <3>1. NoPortClash'
      BY <2>12, <2>0, <1>a, SetKeepsConflictFree DEF DeleteRemove, NoPortClash
    <3> QED
      BY <3>1, <2>12, <2>0, <1>a, <1>b DEF DeleteRemove, Goto, PrevFree
  <2>13. CASE DeletePersist(x)
    BY <2>13, <2>0, <1>a, <1>b
       DEF DeletePersist, PersistAndReply, Reply, Goto, NoPortClash, PrevFree
  <2> QED
    BY <1>3, <2>1, <2>2, <2>3, <2>4, <2>5, <2>6, <2>7, <2>8, <2>9, <2>10, <2>11,
       <2>12, <2>13 DEF HandlerStep
<1>4. ASSUME NEW x \in Handlers, PersistFails(x) PROVE PortInv'
  BY <1>4, <1>a, <1>b DEF PersistFails, Reply, Goto, NoPortClash, PrevFree
<1>5. CASE BootStep
  BY <1>5 DEF BootStep, BootStart, BootStartFails, NoPortClash, PrevFree
<1>6. CASE Tick
  BY <1>6 DEF Tick, NoPortClash, PrevFree
<1>7. ASSUME NEW id \in RuleIds, ListenerExpires(id) PROVE PortInv'
  BY <1>7 DEF ListenerExpires, NoPortClash, PrevFree
<1>8. CASE Crash
  BY <1>8 DEF Crash, NoPortClash, PrevFree
<1>9. CASE UNCHANGED vars
  BY <1>9 DEF vars, NoPortClash, PrevFree
<1> QED
  BY <1>1, <1>2, <1>3, <1>4, <1>5, <1>6, <1>7, <1>8, <1>9 DEF Next

(* No interleaving of handlers, failed start, failed write or crash ever   *)
(* puts two rules on one listen port, in memory or in the file.            *)
THEOREM PortsNeverClash == Spec => []NoPortClash
<1>1. Init => TypeInv /\ PortInv
  BY TypeInit, PortInit
<1>2. (TypeInv /\ PortInv) /\ [Next]_vars => (TypeInv /\ PortInv)'
  BY TypeStep, PortStep
<1>3. TypeInv /\ PortInv => NoPortClash
  BY DEF PortInv
<1> QED
  BY <1>1, <1>2, <1>3, PTL DEF Spec
-----------------------------------------------------------------------------
(* Listeners and durability, when writing the configuration succeeds. *)

Busy(x) == pc[x] \notin {"idle", "lock"}

Persisting == {"upsertPersist", "rollbackPersist", "enablePersist",
               "stopPersist", "deletePersist"}

(* The file is behind the rule map only just before it is written. *)
DiskInv == (\A x \in Handlers : pc[x] \notin Persisting) => disk = rules

(* The listener of i, if any, runs the enabled rule the map has for i. *)
Match(i) == runtimes[i] # NoRule => rules[i] = runtimes[i] /\ rules[i].enabled

(* How the rule a handler works on relates to its listener, by where the   *)
(* handler is.                                                             *)
OperationInv(x) ==
    LET i   == req[x].id
        act == req[x].act
    IN /\ pc[x] \in {"upsert", "enable", "enablePersist", "delete",
                      "rollbackPersist", "restore"} => Match(i)
       /\ pc[x] = "stop" /\ act # "upsert" => Match(i)
       /\ pc[x] = "stop" /\ act = "upsert" => rules[i] # NoRule
       /\ pc[x] = "start" /\ act # "upsert" => Match(i)
       /\ pc[x] \in {"upsertPersist", "start", "rollback"} /\ act = "upsert" =>
            (runtimes[i] # NoRule => prev[x] = runtimes[i] /\ prev[x].enabled)
       /\ pc[x] \in {"bind", "restoreBind", "deleteRemove", "deletePersist"} =>
            runtimes[i] = NoRule
       /\ pc[x] = "upsertPersist" => rules[i] = req[x].rule
       /\ pc[x] = "rollbackPersist" => rules[i] = prev[x]
       /\ pc[x] \in {"enablePersist", "start", "bind", "restore", "restoreBind"} =>
            rules[i] # NoRule /\ rules[i].enabled

RunInv ==
    /\ \A i \in RuleIds : (\A x \in Handlers : Busy(x) => req[x].id # i) => Match(i)
    /\ \A x \in Handlers : Busy(x) => OperationInv(x)
    /\ \A i \in boot : rules[i] # NoRule /\ rules[i].enabled
    /\ boot # {} => \A x \in Handlers : pc[x] = "idle"

(* The daemon starts with no listener and with the file it has read. *)
LEMMA RunInit == Init => DiskInv /\ RunInv
  BY DEF Init, DiskInv, RunInv, Match, Busy, EmptyConfig

(* A step of a busy handler x that touches only its own rule keeps RunInv  *)
(* if it leaves x's rule in order.                                         *)
LEMMA OwnRuleStep ==
    ASSUME TypeInv, RunInv, NEW x \in Handlers, Busy(x), NEW i \in RuleIds, i = req[x].id,
           \A y \in Handlers \ {x} : pc'[y] = pc[y] /\ req'[y] = req[y],
           \A j \in RuleIds \ {i} : rules'[j] = rules[j] /\ runtimes'[j] = runtimes[j],
           boot' = boot,
           \/ Busy(x)' /\ req'[x] = req[x] /\ OperationInv(x)'
           \/ pc'[x] = "idle" /\ Match(i)'
    PROVE  RunInv'
<1>1. \A y \in Handlers \ {x} : ~ Busy(y) /\ ~ Busy(y)'
  BY DEF TypeInv, LockInv, Busy
<1>2. boot' = {}
  BY DEF RunInv, Busy
<1>3. \A y \in Handlers : Busy(y)' => OperationInv(y)'
  BY <1>1 DEF Busy
<1>4. ASSUME NEW j \in RuleIds, \A y \in Handlers : Busy(y)' => req'[y].id # j
      PROVE  Match(j)'
  <2>1. CASE j = i
    BY <1>4, <2>1
  <2>2. CASE j # i
    <3>1. Match(j)
      BY <1>1, <2>2 DEF RunInv
    <3> QED
      BY <3>1, <2>2 DEF Match
  <2> QED
    BY <2>1, <2>2
<1> QED
  BY <1>2, <1>3, <1>4 DEF RunInv

(* A step of a handler keeps listener, rule and file in order. *)
LEMMA RunHandlerStep ==
    ASSUME TypeInv, DiskInv, RunInv, NEW x \in Handlers, HandlerStep(x)
    PROVE  DiskInv' /\ RunInv'
<1>0. Busy(x) /\ req[x] \in Request /\ req[x].id \in RuleIds /\ pc[x] # "idle"
  BY BusyId
     DEF Busy, HandlerStep, UpsertConflict, UpsertUnchanged, UpsertInsert, UpsertPersist,
         Rollback, RollbackPersist, StartCheck, StartRefused, Bind, BindFails,
         NotFound, StopDisable, StopPersist, StopRuntime, EnableRule, EnablePersist,
         DeleteStop, DeleteRemove, DeletePersist, Persist, PersistAndReply, SetEnabled
<1>i. PICK i \in RuleIds : i = req[x].id
  BY <1>0
<1>a. rules \in Config /\ runtimes \in Config /\ pc \in [Handlers -> Where]
      /\ req \in [Handlers -> Request \cup {NoRequest}]
      /\ prev \in [Handlers -> Rule \cup {NoRule}]
  BY DEF TypeInv, TypeOK
<1>b. \A y \in Handlers \ {x} : ~ Busy(y)
  BY <1>0 DEF TypeInv, LockInv, Busy
<1>c. OperationInv(x)
  BY <1>0 DEF RunInv
<1>d. pc[x] \notin Persisting => disk = rules
  BY <1>b DEF DiskInv, Busy, Persisting
<1>e. req[x].act \in {"upsert", "start", "stop", "delete"}
      /\ (req[x].act = "upsert" => req[x].rule \in Rule)
  BY <1>0, RequestFields
<1>f. ReqInv
  BY DEF TypeInv
<1>1. CASE UpsertConflict(x) \/ UpsertUnchanged(x) \/ NotFound(x)
  <2>1. Match(i)
    BY <1>i, <1>1, <1>c, <1>e DEF UpsertConflict, UpsertUnchanged, NotFound, OperationInv
  <2>2. DiskInv'
    BY <1>1, <1>d, <1>a, <1>b
       DEF UpsertConflict, UpsertUnchanged, NotFound, Reply, Goto, DiskInv, Persisting
  <2>3. RunInv'
    BY <1>i, <1>1, <2>1, <1>0, <1>a, OwnRuleStep
       DEF UpsertConflict, UpsertUnchanged, NotFound, Reply, Goto, Match
  <2> QED
    BY <2>2, <2>3
<1>2. CASE UpsertInsert(x)
  <2>1. rules' = [rules EXCEPT ![i] = req[x].rule] /\ runtimes' = runtimes /\ req' = req
        /\ pc' = [pc EXCEPT ![x] = "upsertPersist"] /\ prev'[x] = rules[i]
        /\ boot' = boot /\ req[x].act = "upsert"
    BY <1>i, <1>2, <1>a, <1>f DEF UpsertInsert, Goto, ReqInv
  <2>2. Match(i)
    BY <1>i, <1>2, <1>c DEF UpsertInsert, OperationInv
  <2>3. OperationInv(x)'
    BY <1>i, <2>1, <2>2, <1>0, <1>a DEF OperationInv, Match, Config
  <2>4. RunInv'
    BY <1>i, <2>1, <2>3, <1>0, <1>a, OwnRuleStep DEF Busy, Config
  <2> QED
    BY <2>1, <2>4, <1>a DEF DiskInv, Persisting
<1>3. CASE UpsertPersist(x) \/ StopPersist(x) \/ EnablePersist(x)
  <2>1. disk' = rules' /\ rules' = rules /\ runtimes' = runtimes /\ req' = req
        /\ prev' = prev /\ boot' = boot
        /\ \/ /\ pc[x] = "upsertPersist"
              /\ pc' = [pc EXCEPT ![x] = IF req[x].rule.enabled THEN "start" ELSE "stop"]
           \/ pc[x] = "stopPersist" /\ pc' = [pc EXCEPT ![x] = "stopRuntime"]
           \/ pc[x] = "enablePersist" /\ pc' = [pc EXCEPT ![x] = "start"]
    BY <1>3 DEF UpsertPersist, StopPersist, EnablePersist, Persist, Goto
  <2>2. pc[x] = "upsertPersist" => req[x].act = "upsert" /\ req[x].rule # NoRule
    BY <1>f, <1>e, NoRuleAssumption DEF ReqInv
  <2>3. pc[x] = "enablePersist" => req[x].act = "start"
    BY <1>f DEF ReqInv
  <2>4. OperationInv(x)'
    BY <2>1, <2>2, <2>3, <1>c, <1>a DEF OperationInv, Match
  <2>5. RunInv'
    BY <2>1, <2>4, <1>0, <1>a, OwnRuleStep DEF Busy
  <2> QED
    BY <2>1, <2>5 DEF DiskInv
<1>4. CASE Rollback(x)
  <2>1. rules' = [rules EXCEPT ![i] = prev[x]] /\ runtimes' = runtimes /\ req' = req
        /\ pc' = [pc EXCEPT ![x] = "rollbackPersist"] /\ prev' = prev /\ boot' = boot
        /\ req[x].act = "upsert" /\ pc[x] = "rollback"
    BY <1>i, <1>4, <1>f DEF Rollback, Goto, ReqInv
  <2>2. OperationInv(x)'
    BY <1>i, <2>1, <1>c, <1>0, <1>a DEF OperationInv, Match, Config
  <2>3. RunInv'
    BY <1>i, <2>1, <2>2, <1>0, <1>a, OwnRuleStep DEF Busy, Config
  <2> QED
    BY <2>1, <2>3, <1>a DEF DiskInv, Persisting
<1>5. CASE RollbackPersist(x)
  <2>1. disk' = rules' /\ rules' = rules /\ runtimes' = runtimes /\ boot' = boot
        /\ pc[x] = "rollbackPersist"
        /\ (\A y \in Handlers \ {x} : pc'[y] = pc[y] /\ req'[y] = req[y])
        /\ \/ /\ prev[x] # NoRule /\ prev[x].enabled
              /\ pc' = [pc EXCEPT ![x] = "restore"] /\ req' = req
           \/ pc' = [pc EXCEPT ![x] = "idle"]
    BY <1>5, <1>a DEF RollbackPersist, Persist, PersistAndReply, Reply, Goto
  <2>2. Match(i)'
    BY <1>i, <2>1, <1>c DEF OperationInv, Match
  <2>3. CASE pc' = [pc EXCEPT ![x] = "restore"]
    <3>1. req' = req /\ prev[x] # NoRule /\ prev[x].enabled
      BY <2>1, <2>3, <1>a
    <3>2. OperationInv(x)'
      BY <1>i, <2>1, <2>2, <2>3, <3>1, <1>c, <1>a DEF OperationInv, Match
    <3> QED
      BY <1>i, <2>1, <2>3, <3>1, <3>2, <1>0, <1>a, OwnRuleStep DEF Busy, DiskInv
  <2>4. CASE pc' = [pc EXCEPT ![x] = "idle"]
    <3>1. RunInv'
      BY <1>i, <2>1, <2>2, <2>4, <1>0, <1>a, OwnRuleStep
    <3> QED
      BY <2>1, <3>1 DEF DiskInv
  <2> QED
    BY <2>1, <2>3, <2>4
<1>6. CASE StartCheck(x)
  <2>1. rules' = rules /\ disk' = disk /\ req' = req /\ boot' = boot
        /\ runtimes' = [runtimes EXCEPT ![i] = NoRule]
        /\ \/ pc[x] = "start" /\ pc' = [pc EXCEPT ![x] = "bind"]
           \/ pc[x] = "restore" /\ pc' = [pc EXCEPT ![x] = "restoreBind"]
    BY <1>i, <1>6 DEF StartCheck, Goto
  <2>2. OperationInv(x)'
    BY <1>i, <2>1, <1>c, <1>0, <1>a DEF OperationInv, Config
  <2>3. RunInv'
    BY <1>i, <2>1, <2>2, <1>0, <1>a, OwnRuleStep DEF Busy, Config
  <2> QED
    BY <2>1, <2>3, <1>d, <1>a DEF DiskInv, Persisting
<1>7. CASE StartRefused(x) \/ BindFails(x)
  <2>1. rules' = rules /\ disk' = disk /\ runtimes' = runtimes /\ boot' = boot
        /\ pc[x] \in {"start", "restore", "bind", "restoreBind"}
        /\ (\A y \in Handlers \ {x} : pc'[y] = pc[y] /\ req'[y] = req[y])
        /\ \/ /\ pc[x] \in {"start", "bind"} /\ req[x].act = "upsert"
              /\ pc' = [pc EXCEPT ![x] = "rollback"] /\ req' = req /\ prev' = prev
           \/ /\ ~ (pc[x] \in {"start", "bind"} /\ req[x].act = "upsert")
              /\ pc' = [pc EXCEPT ![x] = "idle"]
    BY <1>7, <1>a DEF StartRefused, BindFails, StartFailed, Reply, Goto
  <2>2. CASE pc[x] \in {"start", "bind"} /\ req[x].act = "upsert"
    <3>1. pc' = [pc EXCEPT ![x] = "rollback"] /\ req' = req /\ prev' = prev
      BY <2>1, <2>2
    <3>2. runtimes[i] # NoRule => prev[x] = runtimes[i] /\ prev[x].enabled
      BY <1>i, <2>2, <1>c DEF OperationInv
    <3>3. OperationInv(x)'
      BY <1>i, <2>1, <3>1, <3>2, <1>a DEF OperationInv
    <3> QED
      BY <1>i, <2>1, <3>1, <3>3, <1>0, <1>a, <1>d, OwnRuleStep DEF Busy, DiskInv, Persisting
  <2>3. CASE ~ (pc[x] \in {"start", "bind"} /\ req[x].act = "upsert")
    <3>1. pc' = [pc EXCEPT ![x] = "idle"]
      BY <2>1, <2>3
    <3>2. Match(i)
      BY <1>i, <2>1, <2>3, <1>c DEF OperationInv, Match
    <3>3. Match(i)'
      BY <2>1, <3>2 DEF Match
    <3> QED
      BY <1>i, <2>1, <3>1, <3>3, <1>0, <1>a, <1>d, OwnRuleStep DEF DiskInv, Persisting
  <2> QED
    BY <2>2, <2>3
<1>8. CASE Bind(x)
  <2>1. rules' = rules /\ disk' = disk /\ boot' = boot
        /\ runtimes' = [runtimes EXCEPT ![i] = rules[i]]
        /\ pc[x] \in {"bind", "restoreBind"} /\ pc'[x] = "idle"
        /\ (\A y \in Handlers \ {x} : pc'[y] = pc[y] /\ req'[y] = req[y])
    BY <1>i, <1>8, <1>a DEF Bind, Reply, Goto
  <2>2. Match(i)'
    BY <1>i, <2>1, <1>c, <1>0, <1>a DEF OperationInv, Match, Config
  <2>3. RunInv'
    BY <1>i, <2>1, <2>2, <1>0, <1>a, OwnRuleStep DEF Config
  <2> QED
    BY <2>1, <2>3, <1>d DEF DiskInv, Persisting
<1>9. CASE StopDisable(x)
  <2>1. runtimes' = runtimes /\ req' = req /\ boot' = boot /\ pc[x] = "stop"
        /\ pc' = [pc EXCEPT ![x] = "stopPersist"]
        /\ \A j \in RuleIds \ {i} : rules'[j] = rules[j]
    BY <1>i, <1>9, <1>a DEF StopDisable, SetEnabled, Goto, Config
  <2>2. OperationInv(x)'
    BY <2>1, <1>a DEF OperationInv
  <2>3. RunInv'
    BY <1>i, <2>1, <2>2, <1>0, <1>a, OwnRuleStep DEF Busy
  <2> QED
    BY <2>1, <2>3, <1>a DEF DiskInv, Persisting
<1>10. CASE EnableRule(x)
  <2>1. runtimes' = runtimes /\ req' = req /\ boot' = boot /\ pc[x] = "enable"
        /\ pc' = [pc EXCEPT ![x] = "enablePersist"] /\ rules[i] \in Rule
        /\ rules' = [rules EXCEPT ![i] = [rules[i] EXCEPT !.enabled = TRUE]]
    BY <1>i, <1>10, <1>a, <1>0 DEF EnableRule, SetEnabled, Goto, Config
  <2>2. /\ [rules[i] EXCEPT !.enabled = TRUE] \in Rule
        /\ [rules[i] EXCEPT !.enabled = TRUE].enabled
        /\ rules[i].enabled => [rules[i] EXCEPT !.enabled = TRUE] = rules[i]
    BY <2>1 DEF Rule
  <2>3. rules'[i] \in Rule /\ rules'[i].enabled /\ (rules[i].enabled => rules'[i] = rules[i])
        /\ \A j \in RuleIds \ {i} : rules'[j] = rules[j]
    BY <2>1, <2>2, <1>a, <1>0 DEF Config
  <2>4. OperationInv(x)'
    BY <1>i, <2>1, <2>3, <1>c, <1>a, NoRuleAssumption DEF OperationInv, Match
  <2>5. RunInv'
    BY <1>i, <2>1, <2>3, <2>4, <1>0, <1>a, OwnRuleStep DEF Busy
  <2> QED
    BY <2>1, <2>5, <1>a DEF DiskInv, Persisting
<1>11. CASE StopRuntime(x)
  <2>1. rules' = rules /\ disk' = disk /\ boot' = boot
        /\ runtimes' = [runtimes EXCEPT ![i] = NoRule]
        /\ pc[x] = "stopRuntime" /\ pc'[x] = "idle"
        /\ (\A y \in Handlers \ {x} : pc'[y] = pc[y] /\ req'[y] = req[y])
    BY <1>i, <1>11, <1>a DEF StopRuntime, Reply, Goto
  <2>2. Match(i)'
    BY <2>1, <1>0, <1>a DEF Match, Config
  <2>3. RunInv'
    BY <1>i, <2>1, <2>2, <1>0, <1>a, OwnRuleStep DEF Config
  <2> QED
    BY <2>1, <2>3, <1>d DEF DiskInv, Persisting
<1>12. CASE DeleteStop(x)
  <2>1. rules' = rules /\ disk' = disk /\ boot' = boot /\ req' = req
        /\ runtimes' = [runtimes EXCEPT ![i] = NoRule]
        /\ pc[x] = "delete" /\ pc' = [pc EXCEPT ![x] = "deleteRemove"]
    BY <1>i, <1>12 DEF DeleteStop, Goto
  <2>2. OperationInv(x)'
    BY <1>i, <2>1, <1>0, <1>a DEF OperationInv, Config
  <2>3. RunInv'
    BY <1>i, <2>1, <2>2, <1>0, <1>a, OwnRuleStep DEF Busy, Config
  <2> QED
    BY <2>1, <2>3, <1>d, <1>a DEF DiskInv, Persisting
<1>13. CASE DeleteRemove(x)
  <2>1. rules' = [rules EXCEPT ![i] = NoRule] /\ boot' = boot /\ req' = req
        /\ runtimes' = runtimes
        /\ pc[x] = "deleteRemove" /\ pc' = [pc EXCEPT ![x] = "deletePersist"]
    BY <1>i, <1>13 DEF DeleteRemove, Goto
  <2>2. OperationInv(x)'
    BY <1>i, <2>1, <1>c, <1>0, <1>a DEF OperationInv
  <2>3. RunInv'
    BY <1>i, <2>1, <2>2, <1>0, <1>a, OwnRuleStep DEF Busy, Config
  <2> QED
    BY <2>1, <2>3, <1>a DEF DiskInv, Persisting
<1>14. CASE DeletePersist(x)
  <2>1. disk' = rules' /\ rules' = rules /\ boot' = boot /\ runtimes' = runtimes
        /\ pc[x] = "deletePersist" /\ pc'[x] = "idle"
        /\ (\A y \in Handlers \ {x} : pc'[y] = pc[y] /\ req'[y] = req[y])
    BY <1>14, <1>a DEF DeletePersist, PersistAndReply, Reply, Goto
  <2>2. Match(i)'
    BY <1>i, <2>1, <1>c DEF OperationInv, Match
  <2>3. RunInv'
    BY <1>i, <2>1, <2>2, <1>0, OwnRuleStep
  <2> QED
    BY <2>1, <2>3 DEF DiskInv
<1> QED
  BY <1>1, <1>2, <1>3, <1>4, <1>5, <1>6, <1>7, <1>8, <1>9, <1>10, <1>11, <1>12,
     <1>13, <1>14 DEF HandlerStep

(* Every step keeps listener, rule and file in order, while the file can be written. *)
LEMMA RunStep ==
    ASSUME ~ DiskMayFail
    PROVE  TypeInv /\ DiskInv /\ RunInv /\ [Next]_vars => DiskInv' /\ RunInv'
<1> SUFFICES ASSUME TypeInv, DiskInv, RunInv, [Next]_vars PROVE DiskInv' /\ RunInv'
  OBVIOUS
<1>a. rules \in Config /\ runtimes \in Config /\ pc \in [Handlers -> Where]
      /\ req \in [Handlers -> Request \cup {NoRequest}] /\ boot \subseteq RuleIds
  BY DEF TypeInv, TypeOK
<1>1. ASSUME NEW x \in Handlers, NEW r \in Request, Receive(x, r)
      PROVE  DiskInv' /\ RunInv'
  <2>1. rules' = rules /\ disk' = disk /\ runtimes' = runtimes /\ prev' = prev
        /\ boot' = {} /\ boot = {} /\ ~ Busy(x) /\ pc' = [pc EXCEPT ![x] = "lock"]
        /\ \A y \in Handlers \ {x} : req'[y] = req[y]
    BY <1>1, <1>a DEF Receive, Goto, Busy
  <2>2. DiskInv'
    BY <2>1, <1>a DEF DiskInv, Busy, Persisting
  <2>3. \A y \in Handlers : Busy(y)' => y # x /\ Busy(y)
    BY <2>1, <1>a DEF Busy
  <2>4. \A y \in Handlers : Busy(y) => y # x /\ Busy(y)' /\ pc'[y] = pc[y]
    BY <2>1, <1>a DEF Busy
  <2>5. \A y \in Handlers : Busy(y)' => OperationInv(y)'
    BY <2>1, <2>3, <2>4 DEF RunInv, OperationInv, Match
  <2>6. \A j \in RuleIds : (\A y \in Handlers : Busy(y)' => req'[y].id # j) => Match(j)'
    BY <2>1, <2>3, <2>4 DEF RunInv, Match
  <2> QED
    BY <2>1, <2>2, <2>5, <2>6 DEF RunInv
<1>2. ASSUME NEW x \in Handlers, Acquire(x) PROVE DiskInv' /\ RunInv'
  <2>1. rules' = rules /\ disk' = disk /\ runtimes' = runtimes /\ prev' = prev
        /\ req' = req /\ boot' = boot /\ pc[x] = "lock"
        /\ pc' = [pc EXCEPT ![x] = FirstStep(req[x].act)]
    BY <1>2 DEF Acquire, Goto
  <2>2. \A y \in Handlers : ~ Busy(y)
    BY <1>2, NoHandlerAssumption DEF Acquire, TypeInv, LockInv, Busy
  <2>3. req[x].id \in RuleIds /\ req[x].act \in {"upsert", "start", "stop", "delete"}
    BY <2>1, BusyId, RequestFields
  <2>4. FirstStep(req[x].act) \in {"upsert", "enable", "stop", "delete"}
        /\ (FirstStep(req[x].act) = "stop" => req[x].act # "upsert")
    BY <2>3 DEF FirstStep
  <2>5. \A j \in RuleIds : Match(j)'
    BY <2>1, <2>2 DEF RunInv, Match
  <2>6. DiskInv'
    BY <2>1, <2>2, <2>4, <1>a DEF DiskInv, Busy, Persisting
  <2>7. \A y \in Handlers : Busy(y)' => y = x
    BY <2>1, <2>2, <1>a DEF Busy
  <2>8. OperationInv(x)'
    BY <2>1, <2>3, <2>4, <2>5, <1>a DEF OperationInv
  <2>9. boot' = {}
    BY <2>1 DEF RunInv
  <2> QED
    BY <2>5, <2>6, <2>7, <2>8, <2>9 DEF RunInv
<1>3. ASSUME NEW x \in Handlers, HandlerStep(x) PROVE DiskInv' /\ RunInv'
  BY <1>3, RunHandlerStep
<1>4. ASSUME NEW x \in Handlers, PersistFails(x) PROVE DiskInv' /\ RunInv'
  BY <1>4 DEF PersistFails
<1>5. CASE BootStep
  <2>1. PICK j \in RuleIds : BootStart(j) \/ BootStartFails(j)
    BY <1>5 DEF BootStep
  <2>2. rules' = rules /\ disk' = disk /\ pc' = pc /\ req' = req /\ boot' \subseteq boot
        /\ j \in boot
        /\ (runtimes' = runtimes \/ runtimes' = [runtimes EXCEPT ![j] = rules[j]])
    BY <2>1 DEF BootStart, BootStartFails
  <2>3. \A y \in Handlers : pc'[y] = "idle"
    BY <2>2 DEF RunInv
  <2>4. \A k \in RuleIds : Match(k)
    BY <2>2 DEF RunInv, Busy
  <2>5. \A k \in RuleIds : Match(k)'
    BY <2>2, <2>4, <1>a DEF RunInv, Match, Config
  <2> QED
    BY <2>2, <2>3, <2>5 DEF DiskInv, RunInv, Busy
<1>6. CASE Tick \/ UNCHANGED vars \/ \E j \in RuleIds : ListenerExpires(j)
  BY <1>6 DEF Tick, vars, ListenerExpires, DiskInv, RunInv, OperationInv, Match, Busy
<1>7. CASE Crash
  BY <1>7 DEF Crash, DiskInv, RunInv, Match, Busy, EmptyConfig
<1> QED
  BY <1>1, <1>2, <1>3, <1>4, <1>5, <1>6, <1>7 DEF Next

(* While the configuration can be written, status never reports a rule     *)
(* that differs from the one its listener runs, and a crash between        *)
(* operations loses nothing.                                               *)
THEOREM IdleIsConsistent ==
    ASSUME ~ DiskMayFail
    PROVE  Spec => [](RuntimeMatchesRule /\ DurableWhenIdle)
<1> DEFINE Inv == TypeInv /\ DiskInv /\ RunInv
<1>1. Init => Inv
  BY TypeInit, RunInit
<1>2. Inv /\ [Next]_vars => Inv'
  BY TypeStep, RunStep
<1>3. Inv => RuntimeMatchesRule /\ DurableWhenIdle
  <2> SUFFICES ASSUME Inv, lock = NoHandler PROVE RuntimeMatchesRule /\ DurableWhenIdle
    BY DEF RuntimeMatchesRule, DurableWhenIdle
  <2>1. \A x \in Handlers : ~ Busy(x)
    BY NoHandlerAssumption DEF TypeInv, LockInv, Busy
  <2>2. disk = rules
    BY <2>1 DEF DiskInv, Busy, Persisting
  <2>3. \A i \in RuleIds : Match(i)
    BY <2>1 DEF RunInv
  <2> QED
    BY <2>2, <2>3 DEF RuntimeMatchesRule, DurableWhenIdle, Match
<1> QED
  BY <1>1, <1>2, <1>3, PTL DEF Spec

(* While the configuration can be written, a crash between two operations  *)
(* loses nothing: load finds in the file what the rule map held.           *)
THEOREM FileIsCurrent ==
    ASSUME ~ DiskMayFail
    PROVE  Spec => []DurableWhenIdle
<1>1. RuntimeMatchesRule /\ DurableWhenIdle => DurableWhenIdle
  OBVIOUS
<1> QED
  BY <1>1, IdleIsConsistent, PTL
-----------------------------------------------------------------------------
(* The refinement of RuleTable. *)

(* A change of one rule that finds the file up to date and the port free   *)
(* is a change of the abstract table.                                      *)
LEMMA ChangeIsTableStep ==
    ASSUME NEW id \in RuleIds, NEW r \in Rule \cup {NoRule},
           disk = rules, r = NoRule \/ ~ PortTaken(rules, id, r),
           rules' = [rules EXCEPT ![id] = r], disk' = disk
    PROVE  Table!TableNext
  BY DEF Table!TableNext, Table!Change, Table!PortTaken, PortTaken, Table!Rule, Rule,
         Table!Ports, Ports

(* Between the daemon's steps that are not about to write, the file is up  *)
(* to date: no other handler can be writing either.                        *)
LEMMA FileUpToDate ==
    ASSUME TypeInv, DiskInv, NEW x \in Handlers, Busy(x), pc[x] \notin Persisting
    PROVE  disk = rules
  BY DEF TypeInv, LockInv, DiskInv, Busy, Persisting

(* Every step of a handler is a step of the abstract table. *)
LEMMA HandlerRefines ==
    ASSUME TypeInv, PortInv, DiskInv, NEW x \in Handlers, HandlerStep(x)
    PROVE  Table!TableNext \/ UNCHANGED <<rules, disk>>
<1> DEFINE id == req[x].id
<1>0. Busy(x) /\ id \in RuleIds /\ rules \in Config /\ prev[x] \in Rule \cup {NoRule}
  BY BusyId
     DEF HandlerStep, UpsertConflict, UpsertUnchanged, UpsertInsert, UpsertPersist,
         Rollback, RollbackPersist, StartCheck, StartRefused, Bind, BindFails,
         NotFound, StopDisable, StopPersist, StopRuntime, EnableRule, EnablePersist,
         DeleteStop, DeleteRemove, DeletePersist, Persist, PersistAndReply, SetEnabled,
         Busy, TypeInv, TypeOK
<1>1. CASE UpsertConflict(x) \/ UpsertUnchanged(x) \/ NotFound(x) \/ StartCheck(x)
           \/ StartRefused(x) \/ Bind(x) \/ BindFails(x) \/ StopRuntime(x) \/ DeleteStop(x)
  BY <1>1 DEF UpsertConflict, UpsertUnchanged, NotFound, StartCheck, StartRefused,
              Bind, BindFails, StopRuntime, DeleteStop
<1>2. CASE UpsertPersist(x) \/ RollbackPersist(x) \/ StopPersist(x) \/ EnablePersist(x)
           \/ DeletePersist(x)
  <2>1. disk' = rules /\ rules' = rules
    BY <1>2 DEF UpsertPersist, RollbackPersist, StopPersist, EnablePersist,
                DeletePersist, Persist, PersistAndReply
  <2> QED
    BY <2>1 DEF Table!TableNext, Table!Save
<1>3. CASE UpsertInsert(x)
  <2>1. disk = rules
    BY <1>3, <1>0, FileUpToDate DEF UpsertInsert, Persisting
  <2>2. req[x].rule \in Rule
    BY <1>3, BusyId, RequestFields DEF UpsertInsert, TypeInv, ReqInv
  <2> QED
    BY <1>3, <1>0, <2>1, <2>2, ChangeIsTableStep DEF UpsertInsert
<1>4. CASE Rollback(x)
  <2>1. disk = rules
    BY <1>4, <1>0, FileUpToDate DEF Rollback, Persisting
  <2>2. prev[x] = NoRule \/ ~ PortTaken(rules, id, prev[x])
    BY <1>4 DEF Rollback, PortInv, PrevFree, TypeInv, ReqInv
  <2> QED
    BY <1>4, <1>0, <2>1, <2>2, ChangeIsTableStep DEF Rollback
<1>5. CASE StopDisable(x) \/ EnableRule(x)
  <2>1. disk = rules
    BY <1>5, <1>0, FileUpToDate DEF StopDisable, EnableRule, SetEnabled, Persisting
  <2>2. rules[id] \in Rule
    BY <1>5, <1>0 DEF StopDisable, EnableRule, SetEnabled, Config
  <2>3. PICK r \in Rule : /\ r.port = rules[id].port
                          /\ rules' = [rules EXCEPT ![id] = r] /\ disk' = disk
    <3>1. \A flag \in BOOLEAN : /\ [rules[id] EXCEPT !.enabled = flag] \in Rule
                                /\ [rules[id] EXCEPT !.enabled = flag].port = rules[id].port
      BY <2>2 DEF Rule
    <3> QED
      BY <1>5, <3>1 DEF StopDisable, EnableRule, SetEnabled
  <2>4. ~ PortTaken(rules, id, rules[id])
    BY <1>0, <1>5, OwnPortIsFree DEF PortInv, NoPortClash, StopDisable, EnableRule, SetEnabled
  <2>5. ~ PortTaken(rules, id, r)
    BY <2>3, <2>4 DEF PortTaken
  <2> QED
    BY <1>0, <2>1, <2>3, <2>5, ChangeIsTableStep
<1>6. CASE DeleteRemove(x)
  <2>1. disk = rules
    BY <1>6, <1>0, FileUpToDate DEF DeleteRemove, Persisting
  <2> QED
    BY <1>6, <1>0, <2>1, ChangeIsTableStep DEF DeleteRemove
<1> QED
  BY <1>1, <1>2, <1>3, <1>4, <1>5, <1>6 DEF HandlerStep

(* Every step of the daemon is a step of the abstract table or none. *)
LEMMA StepRefines ==
    ASSUME ~ DiskMayFail, TypeInv, PortInv, DiskInv, [Next]_vars
    PROVE  [Table!TableNext]_(Table!tableVars)
<1> SUFFICES Table!TableNext \/ UNCHANGED <<rules, disk>>
  BY DEF Table!tableVars
<1>1. CASE \E x \in Handlers : HandlerStep(x)
  BY <1>1, HandlerRefines
<1>2. CASE \E x \in Handlers : (\E r \in Request : Receive(x, r)) \/ Acquire(x)
  BY <1>2 DEF Receive, Acquire
<1>3. CASE BootStep \/ Tick \/ \E id \in RuleIds : ListenerExpires(id)
  BY <1>3 DEF BootStep, BootStart, BootStartFails, Tick, ListenerExpires
<1>4. CASE Crash
  BY <1>4 DEF Crash, Table!TableNext, Table!Recover
<1>5. CASE UNCHANGED vars
  BY <1>5 DEF vars
<1>6. ~ \E x \in Handlers : PersistFails(x)
  BY DEF PersistFails
<1> QED
  BY <1>1, <1>2, <1>3, <1>4, <1>5, <1>6 DEF Next

(* The daemon implements RuleTable when writing the configuration succeeds: *)
(* every interleaving of handlers, failed binds, rollbacks and crashes is,  *)
(* seen through the rule map and the file, a run of the abstract table.     *)
THEOREM DaemonImplementsTable ==
    ASSUME ~ DiskMayFail
    PROVE  Spec => ImplementsTable
<1> DEFINE Inv == TypeInv /\ PortInv /\ DiskInv /\ RunInv
<1>1. Init => Inv
  BY TypeInit, PortInit, RunInit
<1>2. Inv /\ [Next]_vars => Inv'
  BY TypeStep, PortStep, RunStep
<1>3. Init => Table!TableInit
  BY DEF Init, Table!TableInit, Table!EmptyConfig, EmptyConfig
<1>4. Inv /\ [Next]_vars => [Table!TableNext]_(Table!tableVars)
  BY StepRefines
<1> QED
  BY <1>1, <1>2, <1>3, <1>4, PTL DEF Spec, ImplementsTable, Table!TableSpec
-----------------------------------------------------------------------------
(* The outcome of an upsert. *)

(* What the rule map holds for the id of an upsert, by where its handler   *)
(* is: the rule it was given until the start fails, the previous rule once *)
(* the rollback has put it back.  Only a disabled rule goes through        *)
(* stop_rule, and an upsert never comes to the steps of a deletion.        *)
UpsertInv ==
    \A x \in Handlers :
        pc[x] # "idle" /\ req[x].act = "upsert" =>
          /\ pc[x] \in {"upsertPersist", "start", "bind", "rollback",
                        "stop", "stopPersist", "stopRuntime"} => rules[req[x].id] = req[x].rule
          /\ pc[x] \in {"stop", "stopPersist", "stopRuntime"} => ~ req[x].rule.enabled
          /\ pc[x] \in {"rollbackPersist", "restore", "restoreBind"} =>
               rules[req[x].id] = prev[x]
          /\ pc[x] \notin {"delete", "deleteRemove", "deletePersist"}

(* A step of the holder of operation_lock that leaves its own upsert in    *)
(* order leaves every upsert in order: the other handlers only wait.       *)
LEMMA UpsertOwnStep ==
    ASSUME TypeInv, UpsertInv, NEW x \in Handlers, Busy(x),
           \A y \in Handlers \ {x} : pc'[y] = pc[y] /\ req'[y] = req[y],
           pc'[x] = "idle" \/ req'[x].act # "upsert" \/
             /\ pc'[x] \in {"upsertPersist", "start", "bind", "rollback",
                            "stop", "stopPersist", "stopRuntime"} =>
                  rules'[req'[x].id] = req'[x].rule
             /\ pc'[x] \in {"stop", "stopPersist", "stopRuntime"} => ~ req'[x].rule.enabled
             /\ pc'[x] \in {"rollbackPersist", "restore", "restoreBind"} =>
                  rules'[req'[x].id] = prev'[x]
             /\ pc'[x] \notin {"delete", "deleteRemove", "deletePersist"}
    PROVE  UpsertInv'
<1>1. \A y \in Handlers \ {x} : pc'[y] \in {"idle", "lock"}
  BY DEF TypeInv, LockInv, Busy
<1> QED
  BY <1>1 DEF UpsertInv

(* Every step keeps the rule of an upsert in order. *)
LEMMA UpsertStep == TypeInv /\ UpsertInv /\ [Next]_vars => UpsertInv'
<1> SUFFICES ASSUME TypeInv, UpsertInv, [Next]_vars PROVE UpsertInv'
  OBVIOUS
<1>a. rules \in Config /\ pc \in [Handlers -> Where]
      /\ req \in [Handlers -> Request \cup {NoRequest}]
      /\ prev \in [Handlers -> Rule \cup {NoRule}]
  BY DEF TypeInv, TypeOK
<1>1. ASSUME NEW x \in Handlers, NEW r \in Request, Receive(x, r) PROVE UpsertInv'
  BY <1>1, <1>a DEF Receive, Goto, UpsertInv
<1>2. ASSUME NEW x \in Handlers, Acquire(x) PROVE UpsertInv'
  <2>1. req[x].act \in {"upsert", "start", "stop", "delete"}
    BY <1>2, BusyId, RequestFields DEF Acquire
  <2> QED
    BY <1>2, <1>a, <2>1 DEF Acquire, Goto, FirstStep, UpsertInv
<1>3. ASSUME NEW x \in Handlers, HandlerStep(x) PROVE UpsertInv'
  <2>0. Busy(x) /\ req[x] \in Request /\ req[x].id \in RuleIds /\ pc[x] # "idle"
    BY <1>3, BusyId
       DEF Busy, HandlerStep, UpsertConflict, UpsertUnchanged, UpsertInsert, UpsertPersist,
           Rollback, RollbackPersist, StartCheck, StartRefused, Bind, BindFails,
           NotFound, StopDisable, StopPersist, StopRuntime, EnableRule, EnablePersist,
           DeleteStop, DeleteRemove, DeletePersist, Persist, PersistAndReply, SetEnabled
  <2>1. CASE UpsertConflict(x) \/ UpsertUnchanged(x) \/ NotFound(x) \/ Bind(x)
             \/ StopRuntime(x) \/ DeletePersist(x)
    BY <2>1, <2>0, <1>a, UpsertOwnStep
       DEF UpsertConflict, UpsertUnchanged, NotFound, Bind, StopRuntime, DeletePersist,
           PersistAndReply, Reply, Goto
  <2>2. CASE UpsertInsert(x)
    BY <2>2, <2>0, <1>a, UpsertOwnStep DEF UpsertInsert, Goto, Config
  <2>3. CASE UpsertPersist(x) \/ StopPersist(x) \/ EnablePersist(x)
    BY <2>3, <2>0, <1>a, UpsertOwnStep
       DEF UpsertPersist, StopPersist, EnablePersist, Persist, Goto, UpsertInv, TypeInv, ReqInv
  <2>4. CASE Rollback(x)
    BY <2>4, <2>0, <1>a, UpsertOwnStep DEF Rollback, Goto, Config
  <2>5. CASE RollbackPersist(x)
    BY <2>5, <2>0, <1>a, UpsertOwnStep
       DEF RollbackPersist, Persist, PersistAndReply, Reply, Goto, UpsertInv
  <2>6. CASE StartCheck(x)
    BY <2>6, <2>0, <1>a, UpsertOwnStep DEF StartCheck, Goto, UpsertInv
  <2>7. CASE StartRefused(x) \/ BindFails(x)
    BY <2>7, <2>0, <1>a, UpsertOwnStep
       DEF StartRefused, BindFails, StartFailed, Reply, Goto, UpsertInv
  <2>8. CASE StopDisable(x)
    <3>1. rules' = [rules EXCEPT ![req[x].id] = [rules[req[x].id] EXCEPT !.enabled = FALSE]]
          /\ pc[x] = "stop" /\ pc' = [pc EXCEPT ![x] = "stopPersist"]
          /\ req' = req /\ prev' = prev
      BY <2>8, <2>0, <1>a DEF StopDisable, SetEnabled, Goto
    <3>2. ASSUME NEW r \in Rule, ~ r.enabled PROVE [r EXCEPT !.enabled = FALSE] = r
      BY <3>2 DEF Rule
    <3>3. req[x].act = "upsert" => /\ req[x].rule \in Rule /\ ~ req[x].rule.enabled
                                   /\ rules[req[x].id] = req[x].rule
      BY <3>1, <2>0, RequestFields DEF UpsertInv
    <3>4. req[x].act = "upsert" => rules'[req[x].id] = req[x].rule
      BY <3>1, <3>2, <3>3, <2>0, <1>a DEF Config
    <3> QED
      BY <3>1, <3>3, <3>4, <2>0, <1>a, UpsertOwnStep
  <2>9. CASE EnableRule(x) \/ DeleteStop(x) \/ DeleteRemove(x)
    <3>1. req[x].act # "upsert" /\ req' = req
          /\ \A y \in Handlers \ {x} : pc'[y] = pc[y]
      BY <2>9, <2>0, <1>a DEF EnableRule, SetEnabled, DeleteStop, DeleteRemove, Goto,
                            UpsertInv, TypeInv, ReqInv
    <3> QED
      BY <3>1, <2>0, UpsertOwnStep
  <2> QED
    BY <1>3, <2>1, <2>2, <2>3, <2>4, <2>5, <2>6, <2>7, <2>8, <2>9 DEF HandlerStep
<1>4. ASSUME NEW x \in Handlers, PersistFails(x) PROVE UpsertInv'
  <2>1. Busy(x)
    BY <1>4 DEF PersistFails, Busy
  <2> QED
    BY <1>4, <2>1, <1>a, UpsertOwnStep DEF PersistFails, Reply, Goto
<1>5. CASE BootStep
  BY <1>5 DEF BootStep, BootStart, BootStartFails, UpsertInv
<1>6. CASE Tick \/ UNCHANGED vars \/ \E j \in RuleIds : ListenerExpires(j)
  BY <1>6 DEF Tick, vars, ListenerExpires, UpsertInv
<1>7. CASE Crash
  BY <1>7 DEF Crash, UpsertInv
<1> QED
  BY <1>1, <1>2, <1>3, <1>4, <1>5, <1>6, <1>7 DEF Next

(* A step that ends an upsert past its checks, while the file is up to     *)
(* date outside the writes, leaves the new rule or the previous one.       *)
LEMMA UpsertEnds ==
    ASSUME TypeInv, DiskInv, UpsertInv, NEW x \in Handlers, HandlerStep(x),
           lock' = NoHandler, req[x].act = "upsert", pc[x] # "upsert"
    PROVE  LET id == req[x].id
               r  == req[x].rule
           IN \/ /\ rules'[id] = r /\ disk'[id] = r
                 /\ r.enabled => runtimes'[id] = r
              \/ rules'[id] = prev[x] /\ disk'[id] = prev[x]
<1>0. /\ Busy(x) /\ req[x].id \in RuleIds /\ pc[x] # "idle" /\ lock = x
      /\ lock # NoHandler /\ runtimes \in Config
  BY BusyId, NoHandlerAssumption
     DEF Busy, HandlerStep, UpsertConflict, UpsertUnchanged, UpsertInsert, UpsertPersist,
         Rollback, RollbackPersist, StartCheck, StartRefused, Bind, BindFails,
         NotFound, StopDisable, StopPersist, StopRuntime, EnableRule, EnablePersist,
         DeleteStop, DeleteRemove, DeletePersist, Persist, PersistAndReply, SetEnabled,
         TypeInv, TypeOK, LockInv
<1>1. pc[x] \notin Persisting => disk = rules
  BY <1>0, FileUpToDate
<1>2. CASE Bind(x)
  BY <1>2, <1>0, <1>1 DEF Bind, UpsertInv, Persisting, Config
<1>3. CASE StopRuntime(x)
  BY <1>3, <1>0, <1>1 DEF StopRuntime, UpsertInv, Persisting
<1>4. CASE StartRefused(x) \/ BindFails(x)
  BY <1>4, <1>0, <1>1 DEF StartRefused, BindFails, StartFailed, UpsertInv, Persisting
<1>5. CASE RollbackPersist(x)
  BY <1>5, <1>0 DEF RollbackPersist, Persist, PersistAndReply, UpsertInv
<1>6. CASE NotFound(x)
  <2>1. req[x].rule \in Rule
    BY <1>0, BusyId, RequestFields
  <2> QED
    BY <1>6, <2>1, <1>0, NoRuleAssumption DEF NotFound, UpsertInv, TypeInv, ReqInv
<1>7. CASE DeletePersist(x) \/ UpsertConflict(x) \/ UpsertUnchanged(x)
  BY <1>7, <1>0 DEF DeletePersist, PersistAndReply, UpsertConflict, UpsertUnchanged, UpsertInv
<1>8. CASE UpsertInsert(x) \/ UpsertPersist(x) \/ Rollback(x) \/ StartCheck(x)
           \/ StopDisable(x) \/ StopPersist(x) \/ EnableRule(x) \/ EnablePersist(x)
           \/ DeleteStop(x) \/ DeleteRemove(x)
  BY <1>8, <1>0 DEF UpsertInsert, UpsertPersist, Rollback, StartCheck, StopDisable,
                    StopPersist, EnableRule, EnablePersist, DeleteStop, DeleteRemove,
                    Persist, SetEnabled
<1> QED
  BY <1>2, <1>3, <1>4, <1>5, <1>6, <1>7, <1>8 DEF HandlerStep

(* An upsert is all or nothing when writing the configuration succeeds:    *)
(* whatever binds fail and whatever else waits, it ends with the rule it   *)
(* was given, saved and running if enabled, or with the previous rule in   *)
(* the map and in the file.                                                *)
THEOREM UpsertAllOrNothing ==
    ASSUME ~ DiskMayFail
    PROVE  Spec => UpsertIsAtomic
<1> DEFINE Inv == TypeInv /\ DiskInv /\ RunInv /\ UpsertInv
<1>1. Init => Inv
  BY TypeInit, RunInit DEF Init, UpsertInv
<1>2. Inv /\ [Next]_vars => Inv'
  BY TypeStep, RunStep, UpsertStep
<1> DEFINE Atomic ==
        \A x \in Handlers :
          HandlerStep(x) /\ lock' = NoHandler
          /\ req[x].act = "upsert" /\ pc[x] # "upsert" =>
            LET id == req[x].id
                r  == req[x].rule
            IN \/ /\ rules'[id] = r /\ disk'[id] = r
                  /\ r.enabled => runtimes'[id] = r
               \/ rules'[id] = prev[x] /\ disk'[id] = prev[x]
<1>3. Inv /\ [Next]_vars => [Atomic]_vars
  BY UpsertEnds
<1>4. UpsertIsAtomic <=> [][Atomic]_vars
  BY DEF UpsertIsAtomic
<1> HIDE DEF Inv, Atomic
<1> QED
  BY <1>1, <1>2, <1>3, <1>4, PTL DEF Spec
=============================================================================
