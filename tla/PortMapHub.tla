----------------------------- MODULE PortMapHub -----------------------------
(***************************************************************************)
(* The Hub's half of port mapping (hub.py, with the handlers installed     *)
(* over it by labrelay_sync_patch.py, portmap_persistence_patch.py and     *)
(* hub0934_fixes.py): the document of desired rules, the queue of commands *)
(* for the router's agent, and the last status the agent reported.         *)
(*                                                                         *)
(* A handler runs under DATA_LOCK: no other handler starts while `todo',   *)
(* the commands the status handler has still to queue, is not empty.  Its  *)
(* documents are saved one by one, so a crash may keep only the first.     *)
(*                                                                         *)
(* `rows' are the rows of portmaps.json in saved order.  A POST may carry  *)
(* the id of an existing rule, so an id can have several rows.  `cmds'     *)
(* holds the commands of portmap_commands.json that are still open; the    *)
(* finished ones stay in the document for a day, but nothing reads them.   *)
(***************************************************************************)
EXTENDS RelayRules, Sequences, SequencesExt

CONSTANTS
    MaxRows,      \* rows modelled in the rules document (the code keeps 100)
    CmdIds,       \* command ids, a set of naturals, reused once nobody holds them
    MaxAttempts,  \* deliveries after which a delivered command is not retried (5)
    PollLimit     \* commands handed out by one poll (20)

ASSUME RuleIdsAssumption  == IsFiniteSet(RuleIds)
ASSUME AttemptsAssumption == MaxAttempts \in Nat

VARIABLES
    docSaved,   \* portmaps.json exists and is readable
    rows,       \* its rows
    cmds,       \* open commands, oldest first
    reported,   \* portmap_router_status.json: the rules of the last status
    todo        \* what reconcile has still to queue for that status

hubVars == <<docSaved, rows, cmds, reported, todo>>

(* A row: a rule with its id. *)
Row == [id : RuleIds, rule : Rule]

Command == [cid : CmdIds, act : {"upsert", "stop", "delete"}, id : RuleIds,
            rule : Rule \cup {NoRule}, status : {"pending", "delivered"},
            attempts : 0 .. MaxAttempts]

(* What reconcile has still to queue. *)
Repair == [act : {"upsert", "delete"}, id : RuleIds, rule : Rule \cup {NoRule}]

(* The types of the Hub's documents. *)
HubTypeOK ==
    /\ docSaved \in BOOLEAN
    /\ rows \in Seq(Row)
    /\ cmds \in Seq(Command)
    /\ reported \in Config
    /\ todo \in Seq(Repair)

(* DATA_LOCK is free: no handler is under way. *)
Unlocked == todo = <<>>

(* The elements of s at the positions of K, in their order. *)
Rank(K, k) == Cardinality({j \in K : j <= k})

Keep(s, K) == [n \in 1 .. Cardinality(K) |-> s[CHOOSE k \in K : Rank(K, k) = n]]
-----------------------------------------------------------------------------
(* _load_portmap_rules, as a map: a missing document reads as no rules, and *)
(* the last of several rows with one id wins.                               *)
Desired ==
    [i \in RuleIds |->
        LET S == {k \in DOMAIN rows : rows[k].id = i}
        IN IF S = {} THEN NoRule ELSE rows[Max(S)].rule]

(* Arrangements of rows by listen port, which save_rules sorts by; rows of *)
(* one port follow their names, which are not modelled, in any order.      *)
Sorted(rs) ==
    {q \in {[k \in DOMAIN rs |-> rs[p[k]]] : p \in Bijection(DOMAIN rs, DOMAIN rs)} :
        \A j, k \in DOMAIN rs : j < k => q[j].rule.port <= q[k].rule.port}

save_portmap_rules(rs) == docSaved' = TRUE /\ rows' \in Sorted(rs)

(* Mutant: rows of disabled rules do not count. *)
conflict_with_enabled_only(id, r) ==
    \A k \in DOMAIN rows :
        rows[k].id # id /\ rows[k].rule.enabled => rows[k].rule.port # r.port

(* portmap_check_conflict accepts the rule: no row of another id has its port. *)
portmap_check_conflict(id, r) ==
    \A k \in DOMAIN rows : rows[k].id # id => rows[k].rule.port # r.port

(* The ids that are on no command of cs and that nobody else holds. *)
FreshIds(cs, held) == CmdIds \ (held \cup {cs[k].cid : k \in DOMAIN cs})

(* Mutant: a command that was handed out is not merged into. *)
queue_beside_delivered(cs, act, id, r, held) ==
    LET same == {k \in DOMAIN cs : cs[k].act = act /\ cs[k].id = id
                                   /\ cs[k].status = "pending"}
    IN IF same # {}
         THEN [cs EXCEPT ![Max(same)].rule = r]
         ELSE Append(cs, [cid |-> CHOOSE c \in FreshIds(cs, held) : TRUE, act |-> act, id |-> id,
                          rule |-> r, status |-> "pending", attempts |-> 0])

(* queue_portmap_command: merge into the newest open command with the same *)
(* action and rule, keeping its id and its place, or append a new one.      *)
queue_portmap_command(cs, act, id, r, held) ==
    LET same == {k \in DOMAIN cs : cs[k].act = act /\ cs[k].id = id}
    IN IF same # {}
         THEN [cs EXCEPT ![Max(same)].rule = r, ![Max(same)].status = "pending"]
         ELSE Append(cs, [cid |-> CHOOSE c \in FreshIds(cs, held) : TRUE, act |-> act, id |-> id,
                          rule |-> r, status |-> "pending", attempts |-> 0])

(* Queue the command of an APP request, unless the Hub dies after its first save. *)
Queue(act, id, r, held, crash) ==
    /\ Unlocked
    /\ FreshIds(cmds, held) # {}     \* the bound CmdIds
    /\ cmds' = IF crash THEN cmds ELSE queue_portmap_command(cmds, act, id, r, held)
    /\ UNCHANGED <<reported, todo>>
-----------------------------------------------------------------------------
(* Requests of the APP.  `held' are the command ids in use outside the Hub. *)

(* POST /api/portmaps *)
Create(id, r, held, crash) ==
    /\ Len(rows) < MaxRows
    /\ portmap_check_conflict(id, r)
    /\ save_portmap_rules(Append(rows, [id |-> id, rule |-> r]))
    /\ Queue("upsert", id, r, held, crash)

Replace(id, r) ==
    [k \in DOMAIN rows |-> IF rows[k].id = id THEN [rows[k] EXCEPT !.rule = r] ELSE rows[k]]

First(id) == rows[Min({k \in DOMAIN rows : rows[k].id = id})].rule

Exists(id) == \E k \in DOMAIN rows : rows[k].id = id

(* PUT /api/portmaps/<id> *)
Update(id, r, held, crash) ==
    /\ Exists(id)
    /\ portmap_check_conflict(id, r)
    /\ save_portmap_rules(Replace(id, r))
    /\ Queue("upsert", id, r, held, crash)

(* DELETE /api/portmaps/<id> *)
Delete(id, held, crash) ==
    /\ Exists(id)
    /\ save_portmap_rules(Keep(rows, {k \in DOMAIN rows : rows[k].id # id}))
    /\ Queue("delete", id, NoRule, held, crash)

(* POST /api/portmaps/<id>/stop *)
Stop(id, held, crash) ==
    /\ Exists(id)
    /\ save_portmap_rules(Replace(id, [First(id) EXCEPT !.enabled = FALSE]))
    /\ Queue("stop", id, NoRule, held, crash)

(* POST /api/portmaps/<id>/start: an expired rule gets a fresh lease. *)
Start(id, t, held, crash) ==
    LET old == First(id)
        r   == [old EXCEPT !.enabled = TRUE,
                           !.exp = IF IsExpired(old, t) THEN t + 1 ELSE @]
    IN /\ Exists(id)
       /\ r.exp <= MaxExp
       /\ save_portmap_rules(Replace(id, r))
       /\ Queue("upsert", id, r, held, crash)
-----------------------------------------------------------------------------
(* Requests of the router's agent. *)

(* GET .../commands: the commands handed out are the pending ones and those *)
(* of `due', delivered at least 15 s ago and not too often.                 *)
Retriable == {k \in DOMAIN cmds : cmds[k].status = "delivered"
                                  /\ cmds[k].attempts < MaxAttempts}

Selected(due) ==
    LET all == {k \in DOMAIN cmds : cmds[k].status = "pending"} \cup due
    IN {k \in all : Rank(all, k) <= PollLimit}

Poll(due) ==
    /\ Unlocked
    /\ cmds' = [k \in DOMAIN cmds |->
                  IF k \in Selected(due)
                    THEN [cmds[k] EXCEPT !.status = "delivered",
                                         !.attempts = Min({@ + 1, MaxAttempts})]
                    ELSE cmds[k]]
    /\ UNCHANGED <<docSaved, rows, reported, todo>>

(* What the agent receives, oldest first. *)
Batch(due) ==
    Keep([k \in DOMAIN cmds |-> [cid |-> cmds[k].cid, act |-> cmds[k].act,
                                 id |-> cmds[k].id, rule |-> cmds[k].rule]],
         Selected(due))

(* Mutant: an acknowledged command is marked but stays among the open ones. *)
AckedStaysOpen(cids) ==
    /\ Unlocked
    /\ cmds' = [k \in DOMAIN cmds |-> IF cmds[k].cid \in cids
                  THEN [cmds[k] EXCEPT !.status = "done"] ELSE cmds[k]]
    /\ UNCHANGED <<docSaved, rows, reported, todo>>

(* POST .../ack: every acknowledged command is finished, done or failed, *)
(* whatever happened to it since it was handed out.                      *)
Acked(cids) ==
    /\ Unlocked
    /\ cmds' = Keep(cmds, {k \in DOMAIN cmds : cmds[k].cid \notin cids})
    /\ UNCHANGED <<docSaved, rows, reported, todo>>

(* Mutant: surplus rules of the router are left alone. *)
DriftWithoutDeletes(local) ==
    LET ids == SetToSeq({i \in RuleIds : Desired[i] \notin {NoRule, local[i]}})
    IN {[k \in DOMAIN ids |-> [act |-> "upsert", id |-> ids[k], rule |-> Desired[ids[k]]]]}

(* The commands reconcile queues for a reported configuration: an upsert    *)
(* for every desired rule that is missing or differs, in the order of the   *)
(* document, then a delete for every reported rule that is not desired, in  *)
(* any order, for they are the elements of a Python set.                    *)
Drift(local) ==
    LET want   == Desired
        differ == {i \in RuleIds : local[i] # want[i]}
        pos(i) == Min({k \in DOMAIN rows : rows[k].id = i} \cup {Len(rows) + 1})
        Order  == {ids \in Bijection(1 .. Cardinality(differ), differ) :
                     \A j, k \in DOMAIN ids : j < k => pos(ids[j]) <= pos(ids[k])}
    IN {[k \in DOMAIN ids |->
            [act |-> IF want[ids[k]] # NoRule THEN "upsert" ELSE "delete",
             id |-> ids[k], rule |-> want[ids[k]]]] : ids \in Order}

(* POST .../status: store the report, then reconcile command by command. *)
Status(local) ==
    /\ Unlocked
    /\ reported' = local
    /\ todo' \in Drift(local)
    /\ UNCHANGED <<docSaved, rows, cmds>>

ReconcileStep(held) ==
    /\ ~ Unlocked
    /\ FreshIds(cmds, held) # {}     \* the bound CmdIds
    /\ LET c == Head(todo)
       IN cmds' = queue_portmap_command(cmds, c.act, c.id, c.rule, held)
    /\ todo' = Tail(todo)
    /\ UNCHANGED <<docSaved, rows, reported>>

(* The Hub restarts, in the middle of reconcile perhaps.                    *)
(* _prune_redundant_portmap_commands: an upsert whose rule the last report  *)
(* shows running as desired is closed undelivered.  Any subset of the       *)
(* enabled rules may have been reported as running.                         *)
Restart(running) ==
    /\ running \subseteq {i \in RuleIds : reported[i] # NoRule /\ reported[i].enabled}
    /\ cmds' = Keep(cmds, {k \in DOMAIN cmds : LET c == cmds[k] IN
                  ~ (c.act = "upsert" /\ c.id \in running /\ Desired[c.id] = reported[c.id])})
    /\ todo' = <<>>
    /\ UNCHANGED <<docSaved, rows, reported>>
-----------------------------------------------------------------------------
(* The queue never holds two open commands for one action on one rule:     *)
(* merging keeps it at most three commands per rule however often the APP  *)
(* edits and however often reconcile runs.                                 *)
OneOpenCommand ==
    \A j, k \in DOMAIN cmds :
        cmds[j].act = cmds[k].act /\ cmds[j].id = cmds[k].id => j = k

(* The desired rules, once the last row of each id has won, never claim a  *)
(* port twice, so there is always a configuration the router could reach.  *)
DesiredConflictFree == ConflictFree(Desired)
=============================================================================
