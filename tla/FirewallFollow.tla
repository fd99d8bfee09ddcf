--------------------------- MODULE FirewallFollow ---------------------------
(***************************************************************************)
(* Firewall automation (router/firewall_automation.py): a binding adopts a *)
(* firewall rule of the router and lets the Hub write the address of a     *)
(* port mapping's target into one field of it.  A rule that somebody       *)
(* changed on the router suspends its binding.  reconcile is run by the    *)
(* thread of router_config_sync_patch.py, which also keeps the snapshot of *)
(* the firewall that the APP is shown, and by requests of the APP.         *)
(*                                                                         *)
(* One rule with its binding; bindings share nothing but the lock and the  *)
(* limit of one write per cycle.  The rule's controlled field is "addr",   *)
(* everything else its fingerprint covers is "rest".  The mapping behind   *)
(* the binding is seen through the address resolve returns, None when the  *)
(* mapping is missing, unreadable or no longer fits the rule.              *)
(*                                                                         *)
(* A request of the APP holds DATA_LOCK from start to end (hub.py), and    *)
(* load_json and save_json take it: the thread waits for it whenever it    *)
(* touches the bindings document while a request is being served.          *)
(***************************************************************************)
EXTENDS Integers, FiniteSets

CONSTANTS
    Addrs,        \* addresses
    Rests,        \* contents of the other fields
    None,         \* no address, no binding
    Gone,         \* the rule is not on the router
    MaxEdits,     \* bound: changes made on the router by somebody else
    MaxMoves,     \* bound: changes of the mapping's address
    MaxRequests,  \* bound: requests of the APP
    MaxFaults     \* bound: failed calls of the router, Hub restarts

ASSUME BoundsAssumption == /\ MaxEdits \in Nat /\ MaxMoves \in Nat
                           /\ MaxRequests \in Nat /\ MaxFaults \in Nat

VARIABLES
    rule,      \* the rule on the router
    target,    \* what resolve returns
    bind,      \* the binding in firewall_automation.json
    cand,      \* candidates: the address seen and how often
    run,       \* the two executions of reconcile
    snap,      \* the firewall snapshot for the APP
    orig,      \* history: the rule as the Hub knew it when somebody edited it while no reconcile
               \* was under way; None if nobody did since the last adoption or write, or
               \* if somebody did so during a reconcile as well
    seen,      \* history: the addresses the last two reconciles of a binding resolved
    edits, moves, requests, faults

vars == <<rule, target, bind, cand, run, snap, orig, seen, edits, moves, requests, faults>>

Rule    == [addr : Addrs, rest : Rests]
Binding == [enabled : BOOLEAN, suspended : BOOLEAN, last : Addrs, print : Rests]
Candidate == [val : Addrs \cup {None}, count : 0 .. 2]
Who     == {"sync", "app"}

ASSUME NoneAssumption == None \notin Addrs \cup Rests \cup Rule \cup Binding
ASSUME GoneAssumption == Gone \notin Rule

(* An execution of reconcile: "accept" the thread has read the firewall,    *)
(* "lock" waits for reconcile_lock, the others hold it.                     *)
Run == [pc : {"idle", "accept", "lock", "decide", "write", "verify", "commit"},
        rule : Rule \cup {Gone}, bind : Binding \cup {None}, want : Addrs \cup {None}]

Idle == [pc |-> "idle", rule |-> Gone, bind |-> None, want |-> None]

(* The state keeps its types. *)
TypeOK ==
    /\ rule \in Rule \cup {Gone} /\ snap \in Rule \cup {Gone}
    /\ target \in Addrs \cup {None} /\ bind \in Binding \cup {None}
    /\ cand \in Candidate
    /\ run \in [Who -> Run] /\ orig \in Rule \cup {None}
    /\ seen \in (Addrs \cup {None}) \X (Addrs \cup {None})
    /\ edits \in 0 .. MaxEdits /\ moves \in 0 .. MaxMoves
    /\ requests \in 0 .. MaxRequests /\ faults \in 0 .. MaxFaults

Unseen == [val |-> None, count |-> 0]

Init ==
    /\ rule \in Rule /\ snap = rule /\ target \in Addrs
    /\ bind = None /\ cand = Unseen /\ run = [w \in Who |-> Idle]
    /\ orig = None /\ seen = <<None, None>>
    /\ edits = 0 /\ moves = 0 /\ requests = 0 /\ faults = 0

Fault == faults < MaxFaults /\ faults' = faults + 1

Holds(w)    == run[w].pc \in {"decide", "write", "verify", "commit"}
LockFree    == \A w \in Who : ~ Holds(w)
Serving     == run["app"].pc # "idle"
MayTouch(w) == w = "app" \/ ~ Serving
-----------------------------------------------------------------------------
(* The router and the mapping change on their own. *)

(* The rule as the binding has it. *)
Known == [addr |-> bind.last, rest |-> bind.print]

EditRule ==
    /\ edits < MaxEdits /\ edits' = edits + 1
    /\ rule # Gone /\ rule' \in (Rule \cup {Gone}) \ {rule}
    /\ orig' = IF (\E w \in Who : run[w].pc # "idle") \/ bind = None THEN None ELSE Known
    /\ UNCHANGED <<target, bind, cand, run, snap, seen, moves, requests, faults>>

MoveTarget ==
    /\ moves < MaxMoves /\ moves' = moves + 1
    /\ target' \in (Addrs \cup {None}) \ {target}
    /\ UNCHANGED <<rule, bind, cand, run, snap, orig, seen, edits, requests, faults>>
-----------------------------------------------------------------------------
(* RouterConfigSync.refresh: the thread reads the firewall, keeps what it   *)
(* read as the snapshot and hands it to reconcile, which gives up when      *)
(* another reconcile is under way.                                          *)

SyncReads ==
    /\ run["sync"].pc = "idle"
    /\ run' = [run EXCEPT !["sync"] = [Idle EXCEPT !.pc = "accept", !.rule = rule]]
    /\ UNCHANGED <<rule, target, bind, cand, snap, orig, seen, edits, moves, requests, faults>>

SyncAccepts ==
    /\ run["sync"].pc = "accept" /\ snap' = run["sync"].rule
    /\ run' = [run EXCEPT !["sync"] = IF LockFree THEN [@ EXCEPT !.pc = "decide"] ELSE Idle]
    /\ UNCHANGED <<rule, target, bind, cand, orig, seen, edits, moves, requests, faults>>

(* PUT: upsert reads the rule, saves a binding made from it and waits for   *)
(* the lock.  The mapping must be there.                                    *)
upsert(on) ==
    /\ ~ Serving /\ requests < MaxRequests /\ requests' = requests + 1
    /\ rule # Gone /\ target # None
    /\ bind' = [enabled |-> on, suspended |-> FALSE, last |-> rule.addr, print |-> rule.rest]
    /\ orig' = None
    /\ run' = [run EXCEPT !["app"] = [Idle EXCEPT !.pc = "lock", !.rule = rule]]
    /\ UNCHANGED <<rule, target, cand, snap, seen, edits, moves, faults>>

(* POST .../sync waits for the lock, and reads the firewall once it has it. *)
sync_binding ==
    /\ ~ Serving /\ requests < MaxRequests /\ requests' = requests + 1
    /\ bind # None
    /\ run' = [run EXCEPT !["app"] = [Idle EXCEPT !.pc = "lock", !.rule = Gone]]
    /\ UNCHANGED <<rule, target, bind, cand, snap, orig, seen, edits, moves, faults>>

AppLocks ==
    /\ run["app"].pc = "lock" /\ LockFree
    /\ run' = [run EXCEPT !["app"].pc = "decide", !["app"].rule = IF @ = Gone THEN rule ELSE @]
    /\ UNCHANGED <<rule, target, bind, cand, snap, orig, seen, edits, moves, requests, faults>>

(* DELETE needs DATA_LOCK only. *)
delete_binding ==
    /\ ~ Serving /\ bind # None /\ bind' = None /\ cand' = Unseen
    /\ requests < MaxRequests /\ requests' = requests + 1
    /\ UNCHANGED <<rule, target, run, snap, orig, seen, edits, moves, faults>>
-----------------------------------------------------------------------------
(* reconcile *)

(* Mutant: only the fingerprint, which leaves out the controlled field, is   *)
(* compared with the router.                                                *)
DriftedByPrint(b, r) == r.rest # b.print

(* The rule is not as the last write or the adoption left it. *)
Drifted(b, r) == r.addr # b.last \/ r.rest # b.print

(* Mutant: the first observation is enough. *)
ConfirmedAtOnce(want) == TRUE

(* _candidate_confirmed: the same address was seen before. *)
Confirmed(want) == cand.val = want /\ cand.count + 1 >= 2

Ends(w) == run' = [run EXCEPT ![w] = Idle]

(* The bindings are loaded and the rule that was read is judged. *)
Judging(w) == run[w].pc = "decide" /\ MayTouch(w)
Follows(w) == IF bind = None \/ run[w].rule = Gone THEN FALSE ELSE bind.enabled /\ ~ bind.suspended
Differs(w) == target # None /\ target # run[w].rule.addr

(* Nothing to follow, or nothing to do: the rule has the address. *)
Skip(w) ==
    /\ Judging(w) /\ (Follows(w) => ~ Drifted(bind, run[w].rule) /\ ~ Differs(w))
    /\ IF Follows(w) /\ target # None THEN cand' = Unseen /\ seen' = <<seen[2], target>>
       ELSE UNCHANGED <<cand, seen>>
    /\ Ends(w)
    /\ UNCHANGED <<rule, target, bind, snap, orig, edits, moves, requests, faults>>

Suspend(w) ==
    /\ Judging(w) /\ Follows(w) /\ Drifted(bind, run[w].rule)
    /\ bind' = [bind EXCEPT !.suspended = TRUE] /\ cand' = Unseen /\ Ends(w)
    /\ UNCHANGED <<rule, target, snap, orig, seen, edits, moves, requests, faults>>

(* Another address than the rule's: it is written when it is confirmed. *)
Observe(w) ==
    /\ Judging(w) /\ Follows(w) /\ ~ Drifted(bind, run[w].rule) /\ Differs(w)
    /\ seen' = <<seen[2], target>>
    /\ cand' = IF cand.val = target THEN [cand EXCEPT !.count = 2]
               ELSE [val |-> target, count |-> 1]
    /\ run' = [run EXCEPT ![w] =
                 IF Confirmed(target)
                   THEN [@ EXCEPT !.pc = "write", !.bind = bind, !.want = target] ELSE Idle]
    /\ UNCHANGED <<rule, target, bind, snap, orig, edits, moves, requests, faults>>

(* The rule as it was read, with the new address, replaces whatever is      *)
(* there; the router refuses a rule it does not have, or the call fails.    *)
Write(w) ==
    /\ run[w].pc = "write"
    /\ \/ /\ rule # Gone /\ rule' = [run[w].rule EXCEPT !.addr = run[w].want]
          /\ run' = [run EXCEPT ![w].pc = "verify"] /\ UNCHANGED faults
       \/ rule = Gone /\ Ends(w) /\ UNCHANGED <<rule, faults>>
       \/ Fault /\ Ends(w) /\ UNCHANGED rule
    /\ orig' = IF rule' = rule THEN orig ELSE None
    /\ UNCHANGED <<target, bind, cand, snap, seen, edits, moves, requests>>

(* The rule is read back, becomes the snapshot and must carry the address.  *)
ReadBack(w) ==
    /\ run[w].pc = "verify"
    /\ \/ /\ snap' = rule
          /\ run' = [run EXCEPT ![w] = IF rule # Gone /\ rule.addr = @.want
                                         THEN [@ EXCEPT !.pc = "commit", !.rule = rule] ELSE Idle]
          /\ UNCHANGED faults
       \/ Fault /\ Ends(w) /\ UNCHANGED snap
    /\ UNCHANGED <<rule, target, bind, cand, orig, seen, edits, moves, requests>>

(* _replace_binding puts the binding that was loaded back, updated. *)
Commit(w) ==
    /\ run[w].pc = "commit" /\ MayTouch(w)
    /\ bind' = [run[w].bind EXCEPT !.last = run[w].want, !.print = run[w].rule.rest]
    /\ cand' = Unseen /\ orig' = None /\ Ends(w)
    /\ UNCHANGED <<rule, target, snap, seen, edits, moves, requests, faults>>

(* The Hub restarts: bindings and snapshot are in files. *)
HubRestart ==
    /\ Fault /\ run' = [w \in Who |-> Idle] /\ cand' = Unseen
    /\ UNCHANGED <<rule, target, bind, snap, orig, seen, edits, moves, requests>>

reconcile(w) ==
    Skip(w) \/ Suspend(w) \/ Observe(w) \/ Write(w) \/ ReadBack(w) \/ Commit(w)

Next ==
    \/ EditRule \/ MoveTarget \/ SyncReads \/ SyncAccepts
    \/ (\E on \in BOOLEAN : upsert(on)) \/ sync_binding \/ AppLocks \/ delete_binding
    \/ \E w \in Who : reconcile(w)
    \/ HubRestart

(* The thread runs forever, a request goes on when it can. *)
Fairness ==
    /\ WF_vars(SyncReads) /\ WF_vars(SyncAccepts) /\ SF_vars(AppLocks)
    /\ \A w \in Who : WF_vars(reconcile(w))

Spec == Init /\ [][Next]_vars /\ Fairness
-----------------------------------------------------------------------------
(* A rule that somebody edited on the router while no reconcile was under   *)
(* way, in its address, in its other fields or both, is left alone until it *)
(* is again what the Hub knew or the user adopts it.                        *)
QuietEditKept ==
    [][(\E w \in Who : Write(w)) /\ rule' # rule => orig \in {None, rule}]_vars

(* The Hub writes an address only if the last two reconciles that resolved  *)
(* the mapping's address both found this one.                               *)
OnlyConfirmedWritten ==
    [][(\E w \in Who : Write(w) /\ rule' # rule) => seen = <<rule'.addr, rule'.addr>>]_vars

(* The thread holds reconcile_lock and waits for DATA_LOCK, which a request *)
(* holds that waits for reconcile_lock.                                     *)
Deadlocked == run["app"].pc = "lock" /\ run["sync"].pc \in {"decide", "commit"}

(* In the end an active binding's rule carries the address of the mapping,  *)
(* or the automation has stopped: suspended, or caught in Deadlocked.       *)
Following ==
    IF bind = None \/ rule = Gone THEN TRUE
    ELSE ~ bind.enabled \/ bind.suspended \/ target \in {None, rule.addr} \/ Deadlocked
FollowsOrStops == <>[]Following

(* In the end the snapshot the APP is shown is the router's rule, although  *)
(* a read may be accepted after the result of a later command.              *)
SnapshotRight == snap = rule \/ Deadlocked
SnapshotConverges == <>[]SnapshotRight

(* "User commands keep their existing write+readback verification and       *)
(* immediately feed that confirmed result into this store": a request of    *)
(* the APP that waits for reconcile_lock gets it.                           *)
UserCommandCompletes == Serving ~> ~ Serving
=============================================================================
