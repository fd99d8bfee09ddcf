------------------------- MODULE RouterRulesProofs -------------------------
(***************************************************************************)
(* Proofs about the rules on the router (RouterRules), for any addresses,  *)
(* contents, table sizes, edits, requests and faults.  First the firewall  *)
(* rules the Hub follows: what two runs of reconcile, which share the      *)
(* binding and the candidate, may write.  Then the firewall rules it owns, *)
(* then the mapping of a STUN rule, then their composition.                *)
(***************************************************************************)
EXTENDS RouterRules, FiniteSetTheorems, TLAPS

(* A reconcile that has decided to write. *)
Writing == {"write", "verify", "commit"}

(* The candidate is what the last reconcile resolved: it is never carried   *)
(* over another address.                                                    *)
Counted == cand.val # None => seen[2] = cand.val

(* What a reconcile is about to write was found twice in a row, and it      *)
(* knows the rule and the binding.                                          *)
Cleared ==
    \A w \in Who : run[w].pc \in Writing =>
       /\ run[w].want \in Addrs /\ seen = <<run[w].want, run[w].want>>
       /\ run[w].rule # Gone /\ run[w].bind # None

(* One reconcile at a time has reconcile_lock. *)
Holding == {"decide", "write", "verify", "commit"}
OneHolds == \A u, w \in Who : run[u].pc \in Holding /\ run[w].pc \in Holding => u = w

(* After an edit that no reconcile overlapped, the binding is what it was   *)
(* before the edit, what a reconcile has read is what the router has, and a *)
(* reconcile only gets to its write if that is what the binding says.       *)
Unmoved ==
    orig # None =>
       /\ bind # None => bind.last = orig.addr /\ bind.print = orig.rest
       /\ \A w \in Who : run[w].pc # "idle" /\ run[w].rule # Gone => run[w].rule = rule
       /\ \A w \in Who : run[w].pc = "write" => run[w].rule = orig

FollowInv == TypeOK /\ Counted /\ Cleared /\ OneHolds /\ Unmoved
-----------------------------------------------------------------------------
LEMMA RunFields ==
    ASSUME NEW x \in Run
    PROVE  /\ x.pc \in {"idle", "accept", "lock", "decide", "write", "verify", "commit"}
           /\ x.rule \in Rule \cup {Gone} /\ x.bind \in Binding \cup {None}
           /\ x.want \in Addrs \cup {None}
BY DEF Run

LEMMA RuleFields ==
    ASSUME NEW r \in Rule
    PROVE  r.addr \in Addrs /\ r.rest \in Rests
BY DEF Rule

LEMMA SameRule ==
    ASSUME NEW r \in Rule, NEW q \in Rule, r.addr = q.addr, r.rest = q.rest
    PROVE  r = q
BY DEF Rule

LEMMA BindingFields ==
    ASSUME NEW x \in Binding
    PROVE  /\ x.enabled \in BOOLEAN /\ x.suspended \in BOOLEAN
           /\ x.last \in Addrs /\ x.print \in Rests
BY DEF Binding

LEMMA IdleTypes == Idle \in Run /\ Idle.pc = "idle" /\ Idle.rule = Gone
BY DEF Idle, Run

(* The next value of one execution of reconcile. *)
LEMMA RunMoves ==
    ASSUME TypeOK, NEW w \in Who, NEW x \in Run, run' = [run EXCEPT ![w] = x]
    PROVE  run' \in [Who -> Run] /\ run'[w] = x /\ \A u \in Who \ {w} : run'[u] = run[u]
BY DEF TypeOK
LEMMA UnseenTypes == Unseen \in Candidate /\ Unseen.val = None
BY DEF Unseen, Candidate

LEMMA CandidateFields ==
    ASSUME NEW c \in Candidate
    PROVE  c.val \in Addrs \cup {None} /\ c.count \in 0 .. 2
BY DEF Candidate

(* Another address is resolved. *)
Pairs == (Addrs \cup {None}) \X (Addrs \cup {None})

LEMMA SeenMoves ==
    ASSUME NEW p \in Pairs, NEW x \in Addrs
    PROVE  <<p[2], x>> \in Pairs /\ <<p[2], x>>[2] = x
BY DEF Pairs

LEMMA FollowInit == Init => FollowInv
<1> SUFFICES ASSUME Init PROVE FollowInv
  OBVIOUS
<1>1. cand \in Candidate /\ cand.val = None  BY UnseenTypes DEF Init
<1>2. run \in [Who -> Run] /\ \A w \in Who : run[w].pc = "idle"  BY IdleTypes DEF Init
<1>3. TypeOK  BY <1>1, <1>2, BoundsAssumption DEF Init, TypeOK
<1> QED  BY <1>1, <1>2, <1>3 DEF FollowInv, Counted, Cleared, OneHolds, Unmoved, Init, Writing, Holding

(* The bounds of the counters. *)
LEMMA CountersStep ==
    ASSUME TypeOK, [Next]_vars
    PROVE  /\ edits' \in 0 .. MaxEdits /\ moves' \in 0 .. MaxMoves
           /\ requests' \in 0 .. MaxRequests /\ faults' \in 0 .. MaxFaults
<1>1. /\ edits \in 0 .. MaxEdits /\ moves \in 0 .. MaxMoves
      /\ requests \in 0 .. MaxRequests /\ faults \in 0 .. MaxFaults
  BY DEF TypeOK
<1>2. edits' = edits \/ (edits < MaxEdits /\ edits' = edits + 1)
  BY DEF Next, vars, EditRule, MoveTarget, SyncReads, SyncAccepts, upsert, sync_binding, AppLocks,
         delete_binding, reconcile, Skip, Suspend, Observe, Write, ReadBack, Commit, HubRestart
<1>3. moves' = moves \/ (moves < MaxMoves /\ moves' = moves + 1)
  BY DEF Next, vars, EditRule, MoveTarget, SyncReads, SyncAccepts, upsert, sync_binding, AppLocks,
         delete_binding, reconcile, Skip, Suspend, Observe, Write, ReadBack, Commit, HubRestart
<1>4. requests' = requests \/ (requests < MaxRequests /\ requests' = requests + 1)
  BY DEF Next, vars, EditRule, MoveTarget, SyncReads, SyncAccepts, upsert, sync_binding, AppLocks,
         delete_binding, reconcile, Skip, Suspend, Observe, Write, ReadBack, Commit, HubRestart
<1>5. faults' = faults \/ (faults < MaxFaults /\ faults' = faults + 1)
  BY DEF Next, vars, EditRule, MoveTarget, SyncReads, SyncAccepts, upsert, sync_binding, AppLocks,
         delete_binding, reconcile, Skip, Suspend, Observe, Write, ReadBack, Commit, HubRestart, Fault
<1> QED  BY <1>1, <1>2, <1>3, <1>4, <1>5, BoundsAssumption

(* What a step does to the rest of the state, in the terms the invariant    *)
(* is about. *)
Shape ==
    /\ rule \in Rule \cup {Gone} /\ snap \in Rule \cup {Gone}
    /\ target \in Addrs \cup {None} /\ bind \in Binding \cup {None} /\ cand \in Candidate
    /\ run \in [Who -> Run] /\ orig \in Rule \cup {None} /\ seen \in Pairs

Goal == Shape /\ Counted /\ Cleared /\ OneHolds /\ Unmoved

LEMMA ShapeHolds == FollowInv => Goal
BY DEF FollowInv, Goal, Shape, TypeOK, Pairs

(* The lock goes to an execution that has it, or is free. *)
LEMMA OneHoldsStep ==
    ASSUME Goal, NEW w \in Who, NEW x \in Run, run' \in [Who -> Run], run'[w] = x,
           \A u \in Who \ {w} : run'[u] = run[u],
           x.pc \in Holding => run[w].pc \in Holding \/ \A u \in Who : run[u].pc \notin Holding
    PROVE  OneHolds'
BY DEF Goal, OneHolds

(* Executions that begin, end or give up write nothing, and only one that   *)
(* has the lock observes.                                                   *)
LEMMA RunEnds ==
    ASSUME FollowInv, NEW w \in Who, NEW x \in Run, run' = [run EXCEPT ![w] = x],
           x.pc \notin Writing,
           x.pc \in Holding => run[w].pc \in Holding \/ \A u \in Who : run[u].pc \notin Holding,
           x.pc # "idle" /\ x.rule # Gone /\ orig # None => x.rule = rule,
           UNCHANGED <<rule, orig>>, seen' \in Pairs,
           run[w].pc \notin Holding => seen' = seen, target' \in Addrs \cup {None},
           snap' \in Rule \cup {Gone}, cand' \in Candidate,
           cand'.val # None => seen'[2] = cand'.val,
           bind' \in Binding \cup {None},
           bind' # None => bind # None /\ bind'.last = bind.last /\ bind'.print = bind.print
    PROVE  Goal'
<1>0. Goal  BY ShapeHolds
<1>1. TypeOK /\ Shape /\ Cleared /\ OneHolds /\ Unmoved  BY <1>0 DEF FollowInv, Goal
<1>2. run' \in [Who -> Run] /\ run'[w] = x /\ \A u \in Who \ {w} : run'[u] = run[u]
  BY <1>1, RunMoves
<1>3. Shape'  BY <1>1, <1>2 DEF Shape
<1>4. Counted'  BY DEF Counted
<1>5. Cleared'
  <2>1. \A u \in Who : run'[u].pc \in Writing => u # w /\ run'[u] = run[u]  BY <1>2
  <2>2. \A u \in Who : run[u].pc \in Writing /\ u # w => run[w].pc \notin Holding
    BY <1>1 DEF OneHolds, Writing, Holding
  <2> QED  BY <1>1, <2>1, <2>2 DEF Cleared
<1>6. OneHolds'  BY <1>0, <1>2, OneHoldsStep
<1>7. Unmoved'
  <2>1. SUFFICES ASSUME orig' # None
        PROVE  /\ bind' # None => bind'.last = orig'.addr /\ bind'.print = orig'.rest
               /\ \A u \in Who : run'[u].pc # "idle" /\ run'[u].rule # Gone => run'[u].rule = rule'
               /\ \A u \in Who : run'[u].pc = "write" => run'[u].rule = orig'
    BY DEF Unmoved
  <2>2. /\ bind # None => bind.last = orig.addr /\ bind.print = orig.rest
        /\ \A u \in Who : run[u].pc # "idle" /\ run[u].rule # Gone => run[u].rule = rule
        /\ \A u \in Who : run[u].pc = "write" => run[u].rule = orig
    BY <1>1, <2>1 DEF Unmoved
  <2>3. x.pc # "write"  BY DEF Writing
  <2> QED  BY <1>2, <2>1, <2>2, <2>3
<1> QED  BY <1>3, <1>4, <1>5, <1>6, <1>7 DEF Goal

(* Somebody edits the rule, or the mapping's address changes. *)
LEMMA OutsideKeeps ==
    ASSUME FollowInv, EditRule \/ MoveTarget \/ UNCHANGED vars
    PROVE  Goal'
<1>0. Shape /\ Counted /\ Cleared /\ OneHolds /\ Unmoved  BY ShapeHolds DEF Goal
<1>1. CASE EditRule
  <2>1. /\ rule' \in Rule \cup {Gone}
        /\ orig' = IF (\E w \in Who : run[w].pc # "idle") \/ bind = None THEN None ELSE Known
        /\ UNCHANGED <<target, bind, cand, run, snap, seen>>
    BY <1>1 DEF EditRule
  <2>2. bind # None => Known \in Rule /\ Known.addr = bind.last /\ Known.rest = bind.print
    <3>1. bind # None => bind \in Binding  BY <1>0 DEF Shape
    <3>2. bind # None => bind.print \in Rests /\ bind.last \in Addrs  BY <3>1, BindingFields
    <3> QED  BY <3>2 DEF Known, Rule
  <2>3. Shape'  BY <1>0, <2>1, <2>2 DEF Shape
  <2>4. Unmoved'
    <3>1. orig' # None => bind # None /\ orig' = Known /\ \A w \in Who : run[w].pc = "idle"
      BY <2>1
    <3> HIDE DEF Known
    <3> QED  BY <2>1, <2>2, <3>1 DEF Unmoved
  <2> QED  BY <1>0, <2>1, <2>3, <2>4 DEF Goal, Counted, Cleared, OneHolds
<1>2. CASE MoveTarget
  <2>1. target' \in Addrs \cup {None} /\ UNCHANGED <<rule, bind, cand, run, snap, orig, seen>>
    BY <1>2 DEF MoveTarget
  <2> QED  BY <1>0, <2>1 DEF Shape, Goal, Counted, Cleared, OneHolds, Unmoved
<1>3. CASE UNCHANGED vars
  <2>1. UNCHANGED <<rule, target, bind, cand, run, snap, orig, seen>>  BY <1>3 DEF vars
  <2> QED  BY <1>0, <2>1 DEF Shape, Goal, Counted, Cleared, OneHolds, Unmoved
<1> QED  BY <1>1, <1>2, <1>3

LEMMA LockIs == LockFree <=> \A u \in Who : run[u].pc \notin Holding
BY DEF LockFree, Holds, Holding

(* The thread reads and accepts, requests begin. *)
LEMMA RequestsKeep ==
    ASSUME FollowInv,
           \/ SyncReads \/ SyncAccepts \/ (\E on \in BOOLEAN : upsert(on))
           \/ sync_binding \/ AppLocks \/ delete_binding
    PROVE  Goal'
<1>0. TypeOK /\ Goal /\ Shape /\ Counted /\ Cleared /\ OneHolds /\ Unmoved
  BY ShapeHolds DEF FollowInv, Goal
<1>1. /\ rule \in Rule \cup {Gone} /\ snap \in Rule \cup {Gone}
      /\ target \in Addrs \cup {None} /\ bind \in Binding \cup {None} /\ cand \in Candidate
      /\ run \in [Who -> Run] /\ orig \in Rule \cup {None} /\ seen \in Pairs
  BY <1>0 DEF Shape
<1>2. cand.val # None => seen[2] = cand.val  BY <1>0 DEF Counted
<1>3. "sync" \in Who /\ "app" \in Who /\ run["sync"] \in Run /\ run["app"] \in Run
  BY <1>1 DEF Who
<1>u. orig # None => \A w \in Who : run[w].pc # "idle" /\ run[w].rule # Gone => run[w].rule = rule
  BY <1>0 DEF Unmoved
<1>4. CASE SyncReads
  <2> DEFINE x == [Idle EXCEPT !.pc = "accept", !.rule = rule]
  <2>1. run' = [run EXCEPT !["sync"] = x] /\ UNCHANGED <<rule, target, bind, cand, snap, orig, seen>>
    BY <1>4 DEF SyncReads
  <2>2. x \in Run /\ x.pc = "accept" /\ x.rule = rule  BY <1>1, IdleTypes DEF Run
  <2> HIDE DEF x
  <2> QED  BY <1>1, <1>2, <1>3, <2>1, <2>2, RunEnds DEF Writing, Holding
<1>5. CASE SyncAccepts
  <2> DEFINE x == IF LockFree THEN [run["sync"] EXCEPT !.pc = "decide"] ELSE Idle
  <2>1. /\ run' = [run EXCEPT !["sync"] = x] /\ run["sync"].pc = "accept"
        /\ snap' = run["sync"].rule /\ UNCHANGED <<rule, target, bind, cand, orig, seen>>
    BY <1>5 DEF SyncAccepts
  <2>2. /\ x \in Run
        /\ x.pc = "idle" \/ (x.pc = "decide" /\ x.rule = run["sync"].rule /\ LockFree)
    <3>1. CASE LockFree  BY <1>3, <3>1 DEF Run
    <3>2. CASE ~ LockFree  BY <3>2, IdleTypes
    <3> QED  BY <3>1, <3>2
  <2>3. snap' \in Rule \cup {Gone}  BY <1>3, <2>1, RunFields
  <2> HIDE DEF x
  <2>4. x.pc # "idle" /\ x.rule # Gone /\ orig # None => x.rule = rule
    BY <1>3, <1>u, <2>1, <2>2
  <2>5. /\ x.pc \notin Writing
        /\ x.pc \in Holding => run["sync"].pc \in Holding \/ \A u \in Who : run[u].pc \notin Holding
    BY <2>2, LockIs DEF Writing, Holding
  <2> QED  BY <1>1, <1>2, <1>3, <2>1, <2>2, <2>3, <2>4, <2>5, RunEnds
<1>6. ASSUME NEW on \in BOOLEAN, upsert(on) PROVE Goal'
  <2> DEFINE x == [Idle EXCEPT !.pc = "lock", !.rule = rule]
  <2>1. /\ run' = [run EXCEPT !["app"] = x] /\ orig' = None /\ rule # Gone
        /\ bind' = [enabled |-> on, suspended |-> FALSE, last |-> rule.addr, print |-> rule.rest]
        /\ UNCHANGED <<rule, target, cand, snap, seen>>
    BY <1>6 DEF upsert
  <2>2. x \in Run /\ x.pc = "lock"  BY <1>1, IdleTypes DEF Run
  <2> HIDE DEF x
  <2>3. run' \in [Who -> Run] /\ run'["app"] = x /\ \A u \in Who \ {"app"} : run'[u] = run[u]
    BY <1>0, <1>3, <2>1, <2>2, RunMoves
  <2>4. bind' \in Binding
    <3>1. rule.addr \in Addrs /\ rule.rest \in Rests  BY <1>1, <2>1, RuleFields
    <3> QED  BY <2>1, <3>1 DEF Binding
  <2>5. Shape'  BY <1>1, <2>1, <2>3, <2>4 DEF Shape
  <2>6. \A u \in Who : run'[u].pc \in Writing => run'[u] = run[u]  BY <2>2, <2>3 DEF Writing
  <2>7. Cleared'  BY <1>0, <2>1, <2>6 DEF Cleared
  <2>8. OneHolds'
    <3>1. x.pc \notin Holding  BY <2>2 DEF Holding
    <3> QED  BY <1>0, <1>3, <2>2, <2>3, <3>1, OneHoldsStep
  <2> QED  BY <1>2, <2>1, <2>5, <2>7, <2>8 DEF Goal, Counted, Unmoved
<1>7. CASE sync_binding
  <2> DEFINE x == [Idle EXCEPT !.pc = "lock", !.rule = Gone]
  <2>1. run' = [run EXCEPT !["app"] = x] /\ UNCHANGED <<rule, target, bind, cand, snap, orig, seen>>
    BY <1>7 DEF sync_binding
  <2>2. x \in Run /\ x.pc = "lock" /\ x.rule = Gone  BY IdleTypes DEF Run
  <2> HIDE DEF x
  <2> QED  BY <1>1, <1>2, <1>3, <2>1, <2>2, RunEnds DEF Writing, Holding
<1>8. CASE AppLocks
  <2> DEFINE o == run["app"]
             r == IF o.rule = Gone THEN rule ELSE o.rule
             x == [o EXCEPT !.pc = "decide", !.rule = r]
  <2>1. /\ run' = [run EXCEPT !["app"] = x] /\ o.pc = "lock" /\ LockFree
        /\ UNCHANGED <<rule, target, bind, cand, snap, orig, seen>>
    BY <1>1, <1>3, <1>8 DEF AppLocks
  <2>2. o.rule \in Rule \cup {Gone} /\ r \in Rule \cup {Gone}  BY <1>1, <1>3, RunFields
  <2>3. x \in Run /\ x.pc = "decide" /\ x.rule = r
    <3> HIDE DEF r
    <3> QED  BY <1>3, <2>2 DEF Run
  <2> HIDE DEF x
  <2>4. x.rule # Gone /\ orig # None => x.rule = rule
    BY <1>3, <1>u, <2>1, <2>3
  <2>5. /\ x.pc \notin Writing
        /\ x.pc \in Holding => run["app"].pc \in Holding \/ \A u \in Who : run[u].pc \notin Holding
    BY <2>1, <2>3, LockIs DEF Writing
  <2> QED  BY <1>1, <1>2, <1>3, <2>1, <2>3, <2>4, <2>5, RunEnds
<1>9. CASE delete_binding
  <2>1. bind' = None /\ cand' = Unseen /\ UNCHANGED <<rule, target, run, snap, orig, seen>>
    BY <1>9 DEF delete_binding
  <2>2. cand' \in Candidate /\ cand'.val = None  BY <2>1, UnseenTypes
  <2>3. Shape'  BY <1>1, <2>1, <2>2 DEF Shape
  <2> QED  BY <1>0, <2>1, <2>2, <2>3 DEF Goal, Counted, Cleared, OneHolds, Unmoved
<1> QED  BY <1>4, <1>5, <1>6, <1>7, <1>8, <1>9

(* A reconcile judges the rule: only a confirmed address goes on, and only  *)
(* for a rule that is as the binding says.                                  *)
LEMMA JudgingKeeps ==
    ASSUME FollowInv, NEW w \in Who, Skip(w) \/ Suspend(w) \/ Observe(w)
    PROVE  Goal'
<1>0. TypeOK /\ Goal /\ Shape /\ Counted /\ Cleared /\ OneHolds /\ Unmoved
  BY ShapeHolds DEF FollowInv, Goal
<1>1. /\ rule \in Rule \cup {Gone} /\ snap \in Rule \cup {Gone}
      /\ target \in Addrs \cup {None} /\ bind \in Binding \cup {None} /\ cand \in Candidate
      /\ run \in [Who -> Run] /\ orig \in Rule \cup {None} /\ seen \in Pairs
      /\ run[w] \in Run
  BY <1>0 DEF Shape
<1>2. cand.val # None => seen[2] = cand.val  BY <1>0 DEF Counted
<1>3. Unseen \in Candidate /\ Unseen.val = None  BY UnseenTypes
<1>d. run[w].pc = "decide" /\ run[w].pc \in Holding  BY DEF Skip, Suspend, Observe, Judging, Holding
<1>4. CASE Skip(w)
  <2>1. /\ run' = [run EXCEPT ![w] = Idle] /\ UNCHANGED <<rule, target, bind, snap, orig>>
        /\ \/ cand' = Unseen /\ seen' = <<seen[2], target>> /\ target # None
           \/ UNCHANGED <<cand, seen>>
    BY <1>4 DEF Skip, Ends
  <2>2. seen' \in Pairs  BY <1>1, <2>1, SeenMoves
  <2>3. cand' \in Candidate /\ (cand'.val # None => seen'[2] = cand'.val)
    BY <1>1, <1>2, <1>3, <2>1
  <2> QED  BY <1>1, <1>d, <2>1, <2>2, <2>3, IdleTypes, RunEnds DEF Writing, Holding
<1>5. CASE Suspend(w)
  <2>1. /\ run' = [run EXCEPT ![w] = Idle] /\ cand' = Unseen /\ Follows(w)
        /\ bind' = [bind EXCEPT !.suspended = TRUE]
        /\ UNCHANGED <<rule, target, snap, orig, seen>>
    BY <1>5 DEF Suspend, Ends
  <2>2. bind # None /\ bind \in Binding  BY <1>1, <2>1 DEF Follows
  <2>3. bind' \in Binding /\ bind'.print = bind.print /\ bind'.last = bind.last
    BY <2>1, <2>2 DEF Binding
  <2> QED  BY <1>1, <1>3, <2>1, <2>2, <2>3, IdleTypes, RunEnds DEF Writing, Holding
<1>6. CASE Observe(w)
  <2>1. /\ Follows(w) /\ ~ Drifted(bind, run[w].rule) /\ target # None
        /\ seen' = <<seen[2], target>>
        /\ cand' = IF cand.val = target THEN [cand EXCEPT !.count = 2]
                   ELSE [val |-> target, count |-> 1]
        /\ run' = [run EXCEPT ![w] =
                     IF Confirmed(target)
                       THEN [run[w] EXCEPT !.pc = "write", !.bind = bind, !.want = target] ELSE Idle]
        /\ UNCHANGED <<rule, target, bind, snap, orig>>
    BY <1>1, <1>6 DEF Observe, Differs
  <2>2. /\ bind # None /\ bind \in Binding /\ run[w].rule # Gone /\ run[w].rule \in Rule
        /\ target \in Addrs /\ run[w].rule.rest = bind.print /\ run[w].rule.addr = bind.last
    BY <1>1, <2>1, RunFields DEF Follows, Drifted
  <2>3. seen' \in Pairs /\ seen'[2] = target  BY <1>1, <2>1, <2>2, SeenMoves
  <2>6. cand' \in Candidate /\ cand'.val = target
    BY <1>1, <2>1, <2>2 DEF Candidate
  <2>7. \A u \in Who : run[u].pc \in Writing => u = w
    BY <1>0, <1>d DEF OneHolds, Writing, Holding
  <2>8. CASE Confirmed(target)
    <3> DEFINE x == [run[w] EXCEPT !.pc = "write", !.bind = bind, !.want = target]
    <3>1. seen[2] = target  BY <1>2, <2>1, <2>8 DEF Confirmed
    <3>2. seen' = <<target, target>>  BY <2>1, <3>1
    <3>3. /\ x \in Run /\ x.pc = "write" /\ x.bind = bind /\ x.want = target
          /\ x.rule = run[w].rule
      BY <1>1, <2>2 DEF Run
    <3>4. run' = [run EXCEPT ![w] = x]  BY <2>1, <2>8
    <3> HIDE DEF x
    <3>5. run' \in [Who -> Run] /\ run'[w] = x /\ \A u \in Who \ {w} : run'[u] = run[u]
      BY <1>0, <3>3, <3>4, RunMoves
    <3>6. Shape'  BY <1>1, <2>1, <2>3, <2>6, <3>5 DEF Shape
    <3>7. Counted'  BY <2>3, <2>6 DEF Counted
    <3>8. Cleared'
      <4>1. \A u \in Who : run'[u].pc \in Writing => u = w
        BY <2>7, <3>5
      <4> QED  BY <2>2, <3>2, <3>3, <3>5, <4>1 DEF Cleared
    <3>9. OneHolds'  BY <1>0, <1>d, <3>3, <3>5, OneHoldsStep
    <3>10. Unmoved'
      <4>1. SUFFICES ASSUME orig' # None
            PROVE  /\ bind' # None => bind'.last = orig'.addr /\ bind'.print = orig'.rest
                   /\ \A u \in Who : run'[u].pc # "idle" /\ run'[u].rule # Gone => run'[u].rule = rule'
                   /\ \A u \in Who : run'[u].pc = "write" => run'[u].rule = orig'
        BY DEF Unmoved
      <4>2. /\ bind # None => bind.last = orig.addr /\ bind.print = orig.rest
            /\ \A u \in Who : run[u].pc # "idle" /\ run[u].rule # Gone => run[u].rule = rule
            /\ \A u \in Who : run[u].pc = "write" => run[u].rule = orig
        BY <1>0, <2>1, <4>1 DEF Unmoved
      <4>3. run[w].rule = orig  BY <1>1, <2>1, <2>2, <4>1, <4>2, SameRule
      <4> QED  BY <1>d, <2>1, <2>2, <3>3, <3>5, <4>2, <4>3
    <3> QED  BY <3>6, <3>7, <3>8, <3>9, <3>10 DEF Goal
  <2>9. CASE ~ Confirmed(target)
    <3>1. run' = [run EXCEPT ![w] = Idle]  BY <2>1, <2>9
    <3>2. cand'.val # None => seen'[2] = cand'.val  BY <2>3, <2>6
    <3> QED  BY <1>1, <1>d, <2>1, <2>3, <2>6, <3>1, <3>2, IdleTypes, RunEnds DEF Writing, Holding
  <2> QED  BY <2>8, <2>9
<1> QED  BY <1>4, <1>5, <1>6

(* A reconcile writes, reads back and records; the Hub restarts. *)
LEMMA WritingKeeps ==
    ASSUME FollowInv, (\E w \in Who : Write(w) \/ ReadBack(w) \/ Commit(w)) \/ HubRestart
    PROVE  Goal'
<1>0. TypeOK /\ Goal /\ Shape /\ Counted /\ Cleared /\ OneHolds /\ Unmoved
  BY ShapeHolds DEF FollowInv, Goal
<1>1. /\ rule \in Rule \cup {Gone} /\ snap \in Rule \cup {Gone}
      /\ target \in Addrs \cup {None} /\ bind \in Binding \cup {None} /\ cand \in Candidate
      /\ run \in [Who -> Run] /\ orig \in Rule \cup {None} /\ seen \in Pairs
  BY <1>0 DEF Shape
<1>2. cand.val # None => seen[2] = cand.val  BY <1>0 DEF Counted
<1>3. Unseen \in Candidate /\ Unseen.val = None  BY UnseenTypes
<1>4. \A w \in Who : run[w].pc \in Writing =>
         /\ run[w].want \in Addrs /\ seen = <<run[w].want, run[w].want>>
         /\ run[w].rule # Gone /\ run[w].rule \in Rule /\ run[w].bind # None /\ run[w].bind \in Binding
  BY <1>0, <1>1, RunFields DEF Cleared
<1>5. orig # None =>
         /\ bind # None => bind.last = orig.addr /\ bind.print = orig.rest
         /\ \A u \in Who : run[u].pc # "idle" /\ run[u].rule # Gone => run[u].rule = rule
         /\ \A u \in Who : run[u].pc = "write" => run[u].rule = orig
  BY <1>0 DEF Unmoved
\* an execution that gives up, or is cut off
<1>e. ASSUME NEW w \in Who, run' = [run EXCEPT ![w] = Idle], snap' \in Rule \cup {Gone},
             UNCHANGED <<rule, target, bind, cand, orig, seen>>
      PROVE  Goal'
  BY <1>1, <1>2, <1>e, IdleTypes, RunEnds DEF Writing, Holding
<1>6. ASSUME NEW w \in Who, Write(w) PROVE Goal'
  <2>1. /\ UNCHANGED <<target, bind, cand, snap, seen>> /\ run[w].pc = "write"
        /\ orig' = IF rule' = rule THEN orig ELSE None
    BY <1>6 DEF Write
  <2>2. CASE run' = [run EXCEPT ![w] = Idle] /\ rule' = rule
    <3>1. orig' = orig  BY <2>1, <2>2
    <3> QED  BY <1>1, <1>e, <2>1, <2>2, <3>1
  <2>3. CASE /\ rule # Gone /\ rule' = [run[w].rule EXCEPT !.addr = run[w].want]
             /\ run' = [run EXCEPT ![w].pc = "verify"]
    <3> DEFINE x == [run[w] EXCEPT !.pc = "verify"]
    <3>1. run' = [run EXCEPT ![w] = x]  BY <1>1, <2>3
    <3>2. /\ x \in Run /\ x.pc = "verify" /\ x.rule = run[w].rule /\ x.bind = run[w].bind
          /\ x.want = run[w].want
      BY <1>1 DEF Run
    <3> HIDE DEF x
    <3>3. run' \in [Who -> Run] /\ run'[w] = x /\ \A u \in Who \ {w} : run'[u] = run[u]
      BY <1>0, <3>1, <3>2, RunMoves
    <3>4. run[w].pc \in Writing /\ run[w].pc \in Holding  BY <2>1 DEF Writing, Holding
    <3>5. rule' \in Rule
      <4>1. run[w].rule \in Rule /\ run[w].want \in Addrs  BY <1>4, <3>4
      <4> QED  BY <2>3, <4>1 DEF Rule
    <3>6. Shape'  BY <1>1, <2>1, <3>3, <3>5 DEF Shape
    <3>7. \A u \in Who : /\ run'[u].pc \in Writing => run[u].pc \in Writing
                         /\ run'[u].pc # "idle" => run[u].pc # "idle"
                         /\ run'[u].pc = "write" => run[u].pc = "write"
                         /\ run'[u].rule = run[u].rule /\ run'[u].bind = run[u].bind
                         /\ run'[u].want = run[u].want
      BY <2>1, <3>2, <3>3 DEF Writing
    <3>8. Cleared'  BY <1>4, <2>1, <3>7 DEF Cleared
    <3>9. OneHolds'  BY <1>0, <3>2, <3>3, <3>4, OneHoldsStep
    <3>10. Unmoved'
      <4>1. CASE rule' # rule  BY <2>1, <4>1 DEF Unmoved
      <4>2. CASE rule' = rule
        <5>1. orig' = orig  BY <2>1, <4>2
        <5> QED  BY <1>5, <2>1, <3>7, <4>2, <5>1 DEF Unmoved
      <4> QED  BY <4>1, <4>2
    <3> QED  BY <1>0, <2>1, <3>6, <3>8, <3>9, <3>10 DEF Goal, Counted
  <2> QED  BY <1>6, <2>2, <2>3 DEF Write, Ends
<1>7. ASSUME NEW w \in Who, ReadBack(w) PROVE Goal'
  <2>1. UNCHANGED <<rule, target, bind, cand, orig, seen>> /\ run[w].pc = "verify" /\ snap' \in {snap, rule}
    BY <1>7 DEF ReadBack
  <2>2. CASE run' = [run EXCEPT ![w] = Idle]  BY <1>1, <1>e, <2>1, <2>2
  <2>3. CASE run' = [run EXCEPT ![w] = [run[w] EXCEPT !.pc = "commit", !.rule = rule]] /\ rule # Gone
    <3> DEFINE x == [run[w] EXCEPT !.pc = "commit", !.rule = rule]
    <3>2. /\ x \in Run /\ x.pc = "commit" /\ x.rule = rule /\ x.bind = run[w].bind
          /\ x.want = run[w].want
      BY <1>1 DEF Run
    <3>1. run' = [run EXCEPT ![w] = x]  BY <2>3
    <3> HIDE DEF x
    <3>3. run' \in [Who -> Run] /\ run'[w] = x /\ \A u \in Who \ {w} : run'[u] = run[u]
      BY <1>0, <3>1, <3>2, RunMoves
    <3>4. run[w].pc \in Writing /\ run[w].pc \in Holding  BY <2>1 DEF Writing, Holding
    <3>5. Shape'  BY <1>1, <2>1, <3>3 DEF Shape
    <3>6. Cleared'
      <4>1. \A u \in Who : run'[u].pc \in Writing =>
               /\ run'[u].want \in Addrs /\ seen' = <<run'[u].want, run'[u].want>>
               /\ run'[u].rule # Gone /\ run'[u].bind # None
        <5> TAKE u \in Who
        <5>1. CASE u = w  BY <1>4, <2>1, <2>3, <3>2, <3>3, <3>4, <5>1
        <5>2. CASE u # w  BY <1>4, <2>1, <3>3, <5>2
        <5> QED  BY <5>1, <5>2
      <4> QED  BY <4>1 DEF Cleared
    <3>7. OneHolds'  BY <1>0, <3>2, <3>3, <3>4, OneHoldsStep
    <3>8. Unmoved'
      <4>1. \A u \in Who : (u = w /\ run'[u] = x) \/ run'[u] = run[u]  BY <3>3
      <4> QED  BY <1>5, <2>1, <3>2, <4>1 DEF Unmoved
    <3> QED  BY <1>0, <2>1, <3>5, <3>6, <3>7, <3>8 DEF Goal, Counted
  <2> QED
    <3>1. run' = [run EXCEPT ![w] = Idle]
          \/ (run' = [run EXCEPT ![w] = [run[w] EXCEPT !.pc = "commit", !.rule = rule]] /\ rule # Gone)
      BY <1>1, <1>7 DEF ReadBack, Ends
    <3> QED  BY <2>2, <2>3, <3>1
<1>8. ASSUME NEW w \in Who, Commit(w) PROVE Goal'
  <2>1. /\ run[w].pc = "commit" /\ cand' = Unseen /\ orig' = None
        /\ run' = [run EXCEPT ![w] = Idle]
        /\ bind' = [run[w].bind EXCEPT !.last = run[w].want, !.print = run[w].rule.rest]
        /\ UNCHANGED <<rule, target, snap, seen>>
    BY <1>8 DEF Commit, Ends
  <2>2. run[w].bind \in Binding /\ run[w].want \in Addrs /\ run[w].rule \in Rule
    BY <1>4, <2>1 DEF Writing
  <2>3. run[w].rule.rest \in Rests  BY <2>2, RuleFields
  <2>4. bind' \in Binding  BY <2>1, <2>2, <2>3 DEF Binding
  <2>5. run' \in [Who -> Run] /\ run'[w] = Idle /\ \A u \in Who \ {w} : run'[u] = run[u]
    BY <1>0, <2>1, IdleTypes, RunMoves
  <2>6. Shape'  BY <1>1, <1>3, <2>1, <2>4, <2>5 DEF Shape
  <2>7. \A u \in Who : run'[u].pc \in Writing => run'[u] = run[u]  BY <2>5, IdleTypes DEF Writing
  <2>8. Cleared'  BY <1>0, <2>1, <2>7 DEF Cleared
  <2>9. OneHolds'
    <3>1. Idle.pc \notin Holding  BY IdleTypes DEF Holding
    <3> QED  BY <1>0, <2>5, <3>1, IdleTypes, OneHoldsStep
  <2> QED  BY <1>3, <2>1, <2>6, <2>8, <2>9 DEF Goal, Counted, Unmoved
<1>9. CASE HubRestart
  <2>1. /\ run' = [w \in Who |-> Idle] /\ cand' = Unseen
        /\ UNCHANGED <<rule, target, bind, snap, orig, seen>>
    BY <1>9 DEF HubRestart
  <2>2. run' \in [Who -> Run] /\ \A w \in Who : run'[w].pc = "idle"  BY <2>1, IdleTypes
  <2>3. Shape'  BY <1>1, <1>3, <2>1, <2>2 DEF Shape
  <2> QED  BY <1>0, <1>3, <2>1, <2>2, <2>3 DEF Goal, Counted, Cleared, OneHolds, Unmoved, Writing, Holding
<1> QED  BY <1>6, <1>7, <1>8, <1>9

LEMMA FollowStep == FollowInv /\ [Next]_vars => FollowInv'
<1> SUFFICES ASSUME FollowInv, [Next]_vars PROVE FollowInv'
  OBVIOUS
<1>1. Goal'
  BY OutsideKeeps, RequestsKeep, JudgingKeeps, WritingKeeps DEF Next, reconcile
<1>2. TypeOK'
  <2>1. TypeOK  BY DEF FollowInv
  <2>2. /\ edits' \in 0 .. MaxEdits /\ moves' \in 0 .. MaxMoves
        /\ requests' \in 0 .. MaxRequests /\ faults' \in 0 .. MaxFaults
    BY <2>1, CountersStep
  <2> QED  BY <1>1, <2>2 DEF Goal, Shape, TypeOK, Pairs
<1> QED  BY <1>1, <1>2 DEF Goal, FollowInv

-----------------------------------------------------------------------------
(* The firewall rules the Hub owns (OwnedFirewall) *)

Job == [todo : SUBSET O!Keys, key : O!Keys \cup {None},
        step : {"idle", "ensure", "recreate", "again"}]

OwnedTypes ==
    /\ want \in [O!Keys -> Contents \cup {None}] /\ job \in Job /\ rows \subseteq O!Row
    /\ binds \in [O!Keys -> O!Binding \cup {None}] /\ next \in Nat
    /\ unsure \subseteq O!Keys /\ edits \in Nat

(* What the Hub wrote is told by its content. *)
Marked == \A r \in rows : IF r.own THEN r.content \in Contents ELSE r.content = UserContent

(* A uuid names one row, now and later, and a binding names a row of its    *)
(* rule id only.                                                            *)
Numbered ==
    /\ \A r \in rows : r.uuid < next
    /\ \A r, q \in rows : r.uuid = q.uuid => r = q
    /\ \A k \in O!Keys : binds[k] # None =>
         /\ binds[k].uuid < next
         /\ \A r \in rows : r.uuid = binds[k].uuid => r.key = k

(* Unless a call failed, the Hub knows each of its rows. *)
Tracked ==
    \A k \in O!Keys \ unsure : \A r \in rows : r.key = k /\ r.own =>
       binds[k] # None /\ binds[k].uuid = r.uuid /\ binds[k].print = r.content

(* Where the handler is: a rule id it is through with has what the server   *)
(* asks for, and one it has removed has none of the Hub's rows.             *)
Stepping ==
    /\ job.step = "idle" <=> job.key = None
    /\ job.step \in {"ensure", "again"} => want[job.key] # None
    /\ \A k \in O!Keys \ unsure : \A r \in rows : r.key = k /\ r.own =>
         /\ k \notin job.todo /\ k # job.key => r.content = want[k]
         /\ job.step = "again" => k # job.key

OwnedInv == OwnedTypes /\ Marked /\ Numbered /\ Tracked /\ Stepping

LEMMA OwnedInit == O!Init => OwnedInv
<1> SUFFICES ASSUME O!Init PROVE OwnedInv
  OBVIOUS
<1>1. job \in Job /\ job.step = "idle" /\ job.key = None  BY DEF O!Init, O!Idle, Job
<1> QED  BY <1>1 DEF O!Init, OwnedInv, OwnedTypes, Marked, Numbered, Tracked, Stepping

LEMMA RowFields ==
    ASSUME NEW r \in O!Row
    PROVE  /\ r.uuid \in Nat /\ r.key \in O!Keys /\ r.content \in Contents \cup {UserContent}
           /\ r.own \in BOOLEAN
BY DEF O!Row

LEMMA JobFields ==
    ASSUME NEW x \in Job
    PROVE  /\ x.todo \subseteq O!Keys /\ x.key \in O!Keys \cup {None}
           /\ x.step \in {"idle", "ensure", "recreate", "again"}
BY DEF Job

(* Steps that leave the table, the bindings and the marks alone. *)
LEMMA RequestStep ==
    ASSUME OwnedInv, (\E w \in O!Wants : O!Put(w)) \/ (\E k \in O!Keys : O!Begin(k))
    PROVE  OwnedInv'
<1>1. /\ OwnedTypes /\ Marked /\ Numbered /\ Tracked /\ Stepping
      /\ UNCHANGED <<rows, binds, next, unsure, edits>>
  BY DEF OwnedInv, O!Put, O!Begin
<1>2. ASSUME NEW w \in O!Wants, O!Put(w) PROVE OwnedInv'
  <2>1. /\ job.step = "idle" /\ job.key = None /\ job.todo = {} /\ want' = w
        /\ w \in [O!Keys -> Contents \cup {None}]
        /\ job' \in Job /\ job'.step = "idle" /\ job'.key = None
        /\ job'.todo = {x \in O!Keys : want[x] # None \/ w[x] # None}
    BY <1>1, <1>2 DEF O!Put, O!Idle, O!Wants, Stepping, Job
  <2>2. \A x \in O!Keys \ unsure : \A r \in rows : r.key = x /\ r.own => x \in job'.todo
    BY <1>1, <2>1, OwnAssumption DEF Stepping, Marked
  <2> QED  BY <1>1, <2>1, <2>2 DEF OwnedInv, OwnedTypes, Marked, Numbered, Tracked, Stepping
<1>3. ASSUME NEW k \in O!Keys, O!Begin(k) PROVE OwnedInv'
  <2>1. /\ job.step = "idle" /\ job.key = None /\ want' = want
        /\ job' \in Job /\ job'.key = k /\ job'.todo = job.todo \ {k}
        /\ job'.step = (IF want[k] # None THEN "ensure" ELSE "recreate")
    BY <1>1, <1>3 DEF O!Begin, Stepping, OwnedTypes, Job
  <2>2. k # None  BY OwnAssumption
  <2>3. /\ job'.step \in {"ensure", "recreate"} /\ (job'.step = "ensure" => want'[k] # None)
        /\ \A x \in O!Keys : x \notin job'.todo /\ x # k => x \notin job.todo /\ x # job.key
    BY <2>1, OwnAssumption
  <2>4. Stepping'  BY <1>1, <2>1, <2>2, <2>3 DEF Stepping
  <2> QED  BY <1>1, <2>1, <2>4 DEF OwnedInv, OwnedTypes, Marked, Numbered, Tracked
<1> QED  BY <1>2, <1>3

(* The handler is through with the current rule id, or goes on with it. *)
LEMMA JobMoves ==
    ASSUME job \in Job
    PROVE  /\ O!Ends => /\ job' \in Job /\ job'.todo = job.todo
                         /\ job'.key = None /\ job'.step = "idle"
           /\ \A s \in {"recreate", "again"} : O!Goes(s) =>
                 job' \in Job /\ job'.todo = job.todo /\ job'.key = job.key /\ job'.step = s
BY DEF Job, O!Ends, O!Goes

(* A step of the handler for k that leaves table and bindings alone: what   *)
(* it is through with is as the server asks for, or a call failed.          *)
LEMMA HandlerLooks ==
    ASSUME OwnedInv, NEW k \in O!Keys, job.key = k,
           UNCHANGED <<want, rows, binds, edits>>, next' \in {next, next + 1},
           unsure \subseteq unsure', unsure' \subseteq unsure \cup {k},
           O!Ends \/ O!Goes("recreate")
                  \/ (O!Goes("again") /\ want[k] # None),
           k \notin unsure' => \A r \in rows : r.key = k /\ r.own =>
                 (O!Ends => r.content = want[k]) /\ ~ O!Goes("again")
    PROVE  OwnedInv'
<1>1. OwnedTypes /\ Marked /\ Numbered /\ Tracked /\ Stepping /\ job \in Job /\ k # None
  BY OwnAssumption DEF OwnedInv, OwnedTypes
<1>2. /\ job' \in Job /\ job'.todo = job.todo
      /\ \/ O!Ends /\ job'.key = None /\ job'.step = "idle"
         \/ O!Goes("recreate") /\ job'.key = k /\ job'.step = "recreate"
         \/ O!Goes("again") /\ job'.key = k /\ job'.step = "again" /\ want[k] # None
  BY <1>1, JobMoves
<1>3. Stepping'  BY <1>1, <1>2 DEF Stepping
<1>4. Numbered'
  <2>1. \A n \in Nat : n < next => n < next'  BY <1>1 DEF OwnedTypes
  <2>2. \A r \in rows : r.uuid \in Nat  BY <1>1, RowFields DEF OwnedTypes
  <2>3. \A j \in O!Keys : binds[j] # None => binds[j].uuid \in Nat
    BY <1>1 DEF OwnedTypes, O!Binding
  <2> QED  BY <1>1, <2>1, <2>2, <2>3 DEF Numbered
<1> QED  BY <1>1, <1>2, <1>3, <1>4 DEF OwnedInv, OwnedTypes, Marked, Tracked

(* A row of the Hub that no failed call is about is the bound row. *)
LEMMA OwnIsBound ==
    ASSUME OwnedInv, NEW k \in O!Keys \ unsure, NEW r \in rows, r.key = k, r.own
    PROVE  O!Bound(k) = {r} /\ r \in O!Deletable(k) /\ ~ O!Manual(k) /\ binds[k] # None
<1>1. binds[k] # None /\ binds[k].uuid = r.uuid /\ binds[k].print = r.content
  BY DEF OwnedInv, Tracked
<1>2. O!Bound(k) = {r}  BY <1>1 DEF O!Bound, OwnedInv, Numbered
<1> QED  BY <1>1, <1>2 DEF O!Deletable, O!Manual

(* The Hub adds its row for k, or somebody adds one. *)
LEMMA RowAdded ==
    ASSUME OwnedInv, NEW k \in O!Keys, NEW c \in Contents \cup {UserContent},
           NEW o \in BOOLEAN, o <=> c \in Contents,
           rows' = rows \cup {[uuid |-> next, key |-> k, content |-> c, own |-> o]},
           next' = next + 1
    PROVE  LET x == [uuid |-> next, key |-> k, content |-> c, own |-> o] IN
           /\ rows' \subseteq O!Row /\ next' \in Nat /\ Marked'
           /\ \A r \in rows' : r.uuid < next'
           /\ \A r, q \in rows' : r.uuid = q.uuid => r = q
           /\ x.uuid = next /\ x.key = k /\ x.content = c /\ x.own = o
           /\ \A r \in rows : r.uuid # next
<1> DEFINE x == [uuid |-> next, key |-> k, content |-> c, own |-> o]
<1>1. /\ rows \subseteq O!Row /\ next \in Nat /\ Marked /\ \A r \in rows : r.uuid < next
      /\ \A r, q \in rows : r.uuid = q.uuid => r = q
  BY DEF OwnedInv, OwnedTypes, Numbered
<1>2. x \in O!Row /\ x.uuid = next /\ x.key = k /\ x.content = c /\ x.own = o
  BY <1>1 DEF O!Row
<1>3. \A r \in rows : r.uuid \in Nat /\ r.uuid # next  BY <1>1, RowFields
<1> HIDE DEF x
<1>4. rows' = rows \cup {x}  BY DEF x
<1>5. Marked'  BY <1>1, <1>2, <1>4, OwnAssumption DEF Marked
<1>6. \A r \in rows' : r.uuid < next'  BY <1>1, <1>2, <1>3, <1>4
<1>7. \A r, q \in rows' : r.uuid = q.uuid => r = q  BY <1>1, <1>2, <1>3, <1>4
<1> QED  BY <1>1, <1>2, <1>3, <1>4, <1>5, <1>6, <1>7 DEF x

LEMMA EnsureStep ==
    ASSUME OwnedInv, NEW k \in O!Keys, O!ensure_firewall(k)
    PROVE  OwnedInv'
<1>1. /\ OwnedTypes /\ Marked /\ Numbered /\ Tracked /\ Stepping /\ job \in Job /\ k # None
      /\ job.key = k /\ job.step \in {"ensure", "again"} /\ want' = want /\ edits' = edits
      /\ want[k] \in Contents /\ binds \in [O!Keys -> O!Binding \cup {None}]
  BY OwnAssumption DEF OwnedInv, OwnedTypes, Stepping, O!ensure_firewall
<1>2. job.step = "again" => k \in unsure \/ \A r \in rows : ~ (r.key = k /\ r.own)
  BY <1>1 DEF Stepping
<1>3. O!VerifyFailed => IF job.step = "ensure" THEN O!Goes("recreate") ELSE O!Ends
  BY DEF O!VerifyFailed
<1> DEFINE Same == UNCHANGED <<rows, binds, next>>
<1>4. CASE O!Manual(k) /\ O!Ends /\ O!Works /\ Same
  BY <1>1, <1>4, OwnIsBound, HandlerLooks DEF O!Works
<1>5. CASE ~ O!Manual(k) /\ O!Differs(k) /\ O!VerifyFailed /\ O!Works /\ Same
  <2>1. O!Goes("recreate") => ~ O!Goes("again")  BY <1>1, JobMoves
  <2>2. O!Goes("recreate") => ~ O!Ends  BY <1>1, JobMoves
  <2>3. O!Ends => ~ O!Goes("again")  BY <1>1, JobMoves
  <2> QED  BY <1>1, <1>2, <1>3, <1>5, <2>1, <2>2, <2>3, HandlerLooks DEF O!Works
<1>6. CASE ~ O!Manual(k) /\ O!Bound(k) # {} /\ ~ O!Differs(k) /\ O!Ends /\ O!Works /\ Same
  <2>1. k \notin unsure => \A r \in rows : r.key = k /\ r.own => r.content = want[k]
    BY <1>6, OwnIsBound DEF O!Differs
  <2>2. ~ O!Goes("again")  BY <1>1, <1>6, JobMoves
  <2> QED  BY <1>1, <1>6, <2>1, <2>2, HandlerLooks DEF O!Works
<1>7. ASSUME O!Bound(k) = {} PROVE k \in unsure \/ \A r \in rows : ~ (r.key = k /\ r.own)
  BY <1>7, OwnIsBound
<1>8. CASE O!Bound(k) = {} /\ O!Full /\ O!Ends /\ O!Works /\ Same
  <2>1. ~ O!Goes("again")  BY <1>1, <1>8, JobMoves
  <2> QED  BY <1>1, <1>7, <1>8, <2>1, HandlerLooks DEF O!Works
<1>9. CASE O!Fails(k) /\ O!Ends /\ Same
  BY <1>1, <1>9, HandlerLooks DEF O!Fails
<1>10. CASE O!Bound(k) = {} /\ O!Adds(k) /\ next' = next + 1
  <2> DEFINE x == [uuid |-> next, key |-> k, content |-> want[k], own |-> TRUE]
  <2>1. ASSUME rows' = O!Added(k)
        PROVE  /\ rows' = rows \cup {x} /\ rows' \subseteq O!Row /\ next' \in Nat /\ Marked'
               /\ \A r \in rows' : r.uuid < next'
               /\ \A r, q \in rows' : r.uuid = q.uuid => r = q
               /\ x.uuid = next /\ x.key = k /\ x.content = want[k] /\ x.own
               /\ \A r \in rows : r.uuid # next
    <3>1. rows' = rows \cup {x}  BY <2>1 DEF O!Added
    <3> QED  BY <1>1, <1>10, <3>1, RowAdded
  <2> HIDE DEF x
  <2>2. \A j \in O!Keys : binds[j] # None => binds[j].uuid < next /\ binds[j].uuid # next
    BY <1>1 DEF Numbered, OwnedTypes, O!Binding
  <2>3. CASE O!Fails(k) /\ rows' \in {rows, O!Added(k)} /\ UNCHANGED binds /\ (O!Ends \/ O!VerifyFailed)
    <3>0. O!Ends \/ O!Goes("recreate")  BY <1>3, <2>3
    <3>1. CASE rows' = rows
      BY <1>1, <1>10, <2>3, <3>0, <3>1, HandlerLooks DEF O!Fails
    <3>2. CASE rows' = O!Added(k)
      <4>1. /\ unsure' = unsure \cup {k} /\ binds' = binds
            /\ job' \in Job /\ job'.todo = job.todo
            /\ \/ job'.key = None /\ job'.step = "idle"
               \/ job'.key = k /\ job'.step = "recreate"
        BY <1>1, <2>3, <3>0, JobMoves DEF O!Fails
      <4>2. Numbered'
        <5>1. \A j \in O!Keys : binds[j] # None => binds[j].uuid < next'
          BY <1>1, <1>10, <2>2 DEF OwnedTypes, O!Binding
        <5> QED  BY <1>1, <2>1, <2>2, <3>2, <4>1, <5>1 DEF Numbered
      <4>3. Tracked'  BY <1>1, <2>1, <3>2, <4>1 DEF Tracked
      <4>4. Stepping'  BY <1>1, <2>1, <3>2, <4>1 DEF Stepping
      <4> QED  BY <1>1, <2>1, <3>2, <4>1, <4>2, <4>3, <4>4 DEF OwnedInv, OwnedTypes
    <3> QED  BY <2>3, <3>1, <3>2
  <2>4. CASE /\ O!Works /\ rows' = O!Added(k) /\ O!Ends
             /\ \E r \in O!Matching(k) :
                  binds' = [binds EXCEPT ![k] = [uuid |-> r.uuid, print |-> r.content]]
    <3>1. PICK q \in O!Matching(k) :
               binds' = [binds EXCEPT ![k] = [uuid |-> q.uuid, print |-> q.content]]
      BY <2>4
    <3>2. q \in rows' /\ q.key = k /\ q.content = want[k] /\ q.own /\ q.uuid \in Nat
      <4>1. q \in rows' /\ q.key = k /\ q.content = want[k]  BY <2>4 DEF O!Matching
      <4> QED  BY <1>1, <2>1, <2>4, <4>1, RowFields, OwnAssumption DEF Marked
    <3>3. k \notin unsure => \A r \in rows' : r.key = k /\ r.own => r = q
      BY <1>7, <1>10, <2>1, <2>4, <3>2
    <3>4. /\ binds' \in [O!Keys -> O!Binding \cup {None}]
          /\ binds'[k] # None /\ binds'[k].uuid = q.uuid /\ binds'[k].print = q.content
          /\ \A j \in O!Keys \ {k} : binds'[j] = binds[j]
      <4>1. [uuid |-> q.uuid, print |-> q.content] \in O!Binding
        BY <1>1, <3>2 DEF O!Binding
      <4> QED  BY <1>1, <3>1, <4>1, OwnAssumption
    <3>5. /\ unsure' = unsure /\ job' \in Job /\ job'.todo = job.todo
          /\ job'.key = None /\ job'.step = "idle"
      BY <1>1, <2>4, JobMoves DEF O!Works
    <3>6. Numbered'
      <4>1. \A j \in O!Keys : binds[j] # None => binds[j].uuid < next'
        BY <1>1, <1>10, <2>2 DEF OwnedTypes, O!Binding
      <4> QED  BY <1>1, <2>1, <2>2, <2>4, <3>2, <3>4, <4>1 DEF Numbered
    <3>7. Tracked'  BY <1>1, <2>1, <2>4, <3>3, <3>4, <3>5 DEF Tracked
    <3>8. Stepping'  BY <1>1, <2>1, <2>4, <3>2, <3>3, <3>5 DEF Stepping
    <3> QED  BY <1>1, <2>1, <2>4, <3>4, <3>5, <3>6, <3>7, <3>8 DEF OwnedInv, OwnedTypes
  <2> QED  BY <1>10, <2>3, <2>4 DEF O!Adds
<1> QED
  BY <1>4, <1>5, <1>6, <1>8, <1>9, <1>10 DEF O!ensure_firewall

LEMMA RemoveStep ==
    ASSUME OwnedInv, NEW k \in O!Keys, O!remove_firewall(k)
    PROVE  OwnedInv'
<1>1. /\ OwnedTypes /\ Marked /\ Numbered /\ Tracked /\ Stepping /\ job \in Job /\ k # None
      /\ job.key = k /\ job.step = "recreate"
      /\ want' = want /\ edits' = edits /\ next' = next
      /\ binds \in [O!Keys -> O!Binding \cup {None}]
  BY OwnAssumption DEF OwnedInv, OwnedTypes, Stepping, O!remove_firewall
<1>2. O!Removed => IF want[k] # None THEN O!Goes("again") ELSE O!Ends
  BY <1>1 DEF O!Removed
(* Rows were deleted, perhaps, and the binding dropped, perhaps. *)
<1>3. ASSUME rows' \in {rows, rows \ O!Deletable(k)},
             binds' \in {binds, [binds EXCEPT ![k] = None]},
             unsure \subseteq unsure', unsure' \subseteq unsure \cup {k},
             O!Ends \/ O!Removed,
             k \notin unsure' => \A r \in rows' : ~ (r.key = k /\ r.own)
      PROVE  OwnedInv'
  <2>1. /\ job' \in Job /\ job'.todo = job.todo
        /\ \/ job'.key = None /\ job'.step = "idle"
           \/ job'.key = k /\ job'.step = "again" /\ want[k] # None
    BY <1>1, <1>2, <1>3, JobMoves
  <2>2. rows' \subseteq rows  BY <1>3
  <2>3. /\ binds' \in [O!Keys -> O!Binding \cup {None}]
        /\ \A j \in O!Keys : binds'[j] # None => binds'[j] = binds[j]
        /\ \A j \in O!Keys \ {k} : binds'[j] = binds[j]
    BY <1>1, <1>3
  <2>4. Marked'  BY <1>1, <2>2 DEF Marked
  <2>5. Numbered'  BY <1>1, <2>2, <2>3 DEF Numbered
  <2>6. Tracked'  BY <1>1, <1>3, <2>2, <2>3 DEF Tracked
  <2>7. Stepping'  BY <1>1, <1>3, <2>1, <2>2 DEF Stepping
  <2> QED  BY <1>1, <1>3, <2>1, <2>2, <2>3, <2>4, <2>5, <2>6, <2>7 DEF OwnedInv, OwnedTypes
<1>4. k \notin unsure => \A r \in rows : r.key = k /\ r.own =>
                             r \in O!Deletable(k) /\ binds[k] # None
  BY OwnIsBound
<1>5. CASE binds[k] = None /\ O!Removed /\ O!Works /\ UNCHANGED <<rows, binds>>
  BY <1>3, <1>4, <1>5 DEF O!Works
<1>6. CASE /\ binds[k] # None /\ O!Works /\ O!Removed
           /\ rows' = rows \ O!Deletable(k) /\ binds' = [binds EXCEPT ![k] = None]
  BY <1>3, <1>4, <1>6 DEF O!Works
<1>7. CASE /\ O!Fails(k) /\ O!Ends /\ UNCHANGED binds
           /\ rows' \in {rows, rows \ O!Deletable(k)}
  BY <1>3, <1>7 DEF O!Fails
<1>8. CASE O!Fails(k) /\ O!Removed /\ UNCHANGED rows /\ binds' = [binds EXCEPT ![k] = None]
  BY <1>3, <1>8 DEF O!Fails
<1> QED  BY <1>5, <1>6, <1>7, <1>8 DEF O!remove_firewall

(* The Hub dies in the handler, or somebody changes the table. *)
LEMMA OutsideStep ==
    ASSUME OwnedInv, O!Crash \/ O!UserEdits
    PROVE  OwnedInv'
<1>1. /\ OwnedTypes /\ Marked /\ Numbered /\ Tracked /\ Stepping /\ job \in Job
      /\ want' = want /\ binds' = binds
      /\ binds \in [O!Keys -> O!Binding \cup {None}] /\ rows \subseteq O!Row
  BY DEF OwnedInv, OwnedTypes, O!Crash, O!UserEdits
<1>2. CASE O!Crash
  <2>1. /\ UNCHANGED <<rows, next, edits>>
        /\ unsure' = unsure \cup job.todo \cup ({job.key} \ {None})
        /\ job' \in Job /\ job'.todo = {} /\ job'.key = None /\ job'.step = "idle"
    BY <1>2 DEF O!Crash, O!Idle, Job
  <2>2. /\ unsure' \subseteq O!Keys
        /\ \A x \in O!Keys \ unsure' : x \in O!Keys \ unsure /\ x \notin job.todo /\ x # job.key
    BY <1>1, <2>1, JobFields, OwnAssumption DEF OwnedTypes
  <2>3. Stepping'  BY <1>1, <2>1, <2>2 DEF Stepping
  <2> QED  BY <1>1, <2>1, <2>2, <2>3 DEF OwnedInv, OwnedTypes, Marked, Numbered, Tracked
<1>3. CASE O!UserEdits
  <2>1. job' = job /\ unsure' = unsure /\ edits' = edits + 1 /\ edits' \in Nat
    BY <1>1, <1>3 DEF O!UserEdits, OwnedTypes
  (* Own rows are rows of before, and rows of before keep uuid and rule id. *)
  <2>2. ASSUME rows' \subseteq O!Row, next' \in {next, next + 1}, Marked',
               \A r \in rows' : r.uuid < next',
               \A r, q \in rows' : r.uuid = q.uuid => r = q,
               \A r \in rows' : r.own => r \in rows,
               \A r \in rows' : r.uuid = next \/ \E q \in rows : q.uuid = r.uuid /\ q.key = r.key
        PROVE  OwnedInv'
    <3>1. next' \in Nat /\ next <= next'  BY <1>1, <2>2 DEF OwnedTypes
    <3>2. Numbered'
      <4>1. \A j \in O!Keys : binds[j] # None =>
              binds[j].uuid \in Nat /\ binds[j].uuid < next /\ binds[j].uuid < next'
        BY <1>1, <3>1 DEF Numbered, OwnedTypes, O!Binding
      <4>2. \A j \in O!Keys : binds[j] # None => binds[j].uuid # next
        BY <1>1, <4>1 DEF OwnedTypes
      <4> QED  BY <1>1, <2>2, <4>1, <4>2 DEF Numbered
    <3>3. Tracked'  BY <1>1, <2>1, <2>2 DEF Tracked
    <3>4. Stepping'  BY <1>1, <2>1, <2>2 DEF Stepping
    <3> QED  BY <1>1, <2>1, <2>2, <3>1, <3>2, <3>3, <3>4 DEF OwnedInv, OwnedTypes
  <2>3. ASSUME NEW r \in rows, rows' = rows \ {r}, next' = next PROVE OwnedInv'
    BY <1>1, <2>2, <2>3 DEF Marked, Numbered
  <2>4. ASSUME NEW r \in rows, next' = next,
               rows' = (rows \ {r}) \cup {O!ByUser(r)}
        PROVE  OwnedInv'
    <3> DEFINE x == O!ByUser(r)
    <3>1. /\ x \in O!Row /\ x.uuid = r.uuid /\ x.key = r.key
          /\ x.content = UserContent /\ x.own = FALSE
      BY <1>1 DEF O!Row, O!ByUser
    <3> HIDE DEF x
    <3>2. rows' = (rows \ {r}) \cup {x}  BY <2>4 DEF x
    <3>3. Marked'  BY <1>1, <3>1, <3>2 DEF Marked
    <3>4. \A q \in rows' : q.uuid < next'  BY <1>1, <2>4, <3>1, <3>2 DEF Numbered
    <3>5. \A p, q \in rows' : p.uuid = q.uuid => p = q  BY <1>1, <3>1, <3>2 DEF Numbered
    <3> QED  BY <1>1, <2>2, <2>4, <3>1, <3>2, <3>3, <3>4, <3>5
  <2>5. ASSUME NEW k \in O!Keys, next' = next + 1,
               rows' = rows \cup {[uuid |-> next, key |-> k, content |-> UserContent, own |-> FALSE]}
        PROVE  OwnedInv'
    <3> DEFINE x == [uuid |-> next, key |-> k, content |-> UserContent, own |-> FALSE]
    <3>1. /\ rows' \subseteq O!Row /\ Marked' /\ \A r \in rows' : r.uuid < next'
          /\ \A r, q \in rows' : r.uuid = q.uuid => r = q
          /\ x.uuid = next /\ x.own = FALSE
      BY <2>5, RowAdded, OwnAssumption
    <3> HIDE DEF x
    <3>2. rows' = rows \cup {x}  BY <2>5 DEF x
    <3> QED  BY <2>2, <2>5, <3>1, <3>2
  <2> QED  BY <1>3, <2>3, <2>4, <2>5 DEF O!UserEdits
<1> QED  BY <1>2, <1>3

LEMMA OwnedStep == OwnedInv /\ [O!Next]_O!vars => OwnedInv'
<1> SUFFICES ASSUME OwnedInv, [O!Next]_O!vars PROVE OwnedInv'
  OBVIOUS
<1>1. CASE UNCHANGED O!vars
  BY <1>1 DEF O!vars, OwnedInv, OwnedTypes, Marked, Numbered, Tracked, Stepping
<1> QED
  BY <1>1, RequestStep, EnsureStep, RemoveStep, OutsideStep DEF O!Next
-----------------------------------------------------------------------------
(* The mapping of a STUN rule (StunSync) *)

StunTypes ==
    /\ doc \in S!Rule \cup {None} /\ map \in S!Mapping \cup {Gone}
    /\ mapBind \in S!Binding \cup {None} /\ mapUnsure \in BOOLEAN /\ edits \in Nat
    /\ orphan \in BOOLEAN

(* A fingerprint is that of a mapping the Hub wrote. *)
OwnPrint(b) == b # None => b.print = None \/ ~ b.print.edited

(* What map m and binding b must be unless a write went unrecorded: the     *)
(* mapping is known, and differs from its fingerprint, or is said to have   *)
(* been changed, only if somebody did change it.                            *)
Recorded(m, b) ==
    /\ m # Gone => b # None /\ b.print # None /\ (b.print # m => edits > 0)
    /\ b # None /\ b.state = "manual_change" => edits > 0

StunInv ==
    /\ StunTypes /\ OwnPrint(mapBind)
    /\ ~ mapUnsure => Recorded(map, mapBind) /\ (map # Gone => doc # None \/ orphan)

(* What the user made of the mapping stays. *)
UserMapKept(m) == map # Gone /\ map.edited => m = map

(* The outcome of a call that ensures or removes the mapping. *)
Outcome(r) ==
    /\ r.map \in S!Mapping \cup {Gone} /\ r.bind \in S!Binding \cup {None}
    /\ r.unsure \in BOOLEAN /\ OwnPrint(r.bind)
    /\ ~ mapUnsure /\ ~ r.unsure => Recorded(r.map, r.bind) /\ UserMapKept(r.map)

LEMMA MappingFields ==
    /\ \A m \in S!Mapping : m.edited \in BOOLEAN /\ m # None /\ m # Gone
    /\ \A b \in S!Binding : b # None /\ b.print \in S!Mapping \cup {None}
    /\ \A m \in S!Mapping \cup {None}, s \in {"ready", "verify_failed", "manual_change", "error"} :
         LET b == [print |-> m, state |-> s] IN b \in S!Binding /\ b.print = m /\ b.state = s
    /\ \A rl \in S!Rule : S!Own(rl) \in S!Mapping /\ ~ S!Own(rl).edited
BY OwnAssumption DEF S!Mapping, S!Binding, S!Rule, S!Own

(* The binding with another state keeps its fingerprint. *)
LEMMA BindsFields ==
    ASSUME StunInv, NEW s \in {"verify_failed", "manual_change", "error"}
    PROVE  /\ S!Fingerprint \in S!Mapping \cup {None}
           /\ S!Binds(s) \in S!Binding /\ OwnPrint(S!Binds(s)) /\ S!Binds(s) # None
           /\ S!Binds(s).print = S!Fingerprint /\ S!Binds(s).state = s
           /\ (S!Fingerprint # None => mapBind # None /\ mapBind.print = S!Fingerprint)
           /\ (mapBind # None => S!Fingerprint = mapBind.print)
<1>1. /\ S!Fingerprint \in S!Mapping \cup {None}
      /\ (S!Fingerprint # None => mapBind # None /\ mapBind.print = S!Fingerprint)
      /\ (mapBind # None => S!Fingerprint = mapBind.print)
  BY MappingFields DEF S!Fingerprint, StunInv, StunTypes
<1>2. /\ S!Binds(s) \in S!Binding /\ S!Binds(s).print = S!Fingerprint
      /\ S!Binds(s).state = s
  BY <1>1, MappingFields DEF S!Binds
<1> QED  BY <1>1, <1>2, MappingFields DEF OwnPrint, StunInv

LEMMA OutcomeIs ==
    ASSUME NEW r, NEW m \in S!Mapping \cup {Gone}, NEW b \in S!Binding \cup {None},
           NEW u \in BOOLEAN, r.map = m, r.bind = b, r.unsure = u, OwnPrint(b),
           ~ mapUnsure /\ ~ u => Recorded(m, b) /\ UserMapKept(m)
    PROVE  Outcome(r)
BY DEF Outcome

LEMMA ReadyOutcome ==
    ASSUME StunInv, NEW m \in S!Mapping, ~ m.edited,
           map # Gone /\ map.edited /\ ~ mapUnsure => m = map
    PROVE  Outcome(S!Ready(m)) /\ S!Ready(m).end = "ready"
<1> DEFINE b == [print |-> m, state |-> "ready"]
<1>1. b \in S!Binding /\ b # None /\ b.print = m /\ b.state = "ready"  BY MappingFields
<1>2. /\ S!Ready(m).map = m /\ S!Ready(m).bind = b /\ S!Ready(m).end = "ready"
      /\ S!Ready(m).unsure = FALSE
  BY DEF S!Ready
<1> HIDE DEF b
<1>3. OwnPrint(b) /\ Recorded(m, b)  BY <1>1, MappingFields DEF OwnPrint, Recorded
<1>4. ~ mapUnsure => UserMapKept(m)  BY DEF UserMapKept
<1> QED  BY <1>1, <1>2, <1>3, <1>4, OutcomeIs

(* A call that keeps mapping and binding, or marks the binding only. *)
LEMMA KeptOutcome ==
    ASSUME StunInv, NEW s \in {"verify_failed", "manual_change", "error"},
           s = "manual_change" /\ ~ mapUnsure => edits > 0,
           NEW r, r.map = map, r.bind \in {mapBind, S!Binds(s)}, r.unsure = FALSE
    PROVE  Outcome(r)
<1> DEFINE b == r.bind
<1>1. b \in S!Binding \cup {None} /\ OwnPrint(b)  BY BindsFields DEF StunInv, StunTypes
<1>2. ~ mapUnsure => Recorded(map, b)  BY BindsFields DEF StunInv, Recorded
<1> HIDE DEF b
<1>3. r.bind = b  BY DEF b
<1>4. map \in S!Mapping \cup {Gone} /\ UserMapKept(map)  BY DEF StunInv, StunTypes, UserMapKept
<1> QED  BY <1>1, <1>2, <1>3, <1>4, OutcomeIs

LEMMA NoCallOutcome ==
    ASSUME StunInv
    PROVE  Outcome(S!NoCall)
<1> DEFINE k == S!NoCall
<1>1. k.map = map /\ k.bind = mapBind /\ k.unsure = FALSE  BY DEF S!NoCall
<1> HIDE DEF k
<1>2. Outcome(k)  BY <1>1, KeptOutcome
<1> QED  BY <1>2 DEF k

LEMMA EnsureOutcome ==
    ASSUME StunInv, NEW rl \in S!Rule, NEW o \in S!Outcomes
    PROVE  LET r == S!ensure_native_mapping(rl, o) IN
           /\ Outcome(r)
           /\ r.end # "ready" /\ ~ r.unsure => r.map = map
<1> DEFINE r == S!ensure_native_mapping(rl, o)
           Manual == map # Gone /\ S!Fingerprint \notin {None, map}
           Claim == Outcome(r) /\ (r.end # "ready" /\ ~ r.unsure => r.map = map)
<1>1. CASE o = "raised"
  <2>1. r.map = map /\ r.bind = mapBind /\ r.unsure = FALSE
    BY <1>1 DEF S!ensure_native_mapping
  <2> HIDE DEF r
  <2>2. Claim  BY <2>1, KeptOutcome
  <2> QED  BY <2>2 DEF r
<1>2. CASE o # "raised" /\ Manual
  <2>1. r.map = map /\ r.bind = S!Binds("manual_change") /\ r.unsure = FALSE
    BY <1>2 DEF S!ensure_native_mapping
  <2>2. ~ mapUnsure => edits > 0  BY <1>2, BindsFields DEF StunInv, Recorded
  <2> HIDE DEF r
  <2>3. Claim  BY <2>1, <2>2, KeptOutcome
  <2> QED  BY <2>3 DEF r
<1>3. ASSUME ~ Manual, ~ mapUnsure, map # Gone PROVE ~ map.edited
  BY <1>3, BindsFields, MappingFields DEF StunInv, Recorded, OwnPrint
<1>4. S!Own(rl) \in S!Mapping /\ ~ S!Own(rl).edited  BY MappingFields
<1>5. CASE o # "raised" /\ ~ Manual /\ map = S!Own(rl)
  <2>1. r = S!Ready(map)  BY <1>5 DEF S!ensure_native_mapping
  <2> QED  BY <1>4, <1>5, <2>1, ReadyOutcome
<1>6. CASE o # "raised" /\ ~ Manual /\ map # S!Own(rl)
  <2>1. r = S!Write(rl, o)  BY <1>6 DEF S!ensure_native_mapping
  <2>2. CASE o = "ok"
    <3>1. r = S!Ready(S!Own(rl))  BY <2>1, <2>2 DEF S!Write
    <3> QED  BY <1>3, <1>4, <1>6, <3>1, ReadyOutcome
  <2> DEFINE q == S!Write(rl, o)
  <2>3. CASE o = "unconfirmed"
    <3>1. ~ S!Done(o) /\ ~ S!Raises(o)  BY <2>3 DEF S!Done, S!Raises
    <3>2. q.map = map /\ q.bind = S!Binds("verify_failed") /\ q.unsure = FALSE
      BY <2>3, <3>1 DEF S!Write
    <3> HIDE DEF q
    <3>3. Outcome(q) /\ q.map = map  BY <3>2, KeptOutcome
    <3> QED  BY <2>1, <3>3 DEF q
  <2>4. CASE o \in {"raised_done", "unconfirmed_done"}
    <3>1. S!Done(o)  BY <2>4 DEF S!Done
    <3>2. /\ q.map = S!Own(rl) /\ q.unsure = TRUE
          /\ q.bind = IF S!Raises(o) THEN mapBind ELSE S!Binds("verify_failed")
      BY <2>4, <3>1 DEF S!Write
    <3>3. q.bind \in {mapBind, S!Binds("verify_failed")}  BY <3>2
    <3>4. q.bind \in S!Binding \cup {None} /\ OwnPrint(q.bind)
      BY <3>3, BindsFields DEF StunInv, StunTypes
    <3> HIDE DEF q
    <3>5. Outcome(q) /\ q.unsure = TRUE  BY <1>4, <3>2, <3>4, OutcomeIs
    <3> QED  BY <2>1, <3>5 DEF q
  <2> QED  BY <1>6, <2>2, <2>3, <2>4 DEF S!Outcomes
<1> QED  BY <1>1, <1>2, <1>5, <1>6

LEMMA RemoveOutcome ==
    ASSUME StunInv, NEW o \in S!Outcomes
    PROVE  LET r == S!remove_native_mapping(o) IN
           /\ Outcome(r)
           /\ r.end = "ready" /\ ~ r.unsure /\ ~ mapUnsure => r.map = Gone
           /\ ~ mapUnsure /\ r.map # Gone => map # Gone
<1> DEFINE r == S!remove_native_mapping(o)
           Manual == map # Gone /\ S!Fingerprint \notin {None, map}
           Claim == /\ Outcome(r)
                    /\ r.end = "ready" /\ ~ r.unsure /\ ~ mapUnsure => r.map = Gone
                    /\ ~ mapUnsure /\ r.map # Gone => map # Gone
<1>0. ~ mapUnsure /\ map # Gone => mapBind # None /\ S!Fingerprint # None
  BY BindsFields DEF StunInv, Recorded
<1>1. CASE mapBind = None
  <2>1. r.map = map /\ r.bind = mapBind /\ r.unsure = FALSE
    BY <1>1 DEF S!remove_native_mapping
  <2> HIDE DEF r
  <2>2. Claim  BY <1>0, <1>1, <2>1, KeptOutcome
  <2> QED  BY <2>2 DEF r
<1>2. CASE mapBind # None /\ (o = "raised" \/ Manual)
  <2>1. r.map = map /\ r.bind = mapBind /\ r.unsure = FALSE /\ r.end = "raised"
    BY <1>2 DEF S!remove_native_mapping
  <2> HIDE DEF r
  <2>2. Claim  BY <2>1, KeptOutcome
  <2> QED  BY <2>2 DEF r
<1>3. CASE /\ mapBind # None /\ ~ (o = "raised" \/ Manual)
           /\ map = Gone \/ S!Fingerprint = None
  <2>1. r.map = map /\ r.bind = None /\ r.unsure = FALSE
    BY <1>3 DEF S!remove_native_mapping
  <2> HIDE DEF r
  <2>2. OwnPrint(None) /\ map \in S!Mapping \cup {Gone}  BY DEF OwnPrint, StunInv, StunTypes
  <2>3. ~ mapUnsure => map = Gone  BY <1>0, <1>3
  <2>4. ~ mapUnsure => Recorded(map, None) /\ UserMapKept(map)
    BY <2>3 DEF Recorded, UserMapKept
  <2>5. Claim  BY <2>1, <2>2, <2>3, <2>4, OutcomeIs
  <2> QED  BY <2>5 DEF r
<1>4. CASE /\ mapBind # None /\ ~ (o = "raised" \/ Manual)
           /\ map # Gone /\ S!Fingerprint # None
  <2>1. /\ r.map = (IF S!Done(o) THEN Gone ELSE map)
        /\ r.bind = (IF S!Raises(o) THEN mapBind ELSE None)
        /\ r.unsure = ~ S!Done(o)
    BY <1>4 DEF S!remove_native_mapping
  <2>2. ~ mapUnsure => ~ map.edited
    BY <1>4, BindsFields, MappingFields DEF StunInv, Recorded, OwnPrint
  <2>3. /\ r.bind \in {mapBind, None} /\ r.map \in {map, Gone} /\ r.unsure \in BOOLEAN
        /\ (~ r.unsure => r.map = Gone)
    BY <2>1 DEF S!Done
  <2> HIDE DEF r
  <2> DEFINE b == r.bind
             m == r.map
             u == r.unsure
  <2>4. b \in S!Binding \cup {None} /\ OwnPrint(b) /\ m \in S!Mapping \cup {Gone}
    BY <2>3 DEF OwnPrint, StunInv, StunTypes
  <2>5. ~ mapUnsure /\ ~ u => Recorded(m, b) /\ UserMapKept(m)
    BY <2>2, <2>3 DEF Recorded, UserMapKept, StunInv
  <2>6. u \in BOOLEAN  BY <2>3
  <2> HIDE DEF b, m, u
  <2>7. r.map = m /\ r.bind = b /\ r.unsure = u  BY DEF m, b, u
  <2>8. Outcome(r)  BY <2>4, <2>5, <2>6, <2>7, OutcomeIs
  <2>9. Claim  BY <1>4, <2>3, <2>8
  <2> QED  BY <2>9 DEF r
<1> QED  BY <1>1, <1>2, <1>3, <1>4

(* What a step must do: what the user made of the mapping is left alone,    *)
(* unless the user is at it or the Hub has lost track.                      *)
MapLeft == ~ mapUnsure' /\ map # Gone /\ map.edited => map' = map \/ edits' # edits

LEMMA StunInit == S!Init => StunInv
<1> SUFFICES ASSUME S!Init PROVE StunInv
  OBVIOUS
<1>1. doc \in S!Rule \cup {None}
  <2>1. \A t \in Targets : [enabled |-> TRUE, target |-> t, mode |-> "native"] \in S!Rule
    BY DEF S!Rule
  <2> QED  BY <2>1 DEF S!Init
<1>2. map = Gone /\ mapBind = None /\ mapUnsure = FALSE /\ orphan = FALSE /\ edits = 0  BY DEF S!Init
<1> QED  BY <1>1, <1>2 DEF StunInv, StunTypes, OwnPrint, Recorded

(* A handler's call, and the document it leaves. *)
LEMMA CallStep ==
    ASSUME StunInv, NEW r, Outcome(r), S!MappingCall(r),
           doc' \in S!Rule \cup {None}, edits' = edits, orphan' \in BOOLEAN,
           ~ mapUnsure /\ ~ r.unsure /\ r.map # Gone => doc' # None \/ orphan'
    PROVE  StunInv' /\ MapLeft
<1>1. /\ map' = r.map /\ mapBind' = r.bind /\ mapUnsure' = (mapUnsure \/ r.unsure)
      /\ mapUnsure \in BOOLEAN /\ edits \in Nat
  BY DEF S!MappingCall, StunInv, StunTypes
<1>2. StunTypes'  BY <1>1 DEF Outcome, StunTypes
<1>3. OwnPrint(mapBind)'  BY <1>1 DEF Outcome, OwnPrint
<1>4. ~ mapUnsure' => Recorded(map, mapBind)' /\ UserMapKept(map')
  BY <1>1 DEF Outcome, Recorded
<1>5. ~ mapUnsure' /\ map' # Gone => doc' # None \/ orphan'  BY <1>1
<1>6. MapLeft  BY <1>4 DEF MapLeft, UserMapKept
<1> QED  BY <1>2, <1>3, <1>4, <1>5, <1>6 DEF StunInv

(* A step that leaves the mapping and its binding alone. *)
LEMMA RestStep ==
    ASSUME StunInv, UNCHANGED <<map, mapBind, mapUnsure, orphan, edits>>,
           doc' \in S!Rule \cup {None}, doc # None => doc' # None
    PROVE  StunInv' /\ MapLeft
BY DEF StunInv, StunTypes, OwnPrint, Recorded, MapLeft

LEMMA RuleKinds ==
    /\ \A rl \in S!Rule : /\ rl # None /\ [rl EXCEPT !.enabled = TRUE] \in S!Rule
                          /\ [rl EXCEPT !.enabled = FALSE] \in S!Rule
    /\ \A rl \in S!Rule, t \in Targets : [rl EXCEPT !.target = t] \in S!Rule
BY OwnAssumption DEF S!Rule

LEMMA CreateStep ==
    ASSUME StunInv, NEW rl \in S!Rule, NEW o \in S!Outcomes, S!Create(rl, o)
    PROVE  StunInv' /\ MapLeft
<1> DEFINE e == S!ensure_native_mapping(rl, o)
           k == S!NoCall
<1>0. doc = None /\ edits' = edits /\ rl # None /\ orphan \in BOOLEAN
  BY RuleKinds DEF S!Create, StunInv, StunTypes
<1>1. CASE rl.enabled
  <2>1. /\ S!MappingCall(e)
        /\ IF e.end = "ready" THEN doc' = rl /\ orphan' = FALSE ELSE doc' = doc /\ orphan' = orphan
    BY <1>1 DEF S!Create, S!Refused
  <2>2. Outcome(e) /\ (e.end # "ready" /\ ~ e.unsure => e.map = map)  BY EnsureOutcome
  <2> HIDE DEF e
  <2>3. doc' \in S!Rule \cup {None} /\ orphan' \in BOOLEAN  BY <1>0, <2>1
  <2>4. ~ mapUnsure /\ ~ e.unsure /\ e.map # Gone => doc' # None \/ orphan'
    BY <1>0, <2>1, <2>2 DEF StunInv
  <2> QED  BY <1>0, <2>1, <2>2, <2>3, <2>4, CallStep
<1>2. CASE ~ rl.enabled
  <2>1. S!MappingCall(k) /\ doc' = rl /\ orphan' = FALSE
    BY <1>2 DEF S!Create, S!NoCall
  <2>2. Outcome(k)  BY NoCallOutcome
  <2> HIDE DEF k
  <2> QED  BY <1>0, <2>1, <2>2, CallStep
<1> QED  BY <1>1, <1>2

LEMMA EditStep ==
    ASSUME StunInv, NEW rl \in S!Rule, NEW o \in S!Outcomes, NEW f \in BOOLEAN,
           S!Edit(rl, o, f)
    PROVE  StunInv' /\ MapLeft
<1> DEFINE r == IF rl.enabled THEN S!ensure_native_mapping(rl, o)
                ELSE S!remove_native_mapping(o)
<1>1. doc # None /\ edits' = edits /\ rl # None /\ doc \in S!Rule \cup {None} /\ orphan' \in BOOLEAN
  BY RuleKinds DEF S!Edit, StunInv, StunTypes
<1>2. S!MappingCall(r) /\ doc' \in {doc, rl}
  BY DEF S!Edit, S!Refused
<1>3. Outcome(r)  BY EnsureOutcome, RemoveOutcome
<1> HIDE DEF r
<1>4. doc' \in S!Rule \cup {None} /\ doc' # None  BY <1>1, <1>2
<1> QED  BY <1>1, <1>2, <1>3, <1>4, CallStep

LEMMA DeleteStep ==
    ASSUME StunInv, NEW o \in S!Outcomes, NEW f \in BOOLEAN, S!Delete(o, f)
    PROVE  StunInv' /\ MapLeft
<1> DEFINE r == S!remove_native_mapping(o)
<1>1. doc # None /\ edits' = edits /\ doc \in S!Rule \cup {None} /\ orphan' \in BOOLEAN
  BY DEF S!Delete, StunInv, StunTypes
<1>2. S!MappingCall(r) /\ (doc' = doc \/ (doc' = None /\ r.end = "ready"))
  BY DEF S!Delete, S!Refused
<1>3. Outcome(r) /\ (r.end = "ready" /\ ~ r.unsure /\ ~ mapUnsure => r.map = Gone)
  BY RemoveOutcome
<1> HIDE DEF r
<1>4. doc' \in S!Rule \cup {None}  BY <1>1, <1>2
<1> QED  BY <1>1, <1>2, <1>3, <1>4, CallStep

LEMMA StartStopStep ==
    ASSUME StunInv, NEW o \in S!Outcomes, S!Start(o) \/ S!Stop(o)
    PROVE  StunInv' /\ MapLeft
<1>0. doc # None /\ edits' = edits /\ doc \in S!Rule /\ orphan' \in BOOLEAN
  BY DEF S!Start, S!Stop, StunInv, StunTypes
<1>1. CASE S!Start(o)
  <2> DEFINE r == S!ensure_native_mapping(doc, o)
             d == [doc EXCEPT !.enabled = TRUE]
  <2>1. S!MappingCall(r) /\ doc' \in {doc, d}  BY <1>1 DEF S!Start, S!Refused
  <2>2. Outcome(r)  BY <1>0, EnsureOutcome
  <2>3. d \in S!Rule  BY <1>0, RuleKinds
  <2> HIDE DEF r, d
  <2>4. doc' \in S!Rule /\ doc' # None  BY <1>0, <2>1, <2>3, RuleKinds
  <2> QED  BY <1>0, <2>1, <2>2, <2>4, CallStep
<1>2. CASE S!Stop(o)
  <2> DEFINE r == S!remove_native_mapping(o)
             d == [doc EXCEPT !.enabled = FALSE]
  <2>1. S!MappingCall(r) /\ doc' \in {doc, d}  BY <1>2 DEF S!Stop, S!Refused
  <2>2. Outcome(r)  BY RemoveOutcome
  <2>3. d \in S!Rule  BY <1>0, RuleKinds
  <2> HIDE DEF r, d
  <2>4. doc' \in S!Rule /\ doc' # None  BY <1>0, <2>1, <2>3, RuleKinds
  <2> QED  BY <1>0, <2>1, <2>2, <2>4, CallStep
<1> QED  BY <1>1, <1>2

(* A handler that ends early: the mapping is as its call left it, the rule  *)
(* is the old one or the new one.                                           *)
LEMMA DiesStep ==
    ASSUME StunInv, S!HandlerDies
    PROVE  StunInv' /\ MapLeft
<1>0. edits' = edits /\ "ok" \in S!Outcomes /\ doc \in S!Rule \cup {None} /\ orphan \in BOOLEAN
  BY DEF S!HandlerDies, S!Outcomes, StunInv, StunTypes
<1>1. PICK h \in S!Handled :
        /\ h.call.end = "ready" /\ S!MappingCall(h.call) /\ doc' \in {doc, h.rule}
        /\ orphan' = (doc' = None /\ (orphan \/ (h.rule # None /\ h.rule.enabled)))
  BY DEF S!HandlerDies
<1> DEFINE rl == h.rule
           c == h.call
<1>2. \/ rl \in S!Rule /\ rl.enabled /\ c = S!ensure_native_mapping(rl, "ok")
      \/ rl \in S!Rule /\ ~ rl.enabled /\ doc = None /\ c = S!NoCall
      \/ rl \in S!Rule /\ ~ rl.enabled /\ doc # None /\ c = S!remove_native_mapping("ok")
      \/ rl = None /\ doc # None /\ c = S!remove_native_mapping("ok")
  BY DEF S!Handled
<1>3. /\ c.end = "ready" /\ S!MappingCall(c) /\ doc' \in {doc, rl}
      /\ orphan' = (doc' = None /\ (orphan \/ (rl # None /\ rl.enabled)))
  BY <1>1
<1> HIDE DEF rl, c
<1>4. doc' \in S!Rule \cup {None} /\ orphan' \in BOOLEAN  BY <1>0, <1>2, <1>3
<1>5. CASE rl \in S!Rule /\ rl.enabled /\ c = S!ensure_native_mapping(rl, "ok")
  <2>1. Outcome(c)  BY <1>0, <1>5, EnsureOutcome
  <2>2. doc' # None \/ orphan'  BY <1>3, <1>5, RuleKinds
  <2> QED  BY <1>0, <1>3, <1>4, <2>1, <2>2, CallStep
<1>6. CASE rl \in S!Rule /\ ~ rl.enabled /\ doc = None /\ c = S!NoCall
  <2>1. Outcome(c) /\ c.map = map  BY <1>6, NoCallOutcome DEF S!NoCall
  <2>2. ~ mapUnsure /\ c.map # Gone => orphan  BY <1>6, <2>1 DEF StunInv
  <2>3. ~ mapUnsure /\ ~ c.unsure /\ c.map # Gone => doc' # None \/ orphan'  BY <1>3, <2>2
  <2> QED  BY <1>0, <1>3, <1>4, <2>1, <2>3, CallStep
<1>7. CASE doc # None /\ c = S!remove_native_mapping("ok")
  <2>1. Outcome(c) /\ (c.end = "ready" /\ ~ c.unsure /\ ~ mapUnsure => c.map = Gone)
    BY <1>0, <1>7, RemoveOutcome
  <2> QED  BY <1>0, <1>3, <1>4, <2>1, CallStep
<1> QED  BY <1>2, <1>5, <1>6, <1>7

(* The status report, which records a failed call in the binding. *)
LEMMA StatusStep ==
    ASSUME StunInv, NEW rl, NEW o \in S!Outcomes, S!agent_status(rl, o), edits' = edits
    PROVE  StunInv' /\ MapLeft
<1>0. doc' = doc /\ doc \in S!Rule \cup {None} /\ orphan' = orphan /\ orphan \in BOOLEAN
  BY DEF S!agent_status, StunInv, StunTypes
<1>1. CASE ~ (doc # None /\ doc.enabled)
  <2>1. UNCHANGED <<map, mapBind, mapUnsure>>  BY <1>1 DEF S!agent_status
  <2> QED  BY <1>0, <2>1, RestStep
<1>2. CASE doc # None /\ doc.enabled
  <2> DEFINE r == S!ensure_native_mapping(doc, o)
             q == [r EXCEPT !.bind = IF r.end = "raised" THEN S!Binds("error") ELSE r.bind]
  <2>1. S!MappingCall(q)  BY <1>2 DEF S!agent_status
  <2>2. Outcome(r)  BY <1>0, <1>2, EnsureOutcome
  <2>3. r.end = "raised" => r.bind = mapBind  BY DEF S!ensure_native_mapping, S!Write, S!Ready
  <2>4. /\ q.map = r.map /\ q.unsure = r.unsure
        /\ q.bind = IF r.end = "raised" THEN S!Binds("error") ELSE r.bind
    BY DEF S!ensure_native_mapping, S!Write, S!Ready
  <2> HIDE DEF q, r
  <2>5. CASE r.end # "raised"
    <3>1. Outcome(q)  BY <2>2, <2>4, <2>5 DEF Outcome
    <3> QED  BY <1>0, <1>2, <2>1, <3>1, CallStep
  <2>6. CASE r.end = "raised"
    <3> DEFINE b == S!Binds("error")
    <3>1. b \in S!Binding /\ OwnPrint(b) /\ b # None /\ b.print = S!Fingerprint /\ b.state = "error"
      BY BindsFields
    <3>2. mapBind # None => S!Fingerprint = mapBind.print  BY BindsFields
    <3> HIDE DEF b
    <3>3. ~ mapUnsure /\ ~ r.unsure => Recorded(r.map, b) /\ UserMapKept(r.map)
      BY <2>2, <2>3, <2>6, <3>1, <3>2 DEF Outcome, Recorded
    <3>4. q.map = r.map /\ q.unsure = r.unsure /\ q.bind = b  BY <2>4, <2>6 DEF b
    <3>5. Outcome(q)  BY <2>2, <3>1, <3>3, <3>4, OutcomeIs DEF Outcome
    <3> QED  BY <1>0, <1>2, <2>1, <3>5, CallStep
  <2> QED  BY <2>5, <2>6
<1> QED  BY <1>1, <1>2

LEMMA StunStep ==
    ASSUME StunInv, S!Next
    PROVE  StunInv' /\ MapLeft
<1> USE DEF S!hub
<1>0. doc \in S!Rule \cup {None}  BY DEF StunInv, StunTypes
<1>1. CASE S!App
  <2>1. ASSUME NEW t \in Targets, S!TargetMoves(t) PROVE StunInv' /\ MapLeft
    <3>1. doc # None /\ doc' = [doc EXCEPT !.target = t]  BY <2>1 DEF S!TargetMoves
    <3>2. doc' \in S!Rule /\ doc' # None  BY <1>0, <3>1, RuleKinds
    <3>3. UNCHANGED <<map, mapBind, mapUnsure, orphan, edits>>  BY <2>1 DEF S!TargetMoves
    <3> QED  BY <3>2, <3>3, RestStep
  <2> QED
    BY <1>1, <2>1, CreateStep, EditStep, DeleteStep, StartStopStep, DiesStep DEF S!App
<1>2. CASE S!agent_commands \/ S!Execute \/ S!Ack \/ S!ReadStatus \/ S!AgentRestart
  <2> DEFINE Aside == UNCHANGED <<doc, map, mapBind, mapUnsure, orphan, edits>>
  <2>1. S!agent_commands => Aside  BY Zenon DEF S!agent_commands
  <2>2. S!Execute => Aside  BY DEF S!Execute
  <2>3. S!Ack => Aside  BY DEF S!Ack
  <2>4. S!ReadStatus => Aside  BY DEF S!ReadStatus
  <2>5. S!AgentRestart => Aside  BY DEF S!AgentRestart
  <2> QED  BY <1>0, <1>2, <2>1, <2>2, <2>3, <2>4, <2>5, RestStep
<1>3. CASE \E o \in S!Outcomes : S!Report(o)
  <2>1. PICK o \in S!Outcomes : S!Report(o)  BY <1>3
  <2>2. edits' = edits /\ (S!agent_status(agent.report, o) \/ UNCHANGED S!hub)
    BY <2>1 DEF S!Report
  <2>3. CASE UNCHANGED S!hub  BY <1>0, <2>2, <2>3, RestStep
  <2> QED  BY <2>2, <2>3, StatusStep
<1>4. CASE S!LateServed
  <2>1. PICK m \in late : S!ServedLate(m)  BY <1>4 DEF S!LateServed
  <2>2. /\ edits' = edits /\ "ok" \in S!Outcomes
        /\ S!agent_status(m.rule, "ok") \/ UNCHANGED <<doc, map, mapBind, mapUnsure, orphan>>
    BY <2>1 DEF S!ServedLate, S!Outcomes
  <2>3. CASE UNCHANGED <<doc, map, mapBind, mapUnsure, orphan>>  BY <1>0, <2>2, <2>3, RestStep
  <2> QED  BY <2>2, <2>3, StatusStep
<1>5. CASE S!UserEdits
  <2>1. /\ map # Gone /\ edits' = edits + 1 /\ UNCHANGED <<doc, mapBind, mapUnsure, orphan>>
        /\ map' \in S!Mapping \cup {Gone}
    BY <1>5 DEF S!UserEdits
  <2>2. edits \in Nat /\ edits' > 0 /\ edits' # edits /\ edits' \in Nat
    BY <2>1 DEF StunInv, StunTypes
  <2> QED  BY <2>1, <2>2 DEF StunInv, StunTypes, OwnPrint, Recorded, MapLeft
<1> QED  BY <1>1, <1>2, <1>3, <1>4, <1>5 DEF S!Next, S!Sync

-----------------------------------------------------------------------------
(* The rules on the router, composed (RouterRules) *)

(* The component that runs keeps its invariant; the others rest where they  *)
(* began.                                                                   *)
RulesInv ==
    /\ focus \in {"follow", "owned", "stun"}
    /\ focus = "follow" => FollowInv
    /\ focus = "owned" => OwnedInv
    /\ focus # "owned" => rows = {}
    /\ focus = "stun" => StunInv
    /\ focus # "stun" => map = Gone /\ mapBind = None

LEMMA RulesInitially == RulesInit => RulesInv
<1> SUFFICES ASSUME RulesInit PROVE RulesInv
  OBVIOUS
<1>1. /\ focus \in {"follow", "owned", "stun"} /\ FollowInv /\ OwnedInv /\ StunInv
  BY FollowInit, OwnedInit, StunInit DEF RulesInit
<1>2. rows = {} /\ map = Gone /\ mapBind = None  BY DEF RulesInit, O!Init, S!Init
<1> QED  BY <1>1, <1>2 DEF RulesInv

(* Which component a step is of, and what it leaves alone. *)
LEMMA WhoMoves ==
    ASSUME RulesInv, [RulesNext]_rulesVars
    PROVE  \/ focus = "follow" /\ [Next]_vars /\ UNCHANGED <<focus, rows, map, mapBind>>
           \/ /\ focus = "owned" /\ [O!Next]_O!vars
              /\ UNCHANGED <<focus, rule, map, mapBind>>
           \/ focus = "stun" /\ S!Next /\ UNCHANGED <<focus, rule, rows>>
           \/ UNCHANGED rulesVars
BY DEF RulesNext, notFollow, notOwned, notStun, followVars, ownedVars, stunVars

LEMMA RulesStep == RulesInv /\ [RulesNext]_rulesVars => RulesInv'
<1> SUFFICES ASSUME RulesInv, [RulesNext]_rulesVars PROVE RulesInv'
  OBVIOUS
<1>1. CASE focus = "follow" /\ [Next]_vars /\ UNCHANGED <<focus, rows, map, mapBind>>
  <2>1. FollowInv'  BY <1>1, FollowStep DEF RulesInv
  <2> QED  BY <1>1, <2>1 DEF RulesInv
<1>2. CASE focus = "owned" /\ [O!Next]_O!vars /\ UNCHANGED <<focus, rule, map, mapBind>>
  <2>1. OwnedInv'  BY <1>2, OwnedStep DEF RulesInv
  <2> QED  BY <1>2, <2>1 DEF RulesInv
<1>3. CASE focus = "stun" /\ S!Next /\ UNCHANGED <<focus, rule, rows>>
  <2>1. StunInv'  BY <1>3, StunStep DEF RulesInv
  <2> QED  BY <1>3, <2>1 DEF RulesInv
<1>4. CASE UNCHANGED rulesVars
  <2>1. UNCHANGED vars /\ UNCHANGED O!vars /\ UNCHANGED focus /\ UNCHANGED <<rows, map, mapBind>>
    BY <1>4 DEF rulesVars, followVars, ownedVars, stunVars, vars, O!vars
  <2>2. FollowInv => FollowInv'  BY <2>1, FollowStep
  <2>3. OwnedInv => OwnedInv'  BY <2>1, OwnedStep
  <2>4. UNCHANGED <<map, mapBind, mapUnsure, orphan, edits, doc>>
    BY <1>4 DEF rulesVars, stunVars
  <2>5. StunInv => StunInv'
    BY <2>4 DEF StunInv, StunTypes, OwnPrint, Recorded
  <2> QED  BY <2>1, <2>2, <2>3, <2>5 DEF RulesInv
<1> QED  BY <1>1, <1>2, <1>3, <1>4, WhoMoves

LEMMA RulesInvariant == RulesSpec => []RulesInv
BY RulesInitially, RulesStep, PTL DEF RulesSpec

(* The Hub leaves nothing behind on the router: whatever order its calls    *)
(* fail in and whatever is done on the router meanwhile, a firewall rule of *)
(* its own is one the server asks for, in its one present form, unless a    *)
(* call about it failed (wireguard_service.py), and a port mapping is in    *)
(* the binding and belongs to a STUN rule, unless a write had an outcome    *)
(* nobody recorded or a POST ended between its mapping and its rule         *)
(* (stun_service.py).                                                       *)
THEOREM NothingForgotten == RulesSpec => []NothingLeftBehind
<1>1. RulesInv => NothingLeftBehind
  <2> SUFFICES ASSUME RulesInv PROVE NothingLeftBehind
    OBVIOUS
  <2>1. O!OnlyWantedRules
    <3> SUFFICES ASSUME job = O!Idle, NEW k \in O!Keys \ unsure,
                        NEW r \in rows, r.key = k, r.own
                 PROVE  r.content = want[k] /\ O!Bound(k) = {r}
      BY DEF O!OnlyWantedRules
    <3>1. OwnedInv  BY DEF RulesInv
    <3>2. k # None /\ job.todo = {} /\ job.key = None  BY OwnAssumption DEF O!Idle
    <3>3. r.content = want[k]  BY <3>1, <3>2 DEF OwnedInv, Stepping
    <3> QED  BY <3>1, <3>3, OwnIsBound
  <2>2. S!NoForgottenMapping
    <3> SUFFICES ASSUME map # Gone, ~ mapUnsure PROVE (doc # None \/ orphan) /\ S!Fingerprint # None
      BY DEF S!NoForgottenMapping
    <3>1. StunInv  BY DEF RulesInv
    <3> QED  BY <3>1 DEF StunInv, Recorded, S!Fingerprint
  <2> QED  BY <2>1, <2>2 DEF NothingLeftBehind
<1> QED  BY <1>1, RulesInvariant, PTL

(* reconcile writes an address into a followed rule only if the last two    *)
(* reconciles that resolved the mapping's address found this one, with none *)
(* in between that found another: although the two executions share one     *)
(* candidate and either may be cut off by a restart or a failed call        *)
(* (router/firewall_automation.py, _candidate_confirmed).                   *)
THEOREM WritesAreConfirmed == RulesSpec => OnlyConfirmedWritten
<1> DEFINE A == (\E w \in Who : Write(w) /\ rule' # rule)
                  => seen = <<rule'.addr, rule'.addr>>
<1>1. ASSUME FollowInv PROVE A
  <2> SUFFICES ASSUME NEW w \in Who, Write(w), rule' # rule
               PROVE  seen = <<rule'.addr, rule'.addr>>
    OBVIOUS
  <2>1. run[w].pc = "write" /\ rule' = [run[w].rule EXCEPT !.addr = run[w].want]
    BY DEF Write
  <2>2. /\ run[w].want \in Addrs /\ seen = <<run[w].want, run[w].want>> /\ run[w].rule # Gone
        /\ run[w] \in Run
    BY <1>1, <2>1 DEF FollowInv, Cleared, Writing, TypeOK
  <2>3. run[w].rule \in Rule  BY <2>2, RunFields
  <2>4. rule'.addr = run[w].want  BY <2>1, <2>2, <2>3 DEF Rule
  <2> QED  BY <2>2, <2>4
<1>2. RulesInv /\ [RulesNext]_rulesVars => [A]_vars
  <2> SUFFICES ASSUME RulesInv, [RulesNext]_rulesVars, focus # "follow" PROVE rule' = rule
    BY <1>1 DEF RulesInv
  <2> QED  BY WhoMoves DEF rulesVars, followVars
<1>3. OnlyConfirmedWritten <=> [][A]_vars  BY DEF OnlyConfirmedWritten
<1> HIDE DEF RulesInv, A
<1> QED  BY <1>2, <1>3, RulesInvariant, PTL DEF RulesSpec

(* What somebody did on the router by hand stands.  Followed rules: every   *)
(* reconcile after the edit, of the address alone or of other fields, reads *)
(* the edited rule and suspends the binding until the rule is what the Hub  *)
(* knew or the user adopts it again.  Owned rules: a row somebody wrote or  *)
(* edited never matches the fingerprint of a binding.  STUN: a mapping that *)
(* is not what the binding recorded is neither written nor deleted, and is  *)
(* called a manual change only if it is one.                                *)
THEOREM ManualWorkStands == RulesSpec => ManualWorkKept
<1> DEFINE A == (\E w \in Who : Write(w)) /\ rule' # rule => orig \in {None, rule}
           B == \A r \in rows : ~ r.own => r \in rows' \/ edits' # edits
           C == ~ mapUnsure' =>
                  /\ (map # Gone /\ map.edited => map' = map \/ edits' # edits)
                  /\ (mapBind' # None /\ mapBind'.state = "manual_change" => edits' > 0)
<1>1. ASSUME FollowInv PROVE A
  <2> SUFFICES ASSUME NEW w \in Who, Write(w), rule' # rule, orig # None
               PROVE  rule = orig
    OBVIOUS
  <2>1. run[w].pc = "write"  BY DEF Write
  <2>2. run[w].rule # Gone /\ run[w].rule = orig
    BY <1>1, <2>1 DEF FollowInv, Cleared, Unmoved, Writing
  <2> QED  BY <1>1, <2>1, <2>2 DEF FollowInv, Unmoved
<1>2. RulesInv /\ [RulesNext]_rulesVars => [A]_vars
  <2> SUFFICES ASSUME RulesInv, [RulesNext]_rulesVars, focus # "follow" PROVE rule' = rule
    BY <1>1 DEF RulesInv
  <2> QED  BY WhoMoves DEF rulesVars, followVars
<1>3. ASSUME OwnedInv, O!Next PROVE B
  <2> SUFFICES ASSUME NEW r \in rows, ~ r.own, edits' = edits PROVE r \in rows'
    OBVIOUS
  <2>1. \A k \in O!Keys : r \notin O!Deletable(k)
    <3> SUFFICES ASSUME NEW k \in O!Keys, r \in O!Deletable(k) PROVE FALSE
      OBVIOUS
    <3>1. r.content = UserContent  BY <1>3 DEF OwnedInv, Marked
    <3>2. binds[k] # None /\ r.content = binds[k].print  BY DEF O!Deletable, O!Bound
    <3>3. binds[k] \in O!Binding  BY <1>3, <3>2 DEF OwnedInv, OwnedTypes
    <3> QED  BY <3>1, <3>2, <3>3, OwnAssumption DEF O!Binding
  <2>2. CASE \E w \in O!Wants : O!Put(w)  BY <2>2 DEF O!Put
  <2>3. CASE \E k \in O!Keys : O!Begin(k)  BY <2>3 DEF O!Begin
  <2>4. CASE \E k \in O!Keys : O!ensure_firewall(k)
    BY <2>4 DEF O!ensure_firewall, O!Adds, O!Added
  <2>5. CASE \E k \in O!Keys : O!remove_firewall(k)
    BY <2>1, <2>5 DEF O!remove_firewall
  <2>6. CASE O!Crash  BY <2>6 DEF O!Crash
  <2>7. CASE O!UserEdits
    BY <1>3, <2>7 DEF O!UserEdits, OwnedInv, OwnedTypes
  <2> QED  BY <1>3, <2>2, <2>3, <2>4, <2>5, <2>6, <2>7 DEF O!Next
<1>4. RulesInv /\ [RulesNext]_rulesVars => [B]_O!vars
  <2> SUFFICES ASSUME RulesInv, [RulesNext]_rulesVars, ~ UNCHANGED O!vars PROVE B
    OBVIOUS
  <2>1. CASE focus = "owned"
    <3>1. [O!Next]_O!vars  BY <2>1, WhoMoves DEF rulesVars, ownedVars, O!vars
    <3> QED  BY <1>3, <2>1, <3>1 DEF RulesInv
  <2> QED  BY <2>1 DEF RulesInv
<1>5. RulesInv /\ [RulesNext]_rulesVars => [C]_S!vars
  <2> SUFFICES ASSUME RulesInv, [RulesNext]_rulesVars, ~ UNCHANGED S!vars PROVE C
    OBVIOUS
  <2>1. CASE focus = "stun"
    <3>1. S!Next  BY <2>1, WhoMoves DEF rulesVars, stunVars, S!vars
    <3>2. StunInv' /\ MapLeft  BY <2>1, <3>1, StunStep DEF RulesInv
    <3> QED  BY <3>2 DEF StunInv, Recorded, MapLeft
  <2>2. CASE focus # "stun"
    <3>1. RulesInv' /\ focus' = focus  BY RulesStep, WhoMoves DEF rulesVars
    <3> QED  BY <2>2, <3>1 DEF RulesInv
  <2> QED  BY <2>1, <2>2
<1>6. ManualWorkKept <=> [][A]_vars /\ [][B]_O!vars /\ [][C]_S!vars
  BY DEF ManualWorkKept, QuietEditKept, O!UserRulesKept, S!ManualChangeKept
<1> HIDE DEF RulesInv, A, B, C
<1> QED  BY <1>2, <1>4, <1>5, <1>6, RulesInvariant, PTL DEF RulesSpec

-----------------------------------------------------------------------------
(* The types: the commands of a STUN rule, the daemon and the agent *)

(* The cardinality the instances use is the one of FiniteSets. *)
LEMMA SameCardinality ==
    \A X : S!Cardinality(X) = Cardinality(X) /\ O!Cardinality(X) = Cardinality(X)
BY DEF S!Cardinality, Cardinality, O!Cardinality, S!IsFiniteSet, O!IsFiniteSet, IsFiniteSet

LEMMA FirstNumbers ==
    ASSUME NEW n \in Nat
    PROVE  IsFiniteSet(1 .. n) /\ Cardinality(1 .. n) = n
<1>1. IsFiniteSet(1 .. n) /\ Cardinality(1 .. n) = IF 1 > n THEN 0 ELSE n - 1 + 1
  BY FS_Interval
<1> QED  BY <1>1

(* The open rows: one per action, and one that was never handed out has no  *)
(* delivery counted.                                                        *)
Tidy(q) ==
    /\ q \in Seq(S!Command)
    /\ \A i, j \in DOMAIN q : q[i].action = q[j].action => i = j
    /\ \A i \in DOMAIN q : q[i].status = "pending" => q[i].attempts = 0

LEMMA CommandFields ==
    ASSUME NEW c \in S!Command
    PROVE  /\ c.id \in S!Ids /\ c.action \in S!Actions /\ c.rule \in S!Rule \cup {None}
           /\ c.status \in {"pending", "delivered"} /\ c.attempts \in 0 .. MaxAttempts
BY DEF S!Command

(* The rows at some positions, in their order. *)
LEMMA PickedRows ==
    ASSUME NEW q \in Seq(S!Command), NEW X \in SUBSET DOMAIN q, NEW r \in S!Picked(q, X)
    PROVE  /\ r \in Seq(S!Command)
           /\ (X # {} => r # <<>>)
           /\ (X = {} => r = <<>>)
           /\ \E p \in [DOMAIN r -> X] : /\ \A n \in DOMAIN r : r[n] = q[p[n]]
                                         /\ \A n, m \in DOMAIN r : p[n] = p[m] => n = m
<1>1. IsFiniteSet(X)
  <2>1. DOMAIN q = 1 .. Len(q) /\ Len(q) \in Nat  OBVIOUS
  <2> QED  BY <2>1, FirstNumbers, FS_Subset
<1> DEFINE c == S!Cardinality(X)
<1>2. c \in Nat /\ (X = {} <=> c = 0)
  BY <1>1, SameCardinality, FS_CardinalityType, FS_EmptySet
<1>3. PICK p \in S!InOrder(X) : r = [n \in 1 .. c |-> q[p[n]]]
  BY DEF S!Picked
<1>4. p \in [1 .. c -> X] /\ \A j, k \in 1 .. c : j < k => p[j] < p[k]
  BY <1>3 DEF S!InOrder
<1> HIDE DEF c
<1>5. \A n \in 1 .. c : q[p[n]] \in S!Command /\ p[n] \in Nat  BY <1>4
<1>6. r \in Seq(S!Command) /\ DOMAIN r = 1 .. c /\ Len(r) = c  BY <1>2, <1>3, <1>5
<1>7. \A n, m \in 1 .. c : p[n] = p[m] => n = m
  <2> SUFFICES ASSUME NEW n \in 1 .. c, NEW m \in 1 .. c, p[n] = p[m], n # m PROVE FALSE
    OBVIOUS
  <2>1. n < m \/ m < n  BY <1>2
  <2> QED  BY <1>4, <1>5, <2>1
<1>8. (X # {} => r # <<>>) /\ (X = {} => r = <<>>)  BY <1>2, <1>6
<1>9. \A n \in DOMAIN r : r[n] = q[p[n]]  BY <1>3, <1>6
<1> QED  BY <1>4, <1>6, <1>7, <1>8, <1>9

LEMMA PickedTidy ==
    ASSUME NEW q, Tidy(q), NEW X \in SUBSET DOMAIN q, NEW r \in S!Picked(q, X)
    PROVE  Tidy(r) /\ \A n \in DOMAIN r : \E k \in X : r[n] = q[k]
<1>1. q \in Seq(S!Command)  BY DEF Tidy
<1>2. r \in Seq(S!Command)  BY <1>1, PickedRows
<1>3. PICK p \in [DOMAIN r -> X] : /\ \A n \in DOMAIN r : r[n] = q[p[n]]
                                   /\ \A n, m \in DOMAIN r : p[n] = p[m] => n = m
  BY <1>1, PickedRows
<1>4. \A n \in DOMAIN r : p[n] \in DOMAIN q /\ p[n] \in X  BY <1>3
<1> QED  BY <1>2, <1>3, <1>4 DEF Tidy

(* No more open rows than actions. *)
LEMMA TidyLength ==
    ASSUME NEW q, Tidy(q)
    PROVE  Len(q) <= S!Cardinality(S!Actions)
<1>1. q \in Seq(S!Command) /\ Len(q) \in Nat /\ DOMAIN q = 1 .. Len(q)  BY DEF Tidy
<1> DEFINE f == [n \in 1 .. Len(q) |-> q[n].action]
<1>2. f \in Injection(1 .. Len(q), S!Actions)
  <2>1. \A n \in 1 .. Len(q) : q[n].action \in S!Actions  BY <1>1, CommandFields
  <2> QED  BY <1>1, <2>1 DEF Injection, IsInjective, Tidy
<1>3. IsFiniteSet(S!Actions)
  <2>1. S!Actions = {"upsert", "stop"} \cup {"delete"}  BY DEF S!Actions
  <2>2. IsFiniteSet({"upsert"} \cup {"stop"})  BY FS_Singleton, FS_Union
  <2>3. {"upsert"} \cup {"stop"} = {"upsert", "stop"}  OBVIOUS
  <2> QED  BY <2>1, <2>2, <2>3, FS_Singleton, FS_Union
<1> HIDE DEF f
<1>4. Cardinality(1 .. Len(q)) <= Cardinality(S!Actions)  BY <1>2, <1>3, FS_Injection
<1> QED  BY <1>1, <1>4, FirstNumbers, SameCardinality

Agents == [pc : {"poll", "execute", "ack", "status", "report"}, todo : Seq(S!Command),
           done : SUBSET S!Ids, report : S!Rule \cup {None}]
FwStates == [row : {"none", "own", "edited"}, bound : BOOLEAN]

(* What the sync of a STUN rule keeps beside its mapping: tidy rows, finitely *)
(* many ids that anybody still knows, and a command to execute whenever the   *)
(* agent executes.                                                            *)
SyncInv ==
    /\ local \in S!Rule \cup {None} /\ Tidy(cmds) /\ fw \in FwStates
    /\ agent \in Agents /\ IsFiniteSet(agent.done)
    /\ agent.pc = "execute" => agent.todo # <<>>
    /\ late \subseteq S!Message /\ IsFiniteSet(late) /\ \A m \in late : IsFiniteSet(m.ids)
    /\ requests \in 0 .. MaxRequests /\ edits \in 0 .. MaxMapEdits /\ faults \in 0 .. MaxFaults

LEMMA AgentFields ==
    ASSUME NEW a \in Agents
    PROVE  /\ a.pc \in {"poll", "execute", "ack", "status", "report"} /\ a.todo \in Seq(S!Command)
           /\ a.done \subseteq S!Ids /\ a.report \in S!Rule \cup {None}
BY DEF Agents

LEMMA RowsFinite ==
    ASSUME NEW q \in Seq(S!Command)
    PROVE  IsFiniteSet({q[n].id : n \in DOMAIN q})
<1> DEFINE T == {q[n].id : n \in DOMAIN q}
           f == [n \in DOMAIN q |-> q[n].id]
<1>1. Len(q) \in Nat /\ DOMAIN q = 1 .. Len(q)  OBVIOUS
<1>2. f \in Surjection(DOMAIN q, T)  BY DEF Surjection
<1>3. IsFiniteSet(DOMAIN q)  BY <1>1, FirstNumbers
<1> HIDE DEF f, T
<1>4. IsFiniteSet(T)  BY <1>2, <1>3, FS_Surjection
<1> QED  BY <1>4 DEF T

(* An id nobody knows is found among the first ones: one more of them than   *)
(* there are known ids.                                                      *)
LEMMA FreshIds ==
    ASSUME SyncInv, NEW a \in S!Actions
    PROVE  S!Fresh(a) \in S!Ids
<1>1. IsFiniteSet(S!Known)
  <2> DEFINE A == {cmds[n].id : n \in DOMAIN cmds}
             B == {agent.todo[n].id : n \in DOMAIN agent.todo}
             L == {m.ids : m \in late}
             f == [m \in late |-> m.ids]
  <2>1. IsFiniteSet(A)  BY RowsFinite DEF SyncInv, Tidy
  <2>2. agent.todo \in Seq(S!Command)  BY AgentFields DEF SyncInv
  <2>3. IsFiniteSet(B)
    <3> DEFINE q == agent.todo
    <3> HIDE DEF q
    <3>1. IsFiniteSet({q[n].id : n \in DOMAIN q})  BY <2>2, RowsFinite DEF q
    <3> QED  BY <3>1 DEF q
  <2>4. IsFiniteSet(L)
    <3>1. f \in Surjection(late, L)  BY DEF Surjection
    <3> HIDE DEF f, L
    <3> QED  BY <3>1, FS_Surjection DEF SyncInv
  <2>5. \A X \in L : IsFiniteSet(X)  BY DEF SyncInv
  <2>6. S!Known = ((A \cup B) \cup agent.done) \cup UNION L  BY DEF S!Known
  <2> HIDE DEF A, B, L
  <2>7. IsFiniteSet(UNION L)  BY <2>4, <2>5, FS_UNION
  <2>8. IsFiniteSet(A \cup B)  BY <2>1, <2>3, FS_Union
  <2>9. IsFiniteSet((A \cup B) \cup agent.done)  BY <2>8, FS_Union DEF SyncInv
  <2> QED  BY <2>6, <2>7, <2>9, FS_Union
<1> DEFINE c == S!Cardinality(S!Known)
           f == [n \in 1 .. (c + 1) |-> <<a, n>>]
<1>2. c \in Nat /\ c = Cardinality(S!Known)  BY <1>1, SameCardinality, FS_CardinalityType
<1>3. \E n \in 1 .. (c + 1) : <<a, n>> \notin S!Known
  <2> SUFFICES ASSUME \A n \in 1 .. (c + 1) : <<a, n>> \in S!Known PROVE FALSE
    OBVIOUS
  <2> HIDE DEF c
  <2>1. f \in Injection(1 .. (c + 1), S!Known)  BY DEF Injection, IsInjective
  <2> HIDE DEF f
  <2>2. Cardinality(1 .. (c + 1)) <= Cardinality(S!Known)  BY <1>1, <2>1, FS_Injection
  <2>3. c + 1 <= c  BY <1>2, <2>2, FirstNumbers
  <2> QED  BY <1>2, <2>3
<1> DEFINE x == CHOOSE n \in 1 .. (c + 1) : <<a, n>> \notin S!Known
<1>4. x \in 1 .. (c + 1)  BY <1>3
<1>5. S!Fresh(a) = <<a, x>>  BY DEF S!Fresh
<1> HIDE DEF c, x
<1>6. x \in Nat \ {0}  BY <1>2, <1>4
<1> QED  BY <1>5, <1>6 DEF S!Ids

(* A new row in the place of the open one of its action. *)
LEMMA QueueTidy ==
    ASSUME SyncInv, NEW a \in S!Actions, NEW rl \in S!Rule \cup {None},
           NEW q \in S!queue(cmds, a, rl)
    PROVE  Tidy(q)
<1> DEFINE X == {n \in DOMAIN cmds : cmds[n].action # a}
           r == S!Row(a, rl)
<1>1. PICK p \in S!Picked(cmds, X) : q = Append(p, r)  BY DEF S!queue, S!Others
<1>2. /\ r \in S!Command /\ r.action = a /\ r.status = "pending" /\ r.attempts = 0
  <2> DEFINE x == S!Fresh(a)
  <2>1. x \in S!Ids  BY FreshIds
  <2> HIDE DEF x
  <2>2. r = [id |-> x, action |-> a, rule |-> rl, status |-> "pending", attempts |-> 0]
    BY DEF S!Row, x
  <2>3. 0 \in 0 .. MaxAttempts  BY LimitsAssumption
  <2> HIDE DEF r
  <2> QED  BY <2>1, <2>2, <2>3 DEF S!Command
<1>3. Tidy(p) /\ \A n \in DOMAIN p : \E k \in X : p[n] = cmds[k]
  BY PickedTidy DEF SyncInv
<1>4. \A n \in DOMAIN p : p[n].action # a  BY <1>3
<1> HIDE DEF r, X
<1>5. p \in Seq(S!Command) /\ Len(p) \in Nat  BY <1>3 DEF Tidy
<1>6. /\ q \in Seq(S!Command) /\ DOMAIN q = 1 .. (Len(p) + 1) /\ q[Len(p) + 1] = r
      /\ \A n \in 1 .. Len(p) : q[n] = p[n] /\ n \in DOMAIN p
  BY <1>1, <1>2, <1>5
<1>7. \A n \in DOMAIN q : n \in 1 .. Len(p) \/ n = Len(p) + 1  BY <1>5, <1>6
<1>8. \A i, j \in DOMAIN q : q[i].action = q[j].action => i = j
  BY <1>2, <1>3, <1>4, <1>6, <1>7 DEF Tidy
<1>9. \A i \in DOMAIN q : q[i].status = "pending" => q[i].attempts = 0
  BY <1>2, <1>3, <1>6, <1>7 DEF Tidy
<1> QED  BY <1>6, <1>8, <1>9 DEF Tidy

LEMMA CountedStep ==
    ASSUME NEW b \in Nat, NEW x \in 0 .. b, NEW y, y = x \/ (x < b /\ y = x + 1)
    PROVE  y \in 0 .. b
OBVIOUS

LEMMA FwKept ==
    ASSUME fw \in FwStates
    PROVE  S!FwRemoved \in FwStates /\ [S!FwRemoved EXCEPT !.bound = fw.bound] \in FwStates
BY DEF FwStates, S!FwRemoved

(* Counters move by one and within their bounds. *)
Counting ==
    /\ requests' = requests \/ (requests < MaxRequests /\ requests' = requests + 1)
    /\ edits' = edits \/ (edits < MaxMapEdits /\ edits' = edits + 1)
    /\ faults' = faults \/ (faults < MaxFaults /\ faults' = faults + 1)

LEMMA CountersKept ==
    ASSUME SyncInv, Counting
    PROVE  requests' \in 0 .. MaxRequests /\ edits' \in 0 .. MaxMapEdits /\ faults' \in 0 .. MaxFaults
BY CountedStep, BoundsAssumption, LimitsAssumption DEF SyncInv, Counting

(* The queue is left alone or has a new row. *)
Queues == \/ cmds' = cmds
          \/ \E a \in S!Actions, rl \in S!Rule \cup {None} : cmds' \in S!queue(cmds, a, rl)

LEMMA QueuesTidy ==
    ASSUME SyncInv, Queues
    PROVE  Tidy(cmds')
BY QueueTidy DEF Queues, SyncInv

(* A handler of the APP: agent, daemon and late requests are not concerned. *)
LEMMA HandlerStep ==
    ASSUME SyncInv, Queues, fw' \in {fw, S!FwRemoved}, Counting, UNCHANGED <<local, agent, late>>
    PROVE  SyncInv'
<1>1. Tidy(cmds)'  BY QueuesTidy DEF Tidy
<1>2. fw' \in FwStates  BY FwKept DEF SyncInv
<1> QED  BY <1>1, <1>2, CountersKept DEF SyncInv

LEMMA AppStep ==
    ASSUME SyncInv, doc \in S!Rule \cup {None}, S!App
    PROVE  SyncInv'
<1> DEFINE Shape2 == /\ Queues /\ fw' \in {fw, S!FwRemoved} /\ Counting
                     /\ UNCHANGED <<local, agent, late>>
<1>0. "upsert" \in S!Actions /\ "stop" \in S!Actions /\ "delete" \in S!Actions
  BY DEF S!Actions
<1>1. ASSUME NEW rl \in S!Rule, NEW o \in S!Outcomes, S!Create(rl, o) PROVE Shape2
  <2>1. Queues  BY <1>0, <1>1 DEF S!Create, Queues, S!Refused
  <2>2. Counting /\ fw' = fw /\ UNCHANGED <<local, agent, late>>
    BY <1>1 DEF S!Create, Counting, S!Request, S!Costs, S!Fault
  <2> QED  BY <2>1, <2>2
<1>2. ASSUME NEW rl \in S!Rule, NEW o \in S!Outcomes, NEW f \in BOOLEAN, S!Edit(rl, o, f)
      PROVE  Shape2
  <2>1. Queues /\ fw' \in {fw, S!FwRemoved}
    BY <1>0, <1>2 DEF S!Edit, Queues, S!Refused
  <2>2. Counting /\ UNCHANGED <<local, agent, late>>
    BY <1>2 DEF S!Edit, Counting, S!Request, S!Costs, S!Fault
  <2> QED  BY <2>1, <2>2
<1>3. ASSUME NEW o \in S!Outcomes, NEW f \in BOOLEAN, S!Delete(o, f) PROVE Shape2
  <2>1. Queues /\ fw' \in {fw, S!FwRemoved}
    BY <1>0, <1>3 DEF S!Delete, Queues, S!Refused
  <2>2. Counting /\ UNCHANGED <<local, agent, late>>
    BY <1>3 DEF S!Delete, Counting, S!Request, S!Costs, S!Fault
  <2> QED  BY <2>1, <2>2
<1>4. ASSUME NEW o \in S!Outcomes, S!Start(o) PROVE Shape2
  <2> DEFINE d == [doc EXCEPT !.enabled = TRUE]
  <2>1. doc \in S!Rule  BY <1>4 DEF S!Start
  <2>2. d \in S!Rule  BY <2>1, RuleKinds
  <2>3. cmds' = cmds \/ cmds' \in S!queue(cmds, "upsert", d)
    BY <1>4 DEF S!Start, S!Refused
  <2>4. Counting /\ fw' = fw /\ UNCHANGED <<local, agent, late>>
    BY <1>4 DEF S!Start, Counting, S!Request, S!Costs, S!Fault
  <2> HIDE DEF d
  <2> QED  BY <1>0, <2>2, <2>3, <2>4 DEF Queues
<1>5. ASSUME NEW o \in S!Outcomes, S!Stop(o) PROVE Shape2
  <2>1. Queues  BY <1>0, <1>5 DEF S!Stop, Queues, S!Refused
  <2>2. Counting /\ fw' = fw /\ UNCHANGED <<local, agent, late>>
    BY <1>5 DEF S!Stop, Counting, S!Request, S!Costs, S!Fault
  <2> QED  BY <2>1, <2>2
<1>6. ASSUME S!HandlerDies PROVE Shape2
  <2>1. cmds' = cmds /\ UNCHANGED <<local, agent, late, edits>>
    BY <1>6, Zenon DEF S!HandlerDies
  <2>2. S!Request /\ S!Fault  BY <1>6, Zenon DEF S!HandlerDies
  <2>3. fw' \in {fw, S!FwRemoved}
    <3>1. PICK h \in S!Handled :
            \/ fw' \in {fw, S!FwRemoved}
            \/ fw' \in {S!FwRemoved} \cup (IF S!Toggled(h.rule) THEN {fw} ELSE {})
      BY <1>6 DEF S!HandlerDies
    <3> QED  BY <3>1
  <2> QED  BY <2>1, <2>2, <2>3 DEF Queues, Counting, S!Request, S!Fault
<1>7. ASSUME NEW t \in Targets, S!TargetMoves(t) PROVE Shape2
  BY <1>7 DEF S!TargetMoves, Queues, Counting, S!Request
<1>8. Shape2  BY <1>1, <1>2, <1>3, <1>4, <1>5, <1>6, <1>7 DEF S!App
<1> QED  BY <1>8, HandlerStep

LEMMA AgentIs ==
    ASSUME NEW x \in {"poll", "execute", "ack", "status", "report"}, NEW t \in Seq(S!Command),
           NEW d \in SUBSET S!Ids, NEW rl \in S!Rule \cup {None}
    PROVE  LET a == [pc |-> x, todo |-> t, done |-> d, report |-> rl] IN
           a \in Agents /\ a.pc = x /\ a.todo = t /\ a.done = d /\ a.report = rl
BY DEF Agents

Steps == {"poll", "execute", "ack", "status", "report"}

LEMMA AgentAt ==
    ASSUME NEW a \in Agents, NEW x \in Steps, NEW b, b = [a EXCEPT !.pc = x]
    PROVE  b \in Agents /\ b.pc = x /\ b.done = a.done
BY DEF Agents, Steps

LEMMA QuietTypes == S!Quiet \in Agents /\ S!Quiet.pc = "poll" /\ S!Quiet.done = {}
<1>1. <<>> \in Seq(S!Command)  OBVIOUS
<1> DEFINE e == <<>>
<1>2. S!Quiet = [pc |-> "poll", todo |-> e, done |-> {}, report |-> None]  BY DEF S!Quiet
<1>3. e \in Seq(S!Command)  BY <1>1
<1> HIDE DEF e
<1> QED  BY <1>2, <1>3, AgentIs

LEMMA HandedOutTypes ==
    ASSUME NEW t \in Seq(S!Command)
    PROVE  LET a == S!HandedOut(t) IN
           /\ a \in Agents /\ a.todo = t /\ IsFiniteSet(a.done)
           /\ a.pc = "execute" => a.todo # <<>>
<1> DEFINE x == IF t = <<>> THEN "status" ELSE "execute"
           q == S!Quiet
           a == S!HandedOut(t)
<1>1. x \in Steps /\ (x = "execute" => t # <<>>)  BY DEF Steps
<1>2. a = [S!Quiet EXCEPT !.pc = x, !.todo = t]  BY DEF S!HandedOut
<1>3. a = [q EXCEPT !.pc = x, !.todo = t]  BY <1>2
<1>4. q \in Agents /\ q.done = {}  BY QuietTypes
<1> HIDE DEF x, q, a
<1>5. a \in Agents /\ a.pc = x /\ a.todo = t /\ a.done = q.done  
  BY <1>1, <1>3, <1>4 DEF Agents, Steps
<1> QED  BY <1>1, <1>4, <1>5, FS_EmptySet DEF a

(* The agent with nothing in hand. *)
LEMMA QuietAgent ==
    ASSUME NEW a, a \in {S!Quiet, [S!Quiet EXCEPT !.pc = "status"]}
    PROVE  a \in Agents /\ IsFiniteSet(a.done) /\ a.pc # "execute"
<1> DEFINE q == S!Quiet
<1>1. q \in Agents /\ q.pc = "poll" /\ q.done = {}  BY QuietTypes
<1>2. a = q \/ a = [q EXCEPT !.pc = "status"]  OBVIOUS
<1> HIDE DEF q
<1>3. a \in Agents /\ a.pc \in {"poll", "status"} /\ a.done = {}
  BY <1>1, <1>2, AgentAt DEF Steps
<1> QED  BY <1>3, FS_EmptySet

(* A row that is handed out. *)
LEMMA SentRow ==
    ASSUME NEW c \in S!Command, c.attempts < MaxAttempts
    PROVE  /\ S!Sent(c) \in S!Command /\ S!Sent(c).action = c.action
           /\ S!Sent(c).status = "delivered"
<1>1. c.attempts + 1 \in 0 .. MaxAttempts  BY CommandFields, LimitsAssumption
<1>2. S!Sent(c) = [c EXCEPT !.status = "delivered", !.attempts = c.attempts + 1]
  BY DEF S!Sent
<1> QED  BY <1>1, <1>2 DEF S!Command

LEMMA PollStep ==
    ASSUME SyncInv, S!agent_commands
    PROVE  SyncInv'
<1>1. PICK again \in SUBSET S!Retried :
         LET out  == again \cup {n \in DOMAIN cmds : cmds[n].status = "pending"}
             sent == [n \in DOMAIN cmds |-> IF n \in out THEN S!Sent(cmds[n]) ELSE cmds[n]]
         IN /\ cmds' = sent
            /\ \/ \E todo \in S!Picked(sent, out) : agent' = S!HandedOut(todo) /\ UNCHANGED faults
               \/ agent' = agent /\ S!Fault
  BY Zenon DEF S!agent_commands
<1>2. UNCHANGED <<fw, local, late, requests, edits>>  BY Zenon DEF S!agent_commands
<1> DEFINE out == again \cup {n \in DOMAIN cmds : cmds[n].status = "pending"}
           sent == [n \in DOMAIN cmds |-> IF n \in out THEN S!Sent(cmds[n]) ELSE cmds[n]]
<1>3. /\ cmds' = sent
      /\ \/ \E todo \in S!Picked(sent, out) : agent' = S!HandedOut(todo) /\ UNCHANGED faults
         \/ agent' = agent /\ S!Fault
  BY <1>1
<1>4. /\ cmds \in Seq(S!Command) /\ Tidy(cmds) /\ out \subseteq DOMAIN cmds
      /\ \A n \in DOMAIN cmds : cmds[n] \in S!Command
  BY DEF SyncInv, Tidy, S!Retried
<1>5. \A n \in out : S!Sent(cmds[n]) \in S!Command /\ S!Sent(cmds[n]).action = cmds[n].action
                     /\ S!Sent(cmds[n]).status = "delivered"
  <2> SUFFICES ASSUME NEW n \in out PROVE cmds[n].attempts < MaxAttempts
    BY <1>4, SentRow
  <2>1. CASE n \in again  BY <2>1 DEF S!Retried
  <2>2. CASE cmds[n].status = "pending"  BY <1>4, <2>2, LimitsAssumption DEF Tidy
  <2> QED  BY <2>1, <2>2
<1> HIDE DEF out
<1>6. /\ DOMAIN sent = DOMAIN cmds
      /\ \A n \in DOMAIN cmds : sent[n] = IF n \in out THEN S!Sent(cmds[n]) ELSE cmds[n]
  OBVIOUS
<1>7. sent \in Seq(S!Command)
  <2>1. \A n \in DOMAIN cmds : sent[n] \in S!Command  BY <1>4, <1>5, <1>6
  <2>2. DOMAIN cmds = 1 .. Len(cmds) /\ Len(cmds) \in Nat  BY <1>4
  <2>3. sent = [n \in 1 .. Len(cmds) |-> sent[n]]  BY <2>2
  <2> HIDE DEF sent
  <2> QED  BY <2>1, <2>2, <2>3
<1> HIDE DEF sent
<1>8. Tidy(sent)
  <2>1. \A n \in DOMAIN cmds : sent[n].action = cmds[n].action  BY <1>5, <1>6
  <2>2. \A n \in DOMAIN cmds : sent[n].status = "pending" => n \notin out  BY <1>5, <1>6
  <2> QED  BY <1>4, <1>6, <1>7, <2>1, <2>2 DEF Tidy
<1>9. agent' \in Agents /\ IsFiniteSet(agent'.done) /\ (agent'.pc = "execute" => agent'.todo # <<>>)
  <2>1. CASE agent' = agent  BY <2>1 DEF SyncInv
  <2>2. ASSUME NEW todo \in S!Picked(sent, out), agent' = S!HandedOut(todo)
        PROVE  agent' \in Agents /\ IsFiniteSet(agent'.done)
               /\ (agent'.pc = "execute" => agent'.todo # <<>>)
    <3>1. todo \in Seq(S!Command)  BY <1>4, <1>6, <1>7, PickedRows
    <3> QED  BY <2>2, <3>1, HandedOutTypes
  <2> QED  BY <1>3, <2>1, <2>2
<1>10. Counting  BY <1>2, <1>3 DEF Counting, S!Fault
<1>11. Tidy(cmds)'  BY <1>3, <1>8
<1> QED  BY <1>2, <1>9, <1>10, <1>11, CountersKept DEF SyncInv

LEMMA LastOne ==
    ASSUME NEW q \in Seq(S!Command), q # <<>>, Len(q) # 1
    PROVE  Tail(q) # <<>>
<1>1. Len(Tail(q)) = Len(q) - 1 /\ Len(q) \in Nat  OBVIOUS
<1>2. Len(Tail(q)) # 0  BY <1>1
<1>3. Len(<<>>) = 0  OBVIOUS
<1> QED  BY <1>2, <1>3, Zenon

LEMMA ExecuteStep ==
    ASSUME SyncInv, S!Execute
    PROVE  SyncInv'
<1> DEFINE c == Head(agent.todo)
           x == IF Len(agent.todo) = 1 THEN "ack" ELSE "execute"
<1>1. /\ agent \in Agents /\ agent.todo \in Seq(S!Command) /\ agent.todo # <<>>
      /\ agent.done \subseteq S!Ids /\ agent.report \in S!Rule \cup {None}
      /\ local \in S!Rule \cup {None} /\ IsFiniteSet(agent.done)
  BY AgentFields DEF SyncInv, S!Execute
<1>2. c \in S!Command /\ Tail(agent.todo) \in Seq(S!Command)  BY <1>1
<1>3. agent' = [agent EXCEPT !.todo = Tail(agent.todo), !.done = agent.done \cup {c.id}, !.pc = x]
  BY DEF S!Execute
<1>4. local' = S!Executed(c) \/ local' = local  BY DEF S!Execute
<1>5. faults' = faults \/ S!Fault  BY DEF S!Execute
<1>6. UNCHANGED <<cmds, fw, late, requests, edits>>  BY DEF S!Execute, S!hub
<1>7. c.id \in S!Ids /\ c.action \in S!Actions /\ c.rule \in S!Rule \cup {None}
  BY <1>2, CommandFields
<1>8. x = "execute" => Tail(agent.todo) # <<>>
  BY <1>1, LastOne
<1>9. x \in {"ack", "execute"}  OBVIOUS
<1> HIDE DEF c, x
<1>10. local' \in S!Rule \cup {None}
  <2>1. local # None => [local EXCEPT !.enabled = FALSE] \in S!Rule  BY <1>1, RuleKinds
  <2>2. S!Executed(c) \in S!Rule \cup {None}  BY <1>1, <1>7, <2>1 DEF S!Executed, S!Actions
  <2> QED  BY <1>1, <1>4, <2>2
<1> DEFINE td == Tail(agent.todo)
           dn == agent.done \cup {c.id}
<1>11. td \in Seq(S!Command) /\ dn \subseteq S!Ids /\ (x = "execute" => td # <<>>) /\ IsFiniteSet(dn)
  BY <1>1, <1>2, <1>7, <1>8, FS_AddElement
<1>12. agent' = [agent EXCEPT !.todo = td, !.done = dn, !.pc = x]  BY <1>3
<1> HIDE DEF td, dn
<1>13. agent' \in Agents /\ agent'.todo = td /\ agent'.done = dn /\ agent'.pc = x
  BY <1>1, <1>9, <1>11, <1>12 DEF Agents
<1>14. Counting  BY <1>5, <1>6 DEF Counting, S!Fault
<1>15. Tidy(cmds)'  BY <1>6 DEF SyncInv, Tidy
<1> QED  BY <1>6, <1>10, <1>11, <1>13, <1>14, <1>15, CountersKept DEF SyncInv

LEMMA MessageIs ==
    /\ \A m \in S!Message : m.ids \subseteq S!Ids /\ m.rule \in S!Rule \cup {None}
    /\ \A d \in SUBSET S!Ids : LET m == [kind |-> "ack", ids |-> d, rule |-> None] IN
         m \in S!Message /\ m.ids = d
    /\ \A rl \in S!Rule \cup {None} : LET m == [kind |-> "status", ids |-> {}, rule |-> rl] IN
         m \in S!Message /\ m.ids = {}
BY DEF S!Message

(* One more request that nobody waits for. *)
LEMMA LateKept ==
    ASSUME SyncInv, NEW m \in S!Message, IsFiniteSet(m.ids), late' = late \cup {m}
    PROVE  late' \subseteq S!Message /\ IsFiniteSet(late') /\ \A k \in late' : IsFiniteSet(k.ids)
BY FS_AddElement DEF SyncInv

LEMMA LateSame ==
    ASSUME SyncInv, late' \subseteq late
    PROVE  late' \subseteq S!Message /\ IsFiniteSet(late') /\ \A k \in late' : IsFiniteSet(k.ids)
BY FS_Subset DEF SyncInv

(* A step after which the agent has nothing in hand. *)
LEMMA QuietStep ==
    ASSUME SyncInv, agent' \in {S!Quiet, [S!Quiet EXCEPT !.pc = "status"]}, Tidy(cmds'),
           fw' \in FwStates, local' = local, Counting,
           late' \subseteq S!Message, IsFiniteSet(late'), \A k \in late' : IsFiniteSet(k.ids)
    PROVE  SyncInv'
<1>1. agent' \in Agents /\ IsFiniteSet(agent'.done) /\ agent'.pc # "execute"  BY QuietAgent
<1>2. Tidy(cmds)'  OBVIOUS
<1> QED  BY <1>1, <1>2, CountersKept DEF SyncInv

LEMMA AckedTidy ==
    ASSUME SyncInv, NEW d, cmds' \in S!AckedRows(d)
    PROVE  Tidy(cmds')
BY PickedTidy DEF S!AckedRows, SyncInv

LEMMA AckStep ==
    ASSUME SyncInv, S!Ack
    PROVE  SyncInv'
<1> DEFINE d == agent.done
           m == [kind |-> "ack", ids |-> d, rule |-> None]
<1>0. d \subseteq S!Ids /\ IsFiniteSet(d) /\ Tidy(cmds) /\ fw \in FwStates
  BY AgentFields DEF SyncInv
<1>1. /\ \/ /\ cmds' \in S!AckedRows(d) /\ agent' = [S!Quiet EXCEPT !.pc = "status"]
            /\ UNCHANGED <<late, faults>>
         \/ /\ S!Fault /\ agent' = S!Quiet /\ UNCHANGED cmds
            /\ late' = late \/ late' = late \cup {m}
      /\ UNCHANGED <<fw, local, requests, edits>>
  BY DEF S!Ack, S!Reports
<1>2. m \in S!Message /\ m.ids = d  BY <1>0, MessageIs
<1> HIDE DEF d, m
<1>3. Counting  BY <1>1 DEF Counting, S!Fault
<1>4. Tidy(cmds')  BY <1>0, <1>1, AckedTidy
<1>5. late' \subseteq S!Message /\ IsFiniteSet(late') /\ \A k \in late' : IsFiniteSet(k.ids)
  BY <1>0, <1>1, <1>2, LateKept, LateSame
<1>6. agent' \in {S!Quiet, [S!Quiet EXCEPT !.pc = "status"]}  BY <1>1
<1>7. fw' \in FwStates /\ local' = local  BY <1>0, <1>1
<1> QED  BY <1>3, <1>4, <1>5, <1>6, <1>7, QuietStep

LEMMA ReadStep ==
    ASSUME SyncInv, S!ReadStatus
    PROVE  SyncInv'
<1> DEFINE q == S!Quiet
<1>1. /\ agent' = [q EXCEPT !.pc = "report", !.report = local]
      /\ UNCHANGED <<cmds, fw, local, late, requests, edits, faults>>
  BY DEF S!ReadStatus, S!hub
<1>2. q \in Agents /\ q.done = {} /\ local \in S!Rule \cup {None}  BY QuietTypes DEF SyncInv
<1> HIDE DEF q
<1>3. agent' \in Agents /\ agent'.pc = "report" /\ agent'.done = {}
  BY <1>1, <1>2 DEF Agents
<1>4. Tidy(cmds)'  BY <1>1 DEF SyncInv, Tidy
<1> QED  BY <1>1, <1>3, <1>4, FS_EmptySet DEF SyncInv

(* What a status report does to queue and firewall entry. *)
LEMMA StatusKeeps ==
    ASSUME SyncInv, doc \in S!Rule \cup {None}, NEW rl, NEW o, S!agent_status(rl, o)
    PROVE  Tidy(cmds') /\ fw' \in FwStates
<1>1. cmds' \in S!Drift(rl)  BY DEF S!agent_status
<1>2. Queues
  <2>1. "upsert" \in S!Actions /\ "delete" \in S!Actions  BY DEF S!Actions
  <2> QED  BY <1>1, <2>1 DEF S!Drift, Queues
<1>3. fw' \in {fw, [S!FwRemoved EXCEPT !.bound = fw.bound]}  BY DEF S!agent_status
<1> QED  BY <1>2, <1>3, QueuesTidy, FwKept DEF SyncInv

LEMMA ReportStep ==
    ASSUME SyncInv, doc \in S!Rule \cup {None}, NEW o \in S!Outcomes, S!Report(o)
    PROVE  SyncInv'
<1> DEFINE rl == agent.report
           m == [kind |-> "status", ids |-> {}, rule |-> rl]
<1>0. rl \in S!Rule \cup {None} /\ Tidy(cmds) /\ fw \in FwStates
  BY AgentFields DEF SyncInv
<1>1. /\ agent' = S!Quiet /\ UNCHANGED <<local, requests, edits>>
      /\ \/ S!agent_status(rl, o) /\ S!Costs(o) /\ UNCHANGED late
         \/ /\ S!Fault /\ UNCHANGED S!hub
            /\ late' = late \/ late' = late \cup {m}
  BY DEF S!Report, S!Reports
<1>2. m \in S!Message /\ m.ids = {}  BY <1>0, MessageIs
<1> HIDE DEF rl, m
<1>3. Counting  BY <1>1 DEF Counting, S!Fault, S!Costs
<1>4. Tidy(cmds') /\ fw' \in FwStates  BY <1>0, <1>1, StatusKeeps DEF S!hub
<1>5. late' \subseteq S!Message /\ IsFiniteSet(late') /\ \A k \in late' : IsFiniteSet(k.ids)
  BY <1>1, <1>2, LateKept, LateSame, FS_EmptySet
<1>6. agent' \in {S!Quiet, [S!Quiet EXCEPT !.pc = "status"]}  BY <1>1
<1> QED  BY <1>1, <1>3, <1>4, <1>5, <1>6, QuietStep

LEMMA LateStep ==
    ASSUME SyncInv, doc \in S!Rule \cup {None}, S!LateServed
    PROVE  SyncInv'
<1>1. PICK m \in late : S!ServedLate(m)  BY DEF S!LateServed
<1>2. /\ late' = late \ {m} /\ UNCHANGED <<local, agent, requests, edits, faults>>
      /\ \/ cmds' \in S!AckedRows(m.ids) /\ fw' = fw
         \/ S!agent_status(m.rule, "ok")
  BY <1>1 DEF S!ServedLate
<1>3. Tidy(cmds') /\ fw' \in FwStates  BY <1>2, AckedTidy, StatusKeeps DEF SyncInv
<1>4. late' \subseteq S!Message /\ IsFiniteSet(late') /\ \A k \in late' : IsFiniteSet(k.ids)
  BY <1>2, LateSame
<1>5. Tidy(cmds)'  BY <1>3
<1> QED  BY <1>2, <1>3, <1>4, <1>5 DEF SyncInv

LEMMA SyncStep ==
    ASSUME SyncInv, doc \in S!Rule \cup {None}, S!Next
    PROVE  SyncInv'
<1>1. CASE S!AgentRestart
  <2>1. /\ agent' = S!Quiet /\ S!Fault /\ UNCHANGED <<cmds, fw, local, late, requests, edits>>
    BY <1>1 DEF S!AgentRestart, S!hub
  <2>2. Counting  BY <2>1 DEF Counting, S!Fault
  <2>3. Tidy(cmds') /\ fw' \in FwStates  BY <2>1 DEF SyncInv
  <2>4. late' \subseteq S!Message /\ IsFiniteSet(late') /\ \A k \in late' : IsFiniteSet(k.ids)
    BY <2>1 DEF SyncInv
  <2>5. agent' \in {S!Quiet, [S!Quiet EXCEPT !.pc = "status"]}  BY <2>1
  <2> QED  BY <2>1, <2>2, <2>3, <2>4, <2>5, QuietStep
<1>2. CASE S!UserEdits
  <2>1. /\ UNCHANGED <<cmds, fw, local, agent, late, requests, faults>>
        /\ edits < MaxMapEdits /\ edits' = edits + 1
    BY <1>2 DEF S!UserEdits
  <2>2. Counting  BY <2>1 DEF Counting
  <2>3. Tidy(cmds)'  BY <2>1 DEF SyncInv, Tidy
  <2> QED  BY <2>1, <2>2, <2>3, CountersKept DEF SyncInv
<1> QED
  BY <1>1, <1>2, AppStep, PollStep, ExecuteStep, AckStep, ReadStep, ReportStep, LateStep
     DEF S!Next, S!Sync

LEMMA SyncInit == S!Init => SyncInv
<1> SUFFICES ASSUME S!Init PROVE SyncInv
  OBVIOUS
<1>1. /\ agent = S!Quiet /\ late = {} /\ requests = 0 /\ edits = 0 /\ faults = 0  BY DEF S!Init
<1>2. agent \in Agents /\ IsFiniteSet(agent.done) /\ agent.pc # "execute"  BY <1>1, QuietAgent
<1>3. 0 \in 0 .. MaxRequests /\ 0 \in 0 .. MaxMapEdits /\ 0 \in 0 .. MaxFaults
  BY BoundsAssumption, LimitsAssumption
<1>4. local \in S!Rule \cup {None} /\ Tidy(cmds) /\ fw \in FwStates
  <2>1. CASE /\ doc = None /\ cmds = <<>> /\ local = None
             /\ fw = [row |-> "none", bound |-> FALSE]
    <3>1. cmds \in Seq(S!Command) /\ DOMAIN cmds = {}  BY <2>1
    <3> QED  BY <2>1, <3>1 DEF Tidy, FwStates
  <2>2. ASSUME NEW t \in Targets, NEW r \in {"own", "edited"},
               doc = [enabled |-> TRUE, target |-> t, mode |-> "native"],
               cmds = <<S!Upsert(doc)>>, local = [doc EXCEPT !.mode = "proxy"],
               fw = [row |-> r, bound |-> TRUE]
        PROVE  local \in S!Rule /\ Tidy(cmds) /\ fw \in FwStates
    <3>1. doc \in S!Rule /\ local \in S!Rule  BY <2>2 DEF S!Rule
    <3> DEFINE c == S!Upsert(doc)
    <3>2. c \in S!Command /\ c.attempts = 0
      <4>1. <<"upsert", 1>> \in S!Ids  BY DEF S!Ids, S!Actions
      <4> DEFINE x == <<"upsert", 1>>
                 dd == doc
      <4>2. c = [id |-> x, action |-> "upsert", rule |-> dd, status |-> "pending", attempts |-> 0]
        BY DEF S!Upsert
      <4>3. x \in S!Ids /\ dd \in S!Rule  BY <3>1, <4>1
      <4>4. 0 \in 0 .. MaxAttempts /\ "upsert" \in S!Actions  BY LimitsAssumption DEF S!Actions
      <4> HIDE DEF x, dd, c
      <4> QED  BY <4>2, <4>3, <4>4 DEF S!Command
    <3> HIDE DEF c
    <3>3. cmds = <<c>>  BY <2>2 DEF c
    <3>4. cmds \in Seq(S!Command) /\ DOMAIN cmds = {1} /\ cmds[1] = c  BY <3>2, <3>3
    <3>5. Tidy(cmds)  BY <3>2, <3>4 DEF Tidy
    <3> QED  BY <2>2, <3>1, <3>5 DEF FwStates
  <2> QED  BY <2>1, <2>2 DEF S!Init
<1> QED  BY <1>1, <1>2, <1>3, <1>4, FS_EmptySet DEF SyncInv

LEMMA SyncMeans == SyncInv /\ StunInv => S!TypeOK
<1> SUFFICES ASSUME SyncInv, StunInv PROVE S!TypeOK
  OBVIOUS
<1>1. Len(cmds) <= S!Cardinality(S!Actions)  BY TidyLength DEF SyncInv
<1>2. /\ agent.pc \in {"poll", "execute", "ack", "status", "report"}
      /\ agent.todo \in Seq(S!Command) /\ agent.report \in S!Rule \cup {None}
  BY AgentFields DEF SyncInv
<1>3. late \in SUBSET S!Message /\ cmds \in Seq(S!Command)  BY DEF SyncInv, Tidy
<1> QED  BY <1>1, <1>2, <1>3 DEF S!TypeOK, SyncInv, StunInv, StunTypes, FwStates

-----------------------------------------------------------------------------
(* The firewall rules the Hub owns: the table keeps its limit. *)

OwnedBounds ==
    /\ want \in O!Wants /\ IsFiniteSet(rows) /\ Cardinality(rows) <= MaxRows
    /\ puts \in 0 .. MaxPuts /\ edits \in 0 .. MaxTableEdits /\ faults \in 0 .. MaxFaults

LEMMA OwnedBoundsInit == O!Init => OwnedBounds
<1> SUFFICES ASSUME O!Init PROVE OwnedBounds
  OBVIOUS
<1>1. want \in O!Wants
  <2>1. want = [k \in O!Keys |-> None] /\ \A k \in Lan : k \in O!Keys  BY DEF O!Init, O!Keys
  <2>2. {k \in Lan : want[k] # None} = {}  BY <2>1
  <2>3. O!Cardinality({}) = 0  BY SameCardinality, FS_EmptySet
  <2>4. want \in [O!Keys -> Contents \cup {None}]  BY <2>1
  <2> QED  BY <2>2, <2>3, <2>4 DEF O!Wants
<1>2. rows = {} /\ puts = 0 /\ edits = 0 /\ faults = 0  BY DEF O!Init
<1> QED  BY <1>1, <1>2, FS_EmptySet, BoundsAssumption, LimitsAssumption DEF OwnedBounds

(* Fewer rows, one row in the place of another, or one more where there was  *)
(* room.                                                                     *)
LEMMA TableFits ==
    ASSUME IsFiniteSet(rows), Cardinality(rows) <= MaxRows,
           \/ rows' \subseteq rows
           \/ \E r \in rows : \E x : rows' = (rows \ {r}) \cup {x}
           \/ Cardinality(rows) < MaxRows /\ \E x : rows' = rows \cup {x}
    PROVE  IsFiniteSet(rows') /\ Cardinality(rows') <= MaxRows
<1>0. Cardinality(rows) \in Nat /\ MaxRows \in Nat  BY FS_CardinalityType, LimitsAssumption
<1>1. CASE rows' \subseteq rows
  <2>1. IsFiniteSet(rows') /\ Cardinality(rows') <= Cardinality(rows)  BY <1>1, FS_Subset
  <2>2. Cardinality(rows') \in Nat  BY <2>1, FS_CardinalityType
  <2> QED  BY <1>0, <2>1, <2>2
<1>2. ASSUME NEW r \in rows, NEW x, rows' = (rows \ {r}) \cup {x}
      PROVE  IsFiniteSet(rows') /\ Cardinality(rows') <= MaxRows
  <2> DEFINE d == rows \ {r}
  <2>1. IsFiniteSet(d) /\ Cardinality(d) = Cardinality(rows) - 1  BY FS_RemoveElement
  <2>2. rows' = d \cup {x}  BY <1>2
  <2> HIDE DEF d
  <2>3. IsFiniteSet(rows') /\ (Cardinality(rows') = Cardinality(d) \/ Cardinality(rows') = Cardinality(d) + 1)
    BY <2>1, <2>2, FS_AddElement
  <2> QED  BY <1>0, <2>1, <2>3
<1>3. ASSUME NEW x, rows' = rows \cup {x}, Cardinality(rows) < MaxRows
      PROVE  IsFiniteSet(rows') /\ Cardinality(rows') <= MaxRows
  <2>1. IsFiniteSet(rows')
        /\ (Cardinality(rows') = Cardinality(rows) \/ Cardinality(rows') = Cardinality(rows) + 1)
    BY <1>3, FS_AddElement
  <2> QED  BY <1>0, <1>3, <2>1
<1> QED  BY <1>1, <1>2, <1>3

LEMMA OwnedBoundsStep == OwnedInv /\ OwnedBounds /\ [O!Next]_O!vars => OwnedBounds'
<1> SUFFICES ASSUME OwnedInv, OwnedBounds, [O!Next]_O!vars PROVE OwnedBounds'
  OBVIOUS
<1> DEFINE Grows == /\ \/ rows' \subseteq rows
                       \/ \E r \in rows : \E x : rows' = (rows \ {r}) \cup {x}
                       \/ Cardinality(rows) < MaxRows /\ \E x : rows' = rows \cup {x}
                    /\ want' \in O!Wants
                    /\ puts' = puts \/ (puts < MaxPuts /\ puts' = puts + 1)
                    /\ edits' = edits \/ (edits < MaxTableEdits /\ edits' = edits + 1)
                    /\ faults' = faults \/ (faults < MaxFaults /\ faults' = faults + 1)
<1>0. /\ want \in O!Wants /\ IsFiniteSet(rows) /\ Cardinality(rows) <= MaxRows
      /\ Cardinality(rows) \in Nat /\ MaxRows \in Nat
  BY FS_CardinalityType, LimitsAssumption DEF OwnedBounds
<1>1. ASSUME Grows PROVE OwnedBounds'
  <2>1. IsFiniteSet(rows') /\ Cardinality(rows') <= MaxRows  BY <1>0, <1>1, TableFits
  <2>2. puts' \in 0 .. MaxPuts /\ edits' \in 0 .. MaxTableEdits /\ faults' \in 0 .. MaxFaults
    BY <1>1, CountedStep, BoundsAssumption, LimitsAssumption DEF OwnedBounds
  <2> QED  BY <1>1, <2>1, <2>2 DEF OwnedBounds
<1>2. CASE UNCHANGED O!vars  BY <1>0, <1>1, <1>2 DEF O!vars
<1>3. ASSUME NEW w \in O!Wants, O!Put(w) PROVE Grows
  BY <1>0, <1>3 DEF O!Put
<1>4. ASSUME NEW k \in O!Keys, O!Begin(k) PROVE Grows
  BY <1>0, <1>4 DEF O!Begin
<1>5. ASSUME NEW k \in O!Keys, O!ensure_firewall(k) PROVE Grows
  <2> DEFINE x == [uuid |-> next, key |-> k, content |-> want[k], own |-> TRUE]
  <2>1. rows' = rows \/ (~ O!Full /\ O!Adds(k))
    BY <1>5 DEF O!ensure_firewall
  <2>2. O!Adds(k) => rows' = rows \/ rows' = rows \cup {x}
    BY DEF O!Adds, O!Added
  <2>3. ~ O!Full => Cardinality(rows) < MaxRows  BY <1>0, SameCardinality DEF O!Full
  <2>4. UNCHANGED <<want, puts, edits>>  BY <1>5 DEF O!ensure_firewall
  <2>5. faults' = faults \/ (faults < MaxFaults /\ faults' = faults + 1)
    BY <1>5 DEF O!ensure_firewall, O!Adds, O!Works, O!Fails
  <2> HIDE DEF x
  <2> QED  BY <1>0, <2>1, <2>2, <2>3, <2>4, <2>5
<1>6. ASSUME NEW k \in O!Keys, O!remove_firewall(k) PROVE Grows
  <2>1. rows' \subseteq rows  BY <1>6 DEF O!remove_firewall
  <2>2. UNCHANGED <<want, puts, edits>>  BY <1>6 DEF O!remove_firewall
  <2>3. faults' = faults \/ (faults < MaxFaults /\ faults' = faults + 1)
    BY <1>6 DEF O!remove_firewall, O!Works, O!Fails
  <2> QED  BY <1>0, <2>1, <2>2, <2>3
<1>7. ASSUME O!Crash PROVE Grows
  BY <1>0, <1>7 DEF O!Crash
<1>8. ASSUME O!UserEdits PROVE Grows
  <2>1. UNCHANGED <<want, puts, faults>> /\ edits < MaxTableEdits /\ edits' = edits + 1
    BY <1>8 DEF O!UserEdits
  <2>2. CASE \E r \in rows : rows' \in {rows \ {r}, (rows \ {r}) \cup {O!ByUser(r)}}
    <3>1. PICK r \in rows : rows' \in {rows \ {r}, (rows \ {r}) \cup {O!ByUser(r)}}  BY <2>2
    <3> DEFINE x == O!ByUser(r)
    <3>2. rows' = rows \ {r} \/ rows' = (rows \ {r}) \cup {x}  BY <3>1
    <3> HIDE DEF x
    <3> QED  BY <1>0, <2>1, <3>2
  <2>3. ASSUME O!Cardinality(rows) < MaxRows, NEW k \in O!Keys,
               rows' = rows \cup {[uuid |-> next, key |-> k, content |-> UserContent, own |-> FALSE]}
        PROVE  Grows
    <3> DEFINE x == [uuid |-> next, key |-> k, content |-> UserContent, own |-> FALSE]
    <3>1. Cardinality(rows) < MaxRows  BY <2>3, SameCardinality
    <3>2. rows' = rows \cup {x}  BY <2>3
    <3> HIDE DEF x
    <3> QED  BY <1>0, <2>1, <3>1, <3>2
  <2> QED  BY <1>8, <2>2, <2>3 DEF O!UserEdits
<1> HIDE DEF Grows
<1> QED  BY <1>1, <1>2, <1>3, <1>4, <1>5, <1>6, <1>7, <1>8 DEF O!Next

LEMMA OwnedMeans == OwnedInv /\ OwnedBounds => O!TypeOK
<1> SUFFICES ASSUME OwnedInv, OwnedBounds PROVE O!TypeOK
  OBVIOUS
<1>1. O!Cardinality(rows) <= MaxRows  BY SameCardinality DEF OwnedBounds
<1>2. /\ job.todo \subseteq O!Keys /\ job.key \in O!Keys \cup {None}
      /\ job.step \in {"idle", "ensure", "recreate", "again"}
  BY JobFields DEF OwnedInv, OwnedTypes
<1> QED  BY <1>1, <1>2 DEF O!TypeOK, OwnedInv, OwnedTypes, OwnedBounds

-----------------------------------------------------------------------------
(* The types of the composition: the invariants above, with the bounds of   *)
(* the component that runs.                                                 *)
RulesTypes ==
    /\ RulesInv
    /\ focus = "owned" => OwnedBounds
    /\ focus = "stun" => SyncInv

LEMMA RulesTypesStep == RulesTypes /\ [RulesNext]_rulesVars => RulesTypes'
<1> SUFFICES ASSUME RulesTypes, [RulesNext]_rulesVars PROVE RulesTypes'
  OBVIOUS
<1>1. RulesInv /\ RulesInv'  BY RulesStep DEF RulesTypes
<1>2. CASE focus = "follow" /\ UNCHANGED focus  BY <1>1, <1>2 DEF RulesTypes
<1>3. CASE focus = "owned" /\ [O!Next]_O!vars /\ UNCHANGED focus
  <2>1. OwnedBounds'  BY <1>1, <1>3, OwnedBoundsStep DEF RulesTypes, RulesInv
  <2> QED  BY <1>1, <1>3, <2>1 DEF RulesTypes
<1>4. CASE focus = "stun" /\ S!Next /\ UNCHANGED focus
  <2>1. doc \in S!Rule \cup {None}  BY <1>1, <1>4 DEF RulesInv, StunInv, StunTypes
  <2>2. SyncInv'  BY <1>4, <2>1, SyncStep DEF RulesTypes
  <2> QED  BY <1>1, <1>4, <2>2 DEF RulesTypes
<1>5. CASE UNCHANGED rulesVars
  <2>1. UNCHANGED O!vars /\ UNCHANGED focus
    BY <1>5 DEF rulesVars, ownedVars, O!vars
  <2>2. OwnedInv /\ OwnedBounds => OwnedBounds'  BY <2>1, OwnedBoundsStep
  <2>3. UNCHANGED <<cmds, fw, local, agent, late, requests, edits, faults>>
    BY <1>5 DEF rulesVars, stunVars
  <2>4. SyncInv => SyncInv'
    <3>1. Tidy(cmds) => Tidy(cmds)'  BY <2>3 DEF Tidy
    <3> QED  BY <2>3, <3>1 DEF SyncInv
  <2> QED  BY <1>1, <2>1, <2>2, <2>4 DEF RulesTypes, RulesInv
<1> QED  BY <1>1, <1>2, <1>3, <1>4, <1>5, WhoMoves

(* Every component keeps its types whatever fails, crashes or comes late:   *)
(* the router's table never has more rows than it holds, whoever adds them  *)
(* (ensure_firewall looks at maxLen first), the command document of a STUN  *)
(* rule has one open row per action and no row is delivered more often than *)
(* the limit of agent_commands, although rows are handed out again, acked   *)
(* late and queued anew by every status report.                             *)
THEOREM RulesTypesKept == RulesSpec => []RulesTypeOK
<1>1. RulesInit => RulesTypes
  BY RulesInitially, OwnedBoundsInit, SyncInit DEF RulesInit, RulesTypes
<1>2. RulesTypes => RulesTypeOK
  <2> SUFFICES ASSUME RulesTypes PROVE RulesTypeOK
    OBVIOUS
  <2>1. focus = "follow" => TypeOK  BY DEF RulesTypes, RulesInv, FollowInv
  <2>2. focus = "owned" => O!TypeOK  BY OwnedMeans DEF RulesTypes, RulesInv
  <2>3. focus = "stun" => S!TypeOK  BY SyncMeans DEF RulesTypes, RulesInv
  <2> QED  BY <2>1, <2>2, <2>3 DEF RulesTypeOK
<1> QED  BY <1>1, <1>2, RulesTypesStep, PTL DEF RulesSpec

-----------------------------------------------------------------------------
(* The end of convergence of a STUN rule. *)

(* A command that changes nothing at a daemon whose copy of the rule is d. *)
Redundant(d, c) ==
    CASE c.action = "upsert" -> c.rule = d
      [] c.action = "delete" -> d = None
      [] c.action = "stop"   -> d = None \/ ~ d.enabled

AllRedundant(d, q) == \A k \in DOMAIN q : Redundant(d, q[k])

(* The daemon has the document's rule, and every command that is open or    *)
(* handed out is redundant.                                                 *)
RuleSettled == local = doc /\ AllRedundant(doc, cmds) /\ AllRedundant(doc, agent.todo)

LEMMA SameRedundant ==
    ASSUME NEW d, NEW c, NEW e, c.action = e.action, c.rule = e.rule, Redundant(d, c)
    PROVE  Redundant(d, e)
BY DEF Redundant

LEMMA PickedRedundant ==
    ASSUME NEW d, NEW q \in Seq(S!Command), NEW X \in SUBSET DOMAIN q, NEW r \in S!Picked(q, X),
           AllRedundant(d, q)
    PROVE  AllRedundant(d, r)
<1>1. PICK p \in [DOMAIN r -> X] : \A n \in DOMAIN r : r[n] = q[p[n]]  BY PickedRows
<1> QED  BY <1>1 DEF AllRedundant

LEMMA QueueRedundant ==
    ASSUME SyncInv, NEW d, NEW a, NEW x, AllRedundant(d, cmds),
           Redundant(d, S!Row(a, x)), NEW s \in S!queue(cmds, a, x)
    PROVE  AllRedundant(d, s)
<1> DEFINE X == {n \in DOMAIN cmds : cmds[n].action # a}
           r == S!Row(a, x)
<1>1. PICK p \in S!Picked(cmds, X) : s = Append(p, r)  BY DEF S!queue, S!Others
<1>2. Redundant(d, r)  OBVIOUS
<1> HIDE DEF r
<1>3. cmds \in Seq(S!Command)  BY DEF SyncInv, Tidy
<1>4. AllRedundant(d, p) /\ p \in Seq(S!Command)  BY <1>3, PickedRedundant, PickedRows
<1>6. Len(p) \in Nat /\ DOMAIN p = 1 .. Len(p)  BY <1>4
<1>7. /\ DOMAIN s = 1 .. (Len(p) + 1) /\ s[Len(p) + 1] = r
      /\ \A n \in 1 .. Len(p) : s[n] = p[n]
  BY <1>1, <1>4
<1>8. \A n \in DOMAIN s : n \in DOMAIN p \/ n = Len(p) + 1  BY <1>6, <1>7
<1> QED  BY <1>2, <1>4, <1>6, <1>7, <1>8 DEF AllRedundant

(* A report of any age is answered with redundant commands only. *)
LEMMA DriftRedundant ==
    ASSUME SyncInv, NEW rl, AllRedundant(doc, cmds), NEW s \in S!Drift(rl)
    PROVE  AllRedundant(doc, s)
<1>1. s = cmds \/ (doc = None /\ s \in S!queue(cmds, "delete", None))
               \/ s \in S!queue(cmds, "upsert", doc)
  BY DEF S!Drift
<1>2. CASE s = cmds  BY <1>2
<1>3. CASE doc = None /\ s \in S!queue(cmds, "delete", None)
  <2>1. Redundant(doc, S!Row("delete", None))  BY <1>3 DEF Redundant, S!Row
  <2> QED  BY <1>3, <2>1, QueueRedundant
<1>4. CASE s \in S!queue(cmds, "upsert", doc)
  <2>1. Redundant(doc, S!Row("upsert", doc))  BY DEF Redundant, S!Row
  <2> QED  BY <1>4, <2>1, QueueRedundant
<1> QED  BY <1>1, <1>2, <1>3, <1>4

LEMMA AckedRedundant ==
    ASSUME SyncInv, NEW d, NEW i, AllRedundant(d, cmds), cmds' \in S!AckedRows(i)
    PROVE  AllRedundant(d, cmds')
BY PickedRedundant DEF S!AckedRows, SyncInv, Tidy

(* A poll hands out and marks what is redundant. *)
LEMMA PollRedundant ==
    ASSUME SyncInv, NEW d, S!agent_commands, AllRedundant(d, cmds), AllRedundant(d, agent.todo)
    PROVE  AllRedundant(d, cmds') /\ AllRedundant(d, agent'.todo)
<1>1. PICK again \in SUBSET S!Retried :
         LET out  == again \cup {n \in DOMAIN cmds : cmds[n].status = "pending"}
             sent == [n \in DOMAIN cmds |-> IF n \in out THEN S!Sent(cmds[n]) ELSE cmds[n]]
         IN /\ cmds' = sent
            /\ \/ \E todo \in S!Picked(sent, out) : agent' = S!HandedOut(todo) /\ UNCHANGED faults
               \/ agent' = agent /\ S!Fault
  BY Zenon DEF S!agent_commands
<1> DEFINE out == again \cup {n \in DOMAIN cmds : cmds[n].status = "pending"}
           sent == [n \in DOMAIN cmds |-> IF n \in out THEN S!Sent(cmds[n]) ELSE cmds[n]]
<1>2. /\ cmds' = sent
      /\ \/ \E todo \in S!Picked(sent, out) : agent' = S!HandedOut(todo)
         \/ agent' = agent
  BY <1>1
<1>3. /\ cmds \in Seq(S!Command) /\ out \subseteq DOMAIN cmds
      /\ \A n \in DOMAIN cmds : cmds[n] \in S!Command
  BY DEF SyncInv, Tidy, S!Retried
<1>4. \A c \in S!Command : S!Sent(c).action = c.action /\ S!Sent(c).rule = c.rule
  BY DEF S!Sent, S!Command
<1> HIDE DEF out
<1>5. /\ DOMAIN sent = DOMAIN cmds
      /\ \A n \in DOMAIN cmds : sent[n] = IF n \in out THEN S!Sent(cmds[n]) ELSE cmds[n]
  OBVIOUS
<1> HIDE DEF sent
<1>6. AllRedundant(d, sent)  BY <1>3, <1>4, <1>5, SameRedundant DEF AllRedundant
<1>7. sent \in Seq(S!Command)
  <2>1. SyncInv'  BY PollStep
  <2>2. cmds' \in Seq(S!Command)  BY <2>1 DEF SyncInv, Tidy
  <2> QED  BY <1>2, <2>2
<1>8. AllRedundant(d, agent'.todo)
  <2>1. CASE agent' = agent  BY <2>1
  <2>2. ASSUME NEW todo \in S!Picked(sent, out), agent' = S!HandedOut(todo)
        PROVE  AllRedundant(d, agent'.todo)
    <3>1. todo \in Seq(S!Command) /\ AllRedundant(d, todo)
      BY <1>3, <1>5, <1>6, <1>7, PickedRows, PickedRedundant
    <3>2. agent'.todo = todo  BY <2>2, <3>1, HandedOutTypes
    <3> QED  BY <3>1, <3>2
  <2> QED  BY <1>2, <2>1, <2>2
<1> QED  BY <1>2, <1>6, <1>8

(* The daemon carries out a redundant command and keeps its copy. *)
LEMMA RedundantExecuted ==
    ASSUME local \in S!Rule \cup {None}, NEW c \in S!Command, Redundant(local, c)
    PROVE  S!Executed(c) = local
<1>1. c.action \in {"upsert", "stop", "delete"}  BY CommandFields DEF S!Actions
<1>2. CASE c.action = "stop" /\ local # None
  <2>1. local \in S!Rule /\ local.enabled = FALSE  BY <1>2 DEF Redundant, S!Rule
  <2>2. [local EXCEPT !.enabled = FALSE] = local  BY <2>1 DEF S!Rule
  <2> QED  BY <1>2, <2>2 DEF S!Executed
<1>3. CASE c.action = "stop" /\ local = None  BY <1>3 DEF S!Executed
<1>4. CASE c.action = "upsert"  BY <1>4 DEF S!Executed, Redundant
<1>5. CASE c.action = "delete"  BY <1>5 DEF S!Executed, Redundant
<1> QED  BY <1>1, <1>2, <1>3, <1>4, <1>5

LEMMA NothingRedundant == \A d : AllRedundant(d, <<>>)
BY DEF AllRedundant

LEMMA QuietTodo ==
    ASSUME local \in S!Rule \cup {None}, NEW a, a \in {S!Quiet, [S!Quiet EXCEPT !.pc = "status"],
                         [S!Quiet EXCEPT !.pc = "report", !.report = local]}
    PROVE  a.todo = <<>>
<1> DEFINE q == S!Quiet
           e == <<>>
<1>1. q.todo = e  BY DEF S!Quiet
<1>2. q \in Agents  BY QuietTypes
<1>3. a = q \/ a = [q EXCEPT !.pc = "status"] \/ a = [q EXCEPT !.pc = "report", !.report = local]
  OBVIOUS
<1> HIDE DEF q, e
<1>4. a.todo = q.todo  BY ONLY <1>2, <1>3 DEF Agents
<1> USE DEF e
<1> QED  BY <1>1, <1>4

(* A settled rule is unsettled by a request of the APP and by nothing else. *)
LEMMA SettledStep ==
    ASSUME SyncInv, doc \in S!Rule \cup {None}, RuleSettled, S!Next, ~ S!App
    PROVE  RuleSettled'
<1> USE DEF S!hub
<1> DEFINE d == doc
<1>0. /\ local = d /\ AllRedundant(d, cmds) /\ AllRedundant(d, agent.todo) /\ agent \in Agents
      /\ local \in S!Rule \cup {None}
  BY DEF RuleSettled, SyncInv
<1>1. ASSUME doc' = doc, local' = local, AllRedundant(d, cmds'), AllRedundant(d, agent'.todo)
      PROVE  RuleSettled'
  <2>1. AllRedundant(doc, cmds)' /\ AllRedundant(doc, agent.todo)'
    BY <1>1 DEF AllRedundant, Redundant
  <2> QED  BY <1>0, <1>1, <2>1 DEF RuleSettled
<1>s. \A rl, o : S!agent_status(rl, o) => doc' = doc /\ AllRedundant(d, cmds')
  <2> SUFFICES ASSUME NEW rl, NEW o, S!agent_status(rl, o) PROVE doc' = doc /\ AllRedundant(d, cmds')
    OBVIOUS
  <2>1. doc' = doc /\ cmds' \in S!Drift(rl)  BY DEF S!agent_status
  <2> QED  BY <1>0, <2>1, DriftRedundant
<1>2. CASE S!agent_commands
  <2>1. doc' = doc /\ local' = local  BY <1>2, Zenon DEF S!agent_commands
  <2>2. AllRedundant(d, cmds') /\ AllRedundant(d, agent'.todo)  BY <1>0, <1>2, PollRedundant
  <2> HIDE DEF d
  <2> QED  BY <1>1, <2>1, <2>2
<1>3. CASE S!Execute
  <2> DEFINE c == Head(agent.todo)
  <2>1. /\ agent.todo \in Seq(S!Command) /\ agent.todo # <<>>
    BY <1>0, <1>3, AgentFields DEF S!Execute, SyncInv
  <2>2. /\ doc' = doc /\ cmds' = cmds /\ (local' = S!Executed(c) \/ local' = local)
        /\ agent'.todo = Tail(agent.todo)
    BY <1>0, <1>3 DEF S!Execute, Agents
  <2>3. c \in S!Command /\ c = agent.todo[1] /\ 1 \in DOMAIN agent.todo  BY <2>1
  <2>4. Redundant(d, c)  BY <1>0, <2>3 DEF AllRedundant
  <2> HIDE DEF c
  <2>5. local' = local  BY <1>0, <2>2, <2>3, <2>4, RedundantExecuted
  <2>6. \A k \in DOMAIN Tail(agent.todo) :
           k + 1 \in DOMAIN agent.todo /\ Tail(agent.todo)[k] = agent.todo[k + 1]
    BY <2>1
  <2>7. AllRedundant(d, agent'.todo)  BY <1>0, <2>2, <2>6 DEF AllRedundant
  <2> QED  BY <1>0, <1>1, <2>2, <2>5, <2>7
<1>4. CASE S!Ack
  <2>1. /\ doc' = doc /\ local' = local /\ (cmds' = cmds \/ cmds' \in S!AckedRows(agent.done))
        /\ agent' \in {S!Quiet, [S!Quiet EXCEPT !.pc = "status"]}
    BY <1>4 DEF S!Ack
  <2>2. agent'.todo = <<>>  BY <1>0, <2>1, QuietTodo
  <2>3. AllRedundant(d, cmds')  BY <1>0, <2>1, AckedRedundant
  <2> QED  BY <1>1, <2>1, <2>2, <2>3, NothingRedundant
<1>5. CASE S!ReadStatus
  <2>1. /\ doc' = doc /\ local' = local /\ cmds' = cmds
        /\ agent' = [S!Quiet EXCEPT !.pc = "report", !.report = local]
    BY <1>5 DEF S!ReadStatus
  <2>2. agent'.todo = <<>>  BY <1>0, <2>1, QuietTodo
  <2> QED  BY <1>0, <1>1, <2>1, <2>2, NothingRedundant
<1>6. CASE \E o \in S!Outcomes : S!Report(o)
  <2>1. PICK o \in S!Outcomes : S!Report(o)  BY <1>6
  <2>2. /\ agent' = S!Quiet /\ local' = local
        /\ S!agent_status(agent.report, o) \/ (doc' = doc /\ cmds' = cmds)
    BY <2>1 DEF S!Report
  <2>3. agent'.todo = <<>>  BY <1>0, <2>2, QuietTodo
  <2>4. doc' = doc /\ AllRedundant(d, cmds')  BY <1>0, <1>s, <2>2
  <2> QED  BY <1>1, <2>2, <2>3, <2>4, NothingRedundant
<1>7. CASE S!LateServed
  <2>1. PICK m \in late : S!ServedLate(m)  BY <1>7 DEF S!LateServed
  <2>2. /\ agent' = agent /\ local' = local
        /\ S!agent_status(m.rule, "ok") \/ (doc' = doc /\ cmds' \in S!AckedRows(m.ids))
    BY <2>1 DEF S!ServedLate
  <2>3. doc' = doc /\ AllRedundant(d, cmds')  BY <1>0, <1>s, <2>2, AckedRedundant
  <2> QED  BY <1>0, <1>1, <2>2, <2>3
<1>8. CASE S!AgentRestart
  <2>1. agent' = S!Quiet /\ doc' = doc /\ local' = local /\ cmds' = cmds
    BY <1>8 DEF S!AgentRestart
  <2>2. agent'.todo = <<>>  BY <1>0, <2>1, QuietTodo
  <2> QED  BY <1>0, <1>1, <2>1, <2>2, NothingRedundant
<1>9. CASE S!UserEdits
  BY <1>0, <1>1, <1>9 DEF S!UserEdits
<1> QED  BY <1>2, <1>3, <1>4, <1>5, <1>6, <1>7, <1>8, <1>9 DEF S!Next, S!Sync

(* The steps that may end RuleSettled: requests of the APP. *)
RuleStaysSettled == [][focus = "stun" /\ RuleSettled => RuleSettled' \/ S!App]_rulesVars

(* Once the daemon has the document's STUN rule and nothing but redundant   *)
(* commands is under way, that stays so until the next request of the APP:  *)
(* a status report that reaches the Hub long after it was sent, a command   *)
(* handed out twice, a lost answer, a restart of the agent or a change made *)
(* on the router never makes the Hub (agent_status, queue) undo it.         *)
THEOREM SettledRuleStays == RulesSpec => RuleStaysSettled
<1> DEFINE A == focus = "stun" /\ RuleSettled => RuleSettled' \/ S!App
<1>1. RulesTypes /\ [RulesNext]_rulesVars => [A]_rulesVars
  <2> SUFFICES ASSUME RulesTypes, RulesNext, focus = "stun", RuleSettled, ~ S!App
               PROVE  RuleSettled'
    OBVIOUS
  <2>1. S!Next  BY DEF RulesNext
  <2>2. SyncInv /\ doc \in S!Rule \cup {None}  BY DEF RulesTypes, RulesInv, StunInv, StunTypes
  <2> QED  BY <2>1, <2>2, SettledStep
<1>2. RuleStaysSettled <=> [][A]_rulesVars  BY DEF RuleStaysSettled
<1>3. RulesInit => RulesTypes
  BY RulesInitially, OwnedBoundsInit, SyncInit DEF RulesInit, RulesTypes
<1> HIDE DEF A
<1> QED  BY <1>1, <1>2, <1>3, RulesTypesStep, PTL DEF RulesSpec
=============================================================================
