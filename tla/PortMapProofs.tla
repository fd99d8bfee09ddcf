---------------------------- MODULE PortMapProofs ----------------------------
(***************************************************************************)
(* Proofs about port mapping end to end, for every set of rules, ports and *)
(* commands, and for any number of edits and failures.                     *)
(***************************************************************************)
EXTENDS PortMapSync, FiniteSetTheorems, TLAPS

(* A nonempty set of naturals has a least element: the intervals 1 .. n    *)
(* are finite sets, which are well-founded by inclusion.                   *)
LEMMA LeastNat ==
    ASSUME NEW T \in SUBSET Nat, T # {}
    PROVE  \E x \in T : \A y \in T : x <= y
<1> DEFINE U == {1 .. n : n \in T}
<1>1. \A n \in T : 1 .. n \in FiniteSubsetsOf(Nat)
  <2>1. \A n \in T : IsFiniteSet(1 .. n)
    BY FS_Interval
  <2> QED
    BY <2>1 DEF FiniteSubsetsOf
<1>2. U \subseteq FiniteSubsetsOf(Nat) /\ U # {}
  BY <1>1
<1>3. PICK V \in U : \A W \in U : ~ (<<W, V>> \in StrictSubsetOrdering(Nat))
  BY <1>2, FS_StrictSubsetOrderingWellFounded, WFMin
<1>4. PICK x \in T : V = 1 .. x
  BY <1>3
<1>5. ASSUME NEW y \in T, y < x PROVE FALSE
  <2>1. 1 .. y \in U /\ 1 .. y \subseteq 1 .. x /\ x \in 1 .. x /\ x \notin 1 .. y
    BY <1>5
  <2>2. <<1 .. y, V>> \in StrictSubsetOrdering(Nat)
    BY <2>1, <1>4 DEF StrictSubsetOrdering
  <2> QED
    BY <2>1, <2>2, <1>3
<1> QED
  BY <1>4, <1>5

(* Max and Min of a nonempty set of positions are among them. *)
LEMMA Extremes ==
    ASSUME NEW n \in Nat, NEW S \in SUBSET (1 .. n), S # {}
    PROVE  /\ Max(S) \in S /\ \A y \in S : y <= Max(S)
           /\ Min(S) \in S /\ \A y \in S : Min(S) <= y
<1>1. \E x \in S : \A y \in S : x <= y
  BY LeastNat
<1> DEFINE T == {n - k : k \in S}
<1>2. T \subseteq Nat /\ T # {}
  OBVIOUS
<1>3. PICK z \in T : \A y \in T : z <= y
  BY <1>2, LeastNat
<1>4. PICK m \in S : z = n - m
  BY <1>3
<1>5. \A y \in S : y <= m
  <2> TAKE y \in S
  <2>1. n - y \in T
    OBVIOUS
  <2> QED
    BY <2>1, <1>3, <1>4
<1>6. \E x \in S : \A y \in S : x >= y
  BY <1>5
<1> QED
  BY <1>1, <1>6 DEF Max, Min

(* The ranks of the positions of K are exactly 1 .. Cardinality(K). *)
LEMMA RankIsOnto ==
    ASSUME NEW m \in Nat, NEW K \in SUBSET (1 .. m)
    PROVE  /\ Cardinality(K) \in Nat
           /\ \A k \in K : Rank(K, k) \in 1 .. Cardinality(K)
           /\ \A n \in 1 .. Cardinality(K) : \E k \in K : Rank(K, k) = n
<1> DEFINE Upto(k) == {j \in K : j <= k}
           f == [k \in K |-> Rank(K, k)]
<1>1. IsFiniteSet(K) /\ Cardinality(K) \in Nat
  <2>1. IsFiniteSet(1 .. m)
    BY FS_Interval
  <2> QED
    BY <2>1, FS_Subset, FS_CardinalityType
<1>2. \A k \in K : IsFiniteSet(Upto(k)) /\ Cardinality(Upto(k)) \in Nat
                   /\ Cardinality(Upto(k)) <= Cardinality(K)
  BY <1>1, FS_Subset, FS_CardinalityType
<1>3. \A k \in K : Cardinality(Upto(k)) # 0
  BY <1>2, FS_EmptySet
<1>4. \A k \in K : Rank(K, k) \in 1 .. Cardinality(K)
  BY <1>1, <1>2, <1>3 DEF Rank
<1>5. ASSUME NEW j \in K, NEW k \in K, Rank(K, j) = Rank(K, k), j < k PROVE FALSE
  <2>1. /\ \A x \in Upto(j) : x \in Upto(k)
        /\ k \in Upto(k) /\ k \notin Upto(j)
    BY <1>5
  <2>2. Cardinality(Upto(k)) = Cardinality(Upto(j)) /\ IsFiniteSet(Upto(k))
    BY <1>5, <1>2 DEF Rank
  <2> HIDE DEF Upto
  <2>3. Upto(k) = Upto(j)
    BY <2>1, <2>2, FS_Subset
  <2> QED
    BY <2>1, <2>3
<1>6. \A j, k \in K : Rank(K, j) = Rank(K, k) => j = k
  BY <1>5
<1>7. f \in Injection(K, 1 .. Cardinality(K))
  BY <1>4, <1>6 DEF Injection, IsInjective
<1>8. IsFiniteSet(1 .. Cardinality(K)) /\ Cardinality(1 .. Cardinality(K)) = Cardinality(K)
  BY <1>1, FS_Interval
<1>9. f \in Surjection(K, 1 .. Cardinality(K))
  BY <1>7, <1>8, FS_Injection
<1> QED
  BY <1>1, <1>4, <1>9 DEF Surjection

(* Keep picks each of the positions of K once: nothing is repeated and     *)
(* nothing comes in that was not in the sequence.                          *)
LEMMA KeepPicks ==
    ASSUME NEW T, NEW s \in Seq(T), NEW K \in SUBSET DOMAIN s
    PROVE  /\ Keep(s, K) \in Seq(T)
           /\ Len(Keep(s, K)) = Cardinality(K) /\ Cardinality(K) \in Nat
           /\ \E p \in Injection(DOMAIN Keep(s, K), K) :
                 \A n \in DOMAIN Keep(s, K) : Keep(s, K)[n] = s[p[n]]
<1> DEFINE p == [n \in 1 .. Cardinality(K) |-> CHOOSE k \in K : Rank(K, k) = n]
<1>0. Len(s) \in Nat /\ DOMAIN s = 1 .. Len(s)
  OBVIOUS
<1>1. /\ Cardinality(K) \in Nat
      /\ \A n \in 1 .. Cardinality(K) : \E k \in K : Rank(K, k) = n
  BY <1>0, RankIsOnto
<1>2. \A n \in 1 .. Cardinality(K) : p[n] \in K /\ Rank(K, p[n]) = n
  BY <1>1
<1> HIDE DEF p
<1>3. p \in Injection(1 .. Cardinality(K), K)
  <2>1. p \in [1 .. Cardinality(K) -> K]
    BY <1>2 DEF p
  <2> QED
    BY <2>1, <1>2 DEF Injection, IsInjective
<1>4. Keep(s, K) = [n \in 1 .. Cardinality(K) |-> s[p[n]]]
  BY DEF Keep, p
<1>5. \A n \in 1 .. Cardinality(K) : s[p[n]] \in T
  BY <1>2, <1>0
<1>6. Keep(s, K) \in Seq(T) /\ Len(Keep(s, K)) = Cardinality(K)
      /\ DOMAIN Keep(s, K) = 1 .. Cardinality(K)
  BY <1>1, <1>4, <1>5
<1> QED
  BY <1>1, <1>3, <1>4, <1>6
-----------------------------------------------------------------------------
(* The Hub's operators. *)

(* No two rows of different ids share a port: what makes the desired rules *)
(* free of conflicts, whichever row of an id wins.                         *)
Apart(rs) ==
    \A j, k \in DOMAIN rs :
        rs[j].id # rs[k].id => rs[j].rule.port # rs[k].rule.port

(* One open command for an action on a rule. *)
Unique(cs) ==
    \A j, k \in DOMAIN cs : cs[j].act = cs[k].act /\ cs[j].id = cs[k].id => j = k

(* The fields of a row. *)
LEMMA RowFields ==
    ASSUME NEW rs \in Seq(Row), NEW k \in DOMAIN rs
    PROVE  rs[k] \in Row /\ rs[k].id \in RuleIds /\ rs[k].rule \in Rule
<1>1. rs[k] \in Row
  OBVIOUS
<1> QED
  BY <1>1 DEF Row

(* The desired rules come from the document: one row of each id, if any.   *)
LEMMA DesiredRow ==
    ASSUME rows \in Seq(Row)
    PROVE  /\ Desired \in Config
           /\ \A i \in RuleIds : Desired[i] # NoRule =>
                \E k \in DOMAIN rows : rows[k].id = i /\ Desired[i] = rows[k].rule
<1> DEFINE At(i) == {k \in DOMAIN rows : rows[k].id = i}
<1>1. ASSUME NEW i \in RuleIds, At(i) # {} PROVE Max(At(i)) \in At(i)
  <2>1. Len(rows) \in Nat /\ At(i) \in SUBSET (1 .. Len(rows))
    OBVIOUS
  <2> HIDE DEF At
  <2> QED
    BY <1>1, <2>1, Extremes
<1>2. \A k \in DOMAIN rows : rows[k].rule \in Rule
  BY RowFields
<1>3. ASSUME NEW i \in RuleIds
      PROVE  \/ Desired[i] = NoRule
             \/ \E k \in DOMAIN rows : rows[k].id = i /\ Desired[i] = rows[k].rule
  <2>1. Desired[i] = IF At(i) = {} THEN NoRule ELSE rows[Max(At(i))].rule
    BY DEF Desired
  <2>2. \A k \in At(i) : k \in DOMAIN rows /\ rows[k].id = i
    OBVIOUS
  <2> HIDE DEF At
  <2> QED
    BY <1>1, <2>1, <2>2
<1>4. Desired = [i \in RuleIds |-> Desired[i]]
  BY DEF Desired
<1> QED
  BY <1>2, <1>3, <1>4 DEF Config

(* Rows that are apart make desired rules without a conflict. *)
LEMMA ApartIsConflictFree ==
    ASSUME rows \in Seq(Row), Apart(rows)
    PROVE  DesiredConflictFree
<1> SUFFICES ASSUME NEW i \in RuleIds, NEW j \in RuleIds, i # j,
                    Desired[i] # NoRule, Desired[j] # NoRule
             PROVE  Desired[i].port # Desired[j].port
  BY DEF DesiredConflictFree, ConflictFree
<1>1. PICK k \in DOMAIN rows : rows[k].id = i /\ Desired[i] = rows[k].rule
  BY DesiredRow
<1>2. PICK l \in DOMAIN rows : rows[l].id = j /\ Desired[j] = rows[l].rule
  BY DesiredRow
<1> QED
  BY <1>1, <1>2 DEF Apart

(* The rows as they are saved are those of the request, in another order. *)
LEMMA SortedRows ==
    ASSUME NEW rs \in Seq(Row), NEW q \in Sorted(rs)
    PROVE  q \in Seq(Row) /\ (Apart(rs) => Apart(q))
<1>1. PICK p \in Bijection(DOMAIN rs, DOMAIN rs) : q = [k \in DOMAIN rs |-> rs[p[k]]]
  BY DEF Sorted
<1>2. p \in [DOMAIN rs -> DOMAIN rs]
  BY DEF Bijection, Injection
<1>3. Len(rs) \in Nat /\ DOMAIN rs = 1 .. Len(rs)
  OBVIOUS
<1>4. \A k \in DOMAIN rs : rs[p[k]] \in Row
  BY <1>2, <1>3
<1>5. q \in Seq(Row) /\ DOMAIN q = DOMAIN rs
  BY <1>1, <1>3, <1>4
<1>6. Apart(rs) => Apart(q)
  BY <1>1, <1>2, <1>5 DEF Apart
<1> QED
  BY <1>5, <1>6

(* Some rows of the document, in their order, are rows. *)
LEMMA KeptRows ==
    ASSUME NEW rs \in Seq(Row), NEW K \in SUBSET DOMAIN rs
    PROVE  Keep(rs, K) \in Seq(Row) /\ (Apart(rs) => Apart(Keep(rs, K)))
<1>1. /\ Keep(rs, K) \in Seq(Row)
      /\ \E p \in Injection(DOMAIN Keep(rs, K), K) :
            \A n \in DOMAIN Keep(rs, K) : Keep(rs, K)[n] = rs[p[n]]
  BY KeepPicks
<1>2. PICK p \in [DOMAIN Keep(rs, K) -> K] :
            \A n \in DOMAIN Keep(rs, K) : Keep(rs, K)[n] = rs[p[n]]
  BY <1>1 DEF Injection
<1>3. Apart(rs) => Apart(Keep(rs, K))
  BY <1>2 DEF Apart
<1> QED
  BY <1>1, <1>3

(* Some commands of the queue, in their order: no action on a rule is      *)
(* there twice that was not twice in the queue.                            *)
LEMMA KeptCommands ==
    ASSUME NEW T, NEW cs \in Seq(T), NEW K \in SUBSET DOMAIN cs
    PROVE  Keep(cs, K) \in Seq(T) /\ (Unique(cs) => Unique(Keep(cs, K)))
<1>1. /\ Keep(cs, K) \in Seq(T)
      /\ \E p \in Injection(DOMAIN Keep(cs, K), K) :
            \A n \in DOMAIN Keep(cs, K) : Keep(cs, K)[n] = cs[p[n]]
  BY KeepPicks
<1>2. PICK p \in Injection(DOMAIN Keep(cs, K), K) :
            \A n \in DOMAIN Keep(cs, K) : Keep(cs, K)[n] = cs[p[n]]
  BY <1>1
<1>3. p \in [DOMAIN Keep(cs, K) -> K]
      /\ \A j, k \in DOMAIN Keep(cs, K) : p[j] = p[k] => j = k
  BY DEF Injection, IsInjective
<1>4. Unique(cs) => Unique(Keep(cs, K))
  BY <1>2, <1>3 DEF Unique
<1> QED
  BY <1>1, <1>4

(* queue_portmap_command keeps the queue a queue of open commands, one for *)
(* each action on a rule: it appends only what it cannot merge.            *)
LEMMA QueueKeeps ==
    ASSUME NEW cs \in Seq(Command), NEW act \in {"upsert", "stop", "delete"},
           NEW id \in RuleIds, NEW r \in Rule \cup {NoRule}, NEW held,
           FreshIds(cs, held) # {}
    PROVE  LET q == queue_portmap_command(cs, act, id, r, held)
           IN q \in Seq(Command) /\ (Unique(cs) => Unique(q))
<1> DEFINE same == {k \in DOMAIN cs : cs[k].act = act /\ cs[k].id = id}
           q    == queue_portmap_command(cs, act, id, r, held)
<1>0. Len(cs) \in Nat /\ DOMAIN cs = 1 .. Len(cs)
  OBVIOUS
<1>1. CASE same # {}
  <2>1. PICK m \in DOMAIN cs : m = Max(same)
    <3>1. same \in SUBSET (1 .. Len(cs))
      BY <1>0
    <3> HIDE DEF same
    <3>2. Max(same) \in same
      BY <1>0, <1>1, <3>1, Extremes
    <3> QED
      BY <1>0, <3>1, <3>2
  <2>2. q = [cs EXCEPT ![m].rule = r, ![m].status = "pending"]
    BY <1>1, <2>1 DEF queue_portmap_command
  <2>3. cs[m] \in Command
    BY <1>0
  <2>4. PICK c \in Command : /\ q = [cs EXCEPT ![m] = c]
                              /\ c.act = cs[m].act /\ c.id = cs[m].id
    <3> DEFINE c == [cs[m] EXCEPT !.rule = r, !.status = "pending"]
    <3>1. c \in Command /\ c.act = cs[m].act /\ c.id = cs[m].id
      BY <2>3 DEF Command
    <3>2. q = [cs EXCEPT ![m] = c]
      BY <2>2
    <3> QED
      BY <3>1, <3>2
  <2> HIDE DEF q
  <2>5. q \in Seq(Command) /\ DOMAIN q = DOMAIN cs
    BY <2>4
  <2>6. \A k \in DOMAIN cs : q[k].act = cs[k].act /\ q[k].id = cs[k].id
    BY <2>4
  <2>7. Unique(cs) => Unique(q)
    BY <2>5, <2>6 DEF Unique
  <2> QED
    BY <2>5, <2>7 DEF q
<1>2. CASE same = {}
  <2>1. PICK c \in Command : q = Append(cs, c) /\ c.act = act /\ c.id = id
    <3> DEFINE i == CHOOSE c \in FreshIds(cs, held) : TRUE
               c == [cid |-> i, act |-> act, id |-> id, rule |-> r,
                     status |-> "pending", attempts |-> 0]
    <3>1. i \in CmdIds
      BY DEF FreshIds
    <3> HIDE DEF i
    <3>2. c \in Command /\ c.act = act /\ c.id = id
      BY <3>1, AttemptsAssumption DEF Command
    <3>3. q = Append(cs, c)
      BY <1>2 DEF queue_portmap_command, i
    <3> QED
      BY <3>2, <3>3
  <2> HIDE DEF q
  <2>2. q \in Seq(Command) /\ Len(q) = Len(cs) + 1 /\ DOMAIN q = 1 .. Len(cs) + 1
        /\ (\A k \in DOMAIN cs : q[k] = cs[k]) /\ q[Len(cs) + 1] = c
    BY <2>1, <1>0
  <2>3. \A k \in DOMAIN cs : ~ (cs[k].act = act /\ cs[k].id = id)
    BY <1>2
  <2>4. Unique(cs) => Unique(q)
    BY <1>0, <2>1, <2>2, <2>3 DEF Unique
  <2> QED
    BY <2>2, <2>4 DEF q
<1> QED
  BY <1>1, <1>2

(* The first row of an id that has one. *)
LEMMA FirstRow ==
    ASSUME rows \in Seq(Row), NEW id \in RuleIds, Exists(id)
    PROVE  \E k \in DOMAIN rows : rows[k].id = id /\ First(id) = rows[k].rule
<1> DEFINE S == {k \in DOMAIN rows : rows[k].id = id}
<1>1. Len(rows) \in Nat /\ S \in SUBSET (1 .. Len(rows)) /\ S # {}
  BY DEF Exists
<1>2. Min(S) \in S
  <2> HIDE DEF S
  <2> QED
    BY <1>1, Extremes
<1> QED
  BY <1>2 DEF First

(* An edit that gives an id a rule on a port no row of another id has      *)
(* leaves the rows apart.                                                  *)
LEMMA ReplacedRows ==
    ASSUME rows \in Seq(Row), NEW id \in RuleIds, NEW r \in Rule
    PROVE  /\ Replace(id, r) \in Seq(Row)
           /\ Apart(rows) /\ portmap_check_conflict(id, r) => Apart(Replace(id, r))
<1>0. Len(rows) \in Nat /\ DOMAIN rows = 1 .. Len(rows)
  OBVIOUS
<1>1. \A k \in DOMAIN rows : /\ Replace(id, r)[k] \in Row
                             /\ Replace(id, r)[k].id = rows[k].id
                             /\ rows[k].id = id => Replace(id, r)[k].rule = r
                             /\ rows[k].id # id => Replace(id, r)[k] = rows[k]
  <2> TAKE k \in DOMAIN rows
  <2>1. rows[k] \in Row
    OBVIOUS
  <2>2. [rows[k] EXCEPT !.rule = r] \in Row /\ [rows[k] EXCEPT !.rule = r].id = rows[k].id
        /\ [rows[k] EXCEPT !.rule = r].rule = r
    BY <2>1 DEF Row
  <2>3. Replace(id, r)[k] = IF rows[k].id = id THEN [rows[k] EXCEPT !.rule = r] ELSE rows[k]
    BY DEF Replace
  <2> QED
    BY <2>1, <2>2, <2>3
<1>2. Replace(id, r) = [k \in 1 .. Len(rows) |-> Replace(id, r)[k]]
  BY <1>0 DEF Replace
<1>3. Replace(id, r) \in Seq(Row) /\ DOMAIN Replace(id, r) = DOMAIN rows
  BY <1>0, <1>1, <1>2
<1>4. Apart(rows) /\ portmap_check_conflict(id, r) => Apart(Replace(id, r))
  BY <1>1, <1>3 DEF Apart, portmap_check_conflict
<1> QED
  BY <1>3, <1>4

(* A row that is added under an id whose port no row of another id has. *)
LEMMA AddedRow ==
    ASSUME rows \in Seq(Row), NEW id \in RuleIds, NEW r \in Rule
    PROVE  LET q == Append(rows, [id |-> id, rule |-> r])
           IN /\ q \in Seq(Row)
              /\ Apart(rows) /\ portmap_check_conflict(id, r) => Apart(q)
<1> DEFINE new == [id |-> id, rule |-> r]
           q   == Append(rows, new)
<1>1. new \in Row /\ new.id = id /\ new.rule = r
  BY DEF Row
<1> HIDE DEF new
<1>2. Len(rows) \in Nat /\ DOMAIN rows = 1 .. Len(rows)
  OBVIOUS
<1>3. q \in Seq(Row) /\ DOMAIN q = 1 .. Len(rows) + 1
      /\ (\A k \in DOMAIN rows : q[k] = rows[k]) /\ q[Len(rows) + 1] = new
  BY <1>1, <1>2
<1> HIDE DEF q
<1>4. Apart(rows) /\ portmap_check_conflict(id, r) => Apart(q)
  BY <1>1, <1>2, <1>3 DEF Apart, portmap_check_conflict
<1> QED
  BY <1>3, <1>4 DEF q, new

(* Stopping or starting a rule keeps its port, so it needs no check. *)
LEMMA OwnPortChecked ==
    ASSUME rows \in Seq(Row), Apart(rows), NEW id \in RuleIds, Exists(id),
           NEW r \in Rule, r.port = First(id).port
    PROVE  portmap_check_conflict(id, r)
  BY FirstRow DEF portmap_check_conflict, Apart

(* Every edit saves rows that are apart and queues at most one command for *)
(* its action on the rule.                                                 *)
LEMMA EditKeeps ==
    ASSUME HubTypeOK, Apart(rows), Unique(cmds), NEW id \in RuleIds, NEW t \in 0 .. MaxExp,
           NEW held, NEW crash \in BOOLEAN,
           \/ \E r \in Rule : Create(id, r, held, crash)
           \/ \E r \in Rule : Update(id, r, held, crash)
           \/ Delete(id, held, crash)
           \/ Stop(id, held, crash)
           \/ Start(id, t, held, crash)
    PROVE  HubTypeOK' /\ Apart(rows)' /\ Unique(cmds)'
<1>0. rows \in Seq(Row) /\ cmds \in Seq(Command) /\ reported \in Config /\ todo \in Seq(Repair)
  BY DEF HubTypeOK
<1>1. SUFFICES ASSUME NEW rs \in Seq(Row), Apart(rs), save_portmap_rules(rs),
                      NEW act \in {"upsert", "stop", "delete"},
                      NEW r \in Rule \cup {NoRule}, Queue(act, id, r, held, crash)
               PROVE  HubTypeOK' /\ Apart(rows)' /\ Unique(cmds)'
  <2> DEFINE Saves == \E rs \in Seq(Row) : Apart(rs) /\ save_portmap_rules(rs)
             Queues == \E act \in {"upsert", "stop", "delete"}, r \in Rule \cup {NoRule} :
                         Queue(act, id, r, held, crash)
  <2>1. ASSUME NEW r \in Rule, Create(id, r, held, crash) PROVE Saves /\ Queues
    <3>1. Append(rows, [id |-> id, rule |-> r]) \in Seq(Row)
          /\ Apart(Append(rows, [id |-> id, rule |-> r]))
      BY <2>1, <1>0, AddedRow DEF Create
    <3> QED
      BY <2>1, <3>1 DEF Create
  <2>2. ASSUME NEW r \in Rule, Update(id, r, held, crash) PROVE Saves /\ Queues
    <3>1. Replace(id, r) \in Seq(Row) /\ Apart(Replace(id, r))
      BY <2>2, <1>0, ReplacedRows DEF Update
    <3> QED
      BY <2>2, <3>1 DEF Update
  <2>3. CASE Delete(id, held, crash)
    <3> DEFINE K == {k \in DOMAIN rows : rows[k].id # id}
    <3>1. Keep(rows, K) \in Seq(Row) /\ Apart(Keep(rows, K))
      BY <1>0, KeptRows
    <3> QED
      BY <2>3, <3>1 DEF Delete
  <2>4. CASE Stop(id, held, crash)
    <3> DEFINE r == [First(id) EXCEPT !.enabled = FALSE]
    <3>1. Exists(id) /\ First(id) \in Rule
      BY <2>4, <1>0, FirstRow, RowFields DEF Stop
    <3>2. r \in Rule /\ r.port = First(id).port
      BY <3>1 DEF Rule
    <3> HIDE DEF r
    <3>3. Replace(id, r) \in Seq(Row) /\ Apart(Replace(id, r))
      BY <1>0, <3>1, <3>2, OwnPortChecked, ReplacedRows
    <3> QED
      BY <2>4, <3>3 DEF Stop, r
  <2>5. CASE Start(id, t, held, crash)
    <3> DEFINE old == First(id)
               r   == [old EXCEPT !.enabled = TRUE,
                                  !.exp = IF IsExpired(old, t) THEN t + 1 ELSE @]
    <3>1. Exists(id) /\ old \in Rule /\ r.exp <= MaxExp
      BY <2>5, <1>0, FirstRow, RowFields DEF Start
    <3>a. PICK e \in Nat : r = [old EXCEPT !.enabled = TRUE, !.exp = e]
      <4>1. old.exp \in Nat
        BY <3>1, MaxExpAssumption DEF Rule
      <4>2. r = [old EXCEPT !.enabled = TRUE,
                            !.exp = IF IsExpired(old, t) THEN t + 1 ELSE old.exp]
        BY <3>1 DEF Rule
      <4>3. (IF IsExpired(old, t) THEN t + 1 ELSE old.exp) \in Nat
        BY <4>1, MaxExpAssumption
      <4> QED
        BY <4>2, <4>3
    <3>2. r \in Rule /\ r.port = old.port
      <4> HIDE DEF r, old
      <4>1. r.exp = e /\ r.port = old.port
        BY <3>1, <3>a DEF Rule
      <4>2. e \in 0 .. MaxExp
        BY <3>1, <4>1, MaxExpAssumption
      <4> QED
        BY <3>1, <3>a, <4>1, <4>2 DEF Rule
    <3>3. save_portmap_rules(Replace(id, r)) /\ Queue("upsert", id, r, held, crash)
      BY <2>5 DEF Start
    <3> HIDE DEF r
    <3>4. Replace(id, r) \in Seq(Row) /\ Apart(Replace(id, r))
      BY <1>0, <3>1, <3>2, OwnPortChecked, ReplacedRows
    <3> QED
      BY <3>2, <3>3, <3>4
  <2> QED
    BY <2>1, <2>2, <2>3, <2>4, <2>5
<1>2. rows' \in Seq(Row) /\ Apart(rows)' /\ docSaved' = TRUE
  <2>1. rows' \in Sorted(rs) /\ docSaved' = TRUE
    BY <1>1 DEF save_portmap_rules
  <2>2. rows' \in Seq(Row) /\ Apart(rows')
    BY <1>1, <2>1, SortedRows
  <2> QED
    BY <2>1, <2>2 DEF Apart
<1>3. cmds' \in Seq(Command) /\ Unique(cmds)' /\ reported' = reported /\ todo' = todo
  <2>1. FreshIds(cmds, held) # {} /\ reported' = reported /\ todo' = todo
        /\ cmds' = IF crash THEN cmds ELSE queue_portmap_command(cmds, act, id, r, held)
    BY <1>1 DEF Queue
  <2>2. cmds' \in Seq(Command) /\ Unique(cmds')
    BY <1>0, <1>1, <2>1, QueueKeeps
  <2> QED
    BY <2>1, <2>2 DEF Unique
<1> QED
  BY <1>0, <1>2, <1>3 DEF HubTypeOK

(* The fields of a command. *)
LEMMA CommandFields ==
    ASSUME NEW cs \in Seq(Command), NEW k \in DOMAIN cs
    PROVE  /\ cs[k] \in Command /\ cs[k].cid \in CmdIds
           /\ cs[k].act \in {"upsert", "stop", "delete"} /\ cs[k].id \in RuleIds
           /\ cs[k].rule \in Rule \cup {NoRule} /\ cs[k].attempts \in 0 .. MaxAttempts
<1>1. cs[k] \in Command
  OBVIOUS
<1> QED
  BY <1>1 DEF Command

(* A poll marks commands and hands out copies of them. *)
LEMMA PollKeeps ==
    ASSUME HubTypeOK, Unique(cmds), NEW due \in SUBSET Retriable, Poll(due)
    PROVE  HubTypeOK' /\ Unique(cmds)' /\ rows' = rows /\ Batch(due) \in Seq(Handed)
<1>0. cmds \in Seq(Command) /\ Len(cmds) \in Nat /\ DOMAIN cmds = 1 .. Len(cmds)
  BY DEF HubTypeOK
<1>1. Selected(due) \in SUBSET DOMAIN cmds
  BY DEF Selected, Retriable
<1>2. ASSUME NEW k \in DOMAIN cmds
      PROVE  /\ cmds'[k] \in Command
             /\ cmds'[k].act = cmds[k].act /\ cmds'[k].id = cmds[k].id
  <2>1. cmds[k] \in Command /\ cmds[k].attempts \in 0 .. MaxAttempts
    BY <1>0, CommandFields
  <2>2. Min({cmds[k].attempts + 1, MaxAttempts}) \in 0 .. MaxAttempts
    <3>1. PICK n \in 0 .. MaxAttempts : n = cmds[k].attempts
      BY <2>1
    <3>2. Min({n + 1, MaxAttempts}) \in 0 .. MaxAttempts
      <4>1. CASE n + 1 <= MaxAttempts
        <5>1. \E x \in {n + 1, MaxAttempts} : \A y \in {n + 1, MaxAttempts} : x <= y
          BY <4>1, AttemptsAssumption
        <5> QED
          BY <5>1, <4>1, AttemptsAssumption DEF Min
      <4>2. CASE n + 1 > MaxAttempts
        <5>1. \E x \in {n + 1, MaxAttempts} : \A y \in {n + 1, MaxAttempts} : x <= y
          BY <4>2, AttemptsAssumption
        <5> QED
          BY <5>1, <4>2, AttemptsAssumption DEF Min
      <4> QED
        BY <4>1, <4>2, AttemptsAssumption
    <3> QED
      BY <3>1, <3>2
  <2>3. PICK n \in 0 .. MaxAttempts :
           cmds'[k] \in {cmds[k], [cmds[k] EXCEPT !.status = "delivered", !.attempts = n]}
    <3>1. [cmds[k] EXCEPT !.status = "delivered", !.attempts = Min({@ + 1, MaxAttempts})]
          = [cmds[k] EXCEPT !.status = "delivered",
                            !.attempts = Min({cmds[k].attempts + 1, MaxAttempts})]
      BY <2>1 DEF Command
    <3> QED
      BY <2>2, <3>1 DEF Poll
  <2> QED
    BY <2>1, <2>3 DEF Command
<1>3. cmds' = [k \in 1 .. Len(cmds) |-> cmds'[k]]
  BY <1>0 DEF Poll
<1>4. cmds' \in Seq(Command) /\ DOMAIN cmds' = DOMAIN cmds
  BY <1>0, <1>2, <1>3
<1>5. Unique(cmds')
  BY <1>2, <1>4 DEF Unique
<1> DEFINE H == [k \in DOMAIN cmds |-> [cid |-> cmds[k].cid, act |-> cmds[k].act,
                                       id |-> cmds[k].id, rule |-> cmds[k].rule]]
<1>6. H \in Seq(Handed) /\ DOMAIN H = DOMAIN cmds
  <2>1. \A k \in DOMAIN cmds : H[k] \in Handed
    BY <1>0, CommandFields DEF Handed
  <2>2. H = [k \in 1 .. Len(cmds) |-> H[k]]
    BY <1>0
  <2> HIDE DEF H
  <2> QED
    BY <1>0, <2>1, <2>2
<1>7. Batch(due) = Keep(H, Selected(due))
  BY DEF Batch
<1> HIDE DEF H
<1>8. Batch(due) \in Seq(Handed)
  BY <1>1, <1>6, <1>7, KeepPicks
<1>9. HubTypeOK' /\ rows' = rows
  BY <1>4 DEF HubTypeOK, Poll
<1> QED
  BY <1>5, <1>8, <1>9 DEF Unique

(* Acknowledging closes commands. *)
LEMMA AckedKeeps ==
    ASSUME HubTypeOK, Unique(cmds), NEW cids, Acked(cids)
    PROVE  HubTypeOK' /\ Unique(cmds)' /\ rows' = rows
<1> DEFINE K == {k \in DOMAIN cmds : cmds[k].cid \notin cids}
<1>1. cmds \in Seq(Command) /\ K \in SUBSET DOMAIN cmds /\ cmds' = Keep(cmds, K)
  BY DEF HubTypeOK, Acked
<1> HIDE DEF K
<1>2. cmds' \in Seq(Command) /\ Unique(cmds')
  BY <1>1, KeptCommands
<1>3. HubTypeOK' /\ rows' = rows
  BY <1>2 DEF HubTypeOK, Acked
<1> QED
  BY <1>2, <1>3 DEF Unique

(* A report is stored, and what is to be repaired is listed. *)
LEMMA StatusKeeps ==
    ASSUME HubTypeOK, NEW c \in Config, Status(c)
    PROVE  HubTypeOK' /\ cmds' = cmds /\ rows' = rows
<1> DEFINE D == {i \in RuleIds : c[i] # Desired[i]}
<1>1. Desired \in Config
  BY DesiredRow DEF HubTypeOK
<1>2. Cardinality(D) \in Nat
  BY RuleIdsAssumption, FS_Subset, FS_CardinalityType
<1>3. PICK ids \in Bijection(1 .. Cardinality(D), D) :
         todo' = [k \in DOMAIN ids |->
                    [act |-> IF Desired[ids[k]] # NoRule THEN "upsert" ELSE "delete",
                     id |-> ids[k], rule |-> Desired[ids[k]]]]
  BY DEF Status, Drift
<1>4. ids \in [1 .. Cardinality(D) -> D]
  BY DEF Bijection, Injection
<1>5. \A k \in 1 .. Cardinality(D) : ids[k] \in RuleIds /\ todo'[k] \in Repair
  BY <1>1, <1>3, <1>4 DEF Repair, Config
<1>6. todo' = [k \in 1 .. Cardinality(D) |-> todo'[k]]
  BY <1>3, <1>4
<1> HIDE DEF D
<1>7. todo' \in Seq(Repair)
  BY <1>2, <1>5, <1>6
<1> QED
  BY <1>7 DEF HubTypeOK, Status

(* The status handler queues its next repair. *)
LEMMA ReconcileKeeps ==
    ASSUME HubTypeOK, Unique(cmds), NEW held, ReconcileStep(held)
    PROVE  HubTypeOK' /\ Unique(cmds)' /\ rows' = rows
<1>1. todo \in Seq(Repair) /\ todo # <<>> /\ cmds \in Seq(Command)
  BY DEF HubTypeOK, ReconcileStep, Unlocked
<1>2. Head(todo) \in Repair /\ Tail(todo) \in Seq(Repair)
  BY <1>1
<1>3. Head(todo).act \in {"upsert", "stop", "delete"} /\ Head(todo).id \in RuleIds
      /\ Head(todo).rule \in Rule \cup {NoRule}
  BY <1>2 DEF Repair
<1>4. cmds' = queue_portmap_command(cmds, Head(todo).act, Head(todo).id, Head(todo).rule, held)
      /\ FreshIds(cmds, held) # {}
  BY DEF ReconcileStep
<1>5. cmds' \in Seq(Command) /\ Unique(cmds')
  BY <1>1, <1>3, <1>4, QueueKeeps
<1>6. HubTypeOK' /\ rows' = rows
  BY <1>2, <1>5 DEF HubTypeOK, ReconcileStep
<1> QED
  BY <1>5, <1>6 DEF Unique

(* A restart closes the commands the last report makes redundant. *)
LEMMA RestartKeeps ==
    ASSUME HubTypeOK, Unique(cmds), NEW running, Restart(running)
    PROVE  HubTypeOK' /\ Unique(cmds)' /\ rows' = rows
<1>1. PICK K \in SUBSET DOMAIN cmds : cmds' = Keep(cmds, K)
  BY DEF Restart
<1>2. cmds' \in Seq(Command) /\ Unique(cmds')
  BY <1>1, KeptCommands DEF HubTypeOK
<1>3. HubTypeOK' /\ rows' = rows
  BY <1>2 DEF HubTypeOK, Restart
<1> QED
  BY <1>2, <1>3 DEF Unique
-----------------------------------------------------------------------------
(* The inductive invariant of the whole system. *)

(* The types, the rows apart, and a queue without a second command for one *)
(* action on one rule.                                                     *)
MapInv == TypeOK /\ Apart(rows) /\ Unique(cmds)

(* The daemon's rules stay a configuration whatever command it carries out. *)
LEMMA ApplyType ==
    ASSUME local \in Config, NEW c \in Handed
    PROVE  Apply(c) \in Config
<1>1. c.id \in RuleIds /\ c.rule \in Rule \cup {NoRule}
  BY DEF Handed
<1>2. ASSUME local[c.id] # NoRule PROVE [local EXCEPT ![c.id].enabled = FALSE] \in Config
  <2>1. local[c.id] \in Rule
    BY <1>1, <1>2 DEF Config
  <2>2. [local[c.id] EXCEPT !.enabled = FALSE] \in Rule
    BY <2>1 DEF Rule
  <2> QED
    BY <1>1, <2>2 DEF Config
<1>3. \A r \in Rule \cup {NoRule} : [local EXCEPT ![c.id] = r] \in Config
  BY <1>1 DEF Config
<1> QED
  BY <1>1, <1>2, <1>3 DEF Apply

(* What the agent sends is a message of the protocol. *)
LEMMA SentMessages ==
    ASSUME TypeOK
    PROVE  AckMessage \in Message /\ StatusMessage \in Message
  BY DEF TypeOK, AckMessage, StatusMessage, Message

(* The Hub's handler for a message keeps what is the Hub's. *)
LEMMA ProcessKeeps ==
    ASSUME HubTypeOK, Apart(rows), Unique(cmds), NEW m \in Message, Process(m)
    PROVE  HubTypeOK' /\ Apart(rows)' /\ Unique(cmds)'
<1>1. m.kind = "ack" \/ (m.kind = "status" /\ m.rules \in Config)
  BY DEF Message
<1>2. CASE m.kind = "ack"
  BY <1>2, AckedKeeps DEF Process, Apart
<1>3. CASE m.kind = "status" /\ m.rules \in Config
  BY <1>3, StatusKeeps DEF Process, Apart, Unique
<1> QED
  BY <1>1, <1>2, <1>3

(* The system starts with an empty document and an empty queue. *)
LEMMA MapInit == Init => MapInv
<1> SUFFICES ASSUME Init PROVE MapInv
  OBVIOUS
<1>1. EmptyConfig \in Config
  BY DEF EmptyConfig, Config
<1>2. local \in Config
  BY <1>1 DEF Init
<1>3. rows \in Seq(Row) /\ cmds \in Seq(Command) /\ todo \in Seq(Repair) /\ batch \in Seq(Handed)
  BY DEF Init
<1>4. TypeOK
  BY <1>1, <1>2, <1>3, MaxExpAssumption, BoundsAssumption DEF Init, TypeOK, HubTypeOK
<1>5. Apart(rows) /\ Unique(cmds)
  BY DEF Init, Apart, Unique
<1> QED
  BY <1>4, <1>5 DEF MapInv

(* Every step of the APP, the Hub, the agent, the network and the clock    *)
(* keeps the invariant.                                                    *)
LEMMA MapStep == MapInv /\ [Next]_vars => MapInv'
<1> SUFFICES ASSUME MapInv, [Next]_vars PROVE MapInv'
  OBVIOUS
<1>a. /\ HubTypeOK /\ Apart(rows) /\ Unique(cmds) /\ TypeOK
      /\ local \in Config /\ pc \in {"poll", "apply", "status"} /\ batch \in Seq(Handed)
      /\ acks \subseteq CmdIds /\ late \subseteq Message /\ now \in 0 .. MaxExp
      /\ edits \in 0 .. MaxEdits /\ faults \in 0 .. MaxFaults
  BY DEF MapInv, TypeOK
<1> DEFINE Hub == HubTypeOK' /\ Apart(rows)' /\ Unique(cmds)'
           SameHub == UNCHANGED <<docSaved, rows, cmds, reported, todo>>
<1>b. SameHub => Hub
  BY <1>a DEF HubTypeOK, Apart, Unique
<1>c. Fault \/ NoFault => faults' \in 0 .. MaxFaults
  BY <1>a, BoundsAssumption DEF Fault, NoFault
<1>d. ASSUME Hub, local' \in Config, pc' \in {"poll", "apply", "status"}, batch' \in Seq(Handed),
             acks' \subseteq CmdIds, late' \subseteq Message, now' \in 0 .. MaxExp,
             edits' \in 0 .. MaxEdits, faults' \in 0 .. MaxFaults
      PROVE  MapInv'
  BY <1>d DEF MapInv, TypeOK
<1>e. EmptyConfig \in Config /\ <<>> \in Seq(Handed)
  BY DEF EmptyConfig, Config
<1> HIDE DEF Hub
<1>1. CASE Edit
  <2>1. PICK id \in RuleIds, crash \in BOOLEAN :
          /\ IF crash THEN Fault ELSE NoFault
          /\ \/ \E r \in Rule : Create(id, r, Held, crash)
             \/ \E r \in Rule : Update(id, r, Held, crash)
             \/ Delete(id, Held, crash)
             \/ Stop(id, Held, crash)
             \/ Start(id, now, Held, crash)
    BY <1>1 DEF Edit
  <2>2. Hub
    BY <1>a, <2>1, EditKeeps DEF Hub
  <2>3. edits' \in 0 .. MaxEdits /\ UNCHANGED <<local, pc, batch, acks, late, now>>
    BY <1>1, <1>a, BoundsAssumption DEF Edit
  <2> QED
    BY <1>a, <1>c, <1>d, <2>1, <2>2, <2>3
<1>2. CASE AgentPoll
  <2>1. PICK due \in SUBSET Retriable :
          /\ Poll(due) /\ batch' = Batch(due)
          /\ pc' = IF Selected(due) = {} THEN "status" ELSE "apply"
    BY <1>2 DEF AgentPoll
  <2>2. Hub /\ batch' \in Seq(Handed)
    BY <1>a, <2>1, PollKeeps DEF Hub, Apart
  <2> QED
    BY <1>2, <1>a, <1>c, <1>d, <2>1, <2>2 DEF AgentPoll
<1>3. CASE PollLost
  <2>1. Hub
    BY <1>3, <1>a, PollKeeps DEF PollLost, Hub, Apart
  <2> QED
    BY <1>3, <1>a, <1>c, <1>d, <2>1 DEF PollLost
<1>4. CASE AgentApply
  <2>1. Head(batch) \in Handed /\ Tail(batch) \in Seq(Handed) /\ batch # <<>>
    BY <1>4, <1>a DEF AgentApply
  <2>2. Head(batch).cid \in CmdIds
    BY <2>1 DEF Handed
  <2>3. local' \in Config /\ (Fault \/ NoFault)
    BY <1>4, <1>a, <2>1, ApplyType DEF AgentApply
  <2> QED
    BY <1>4, <1>a, <1>b, <1>c, <1>d, <2>1, <2>2, <2>3 DEF AgentApply
<1>5. ASSUME NEW m \in Message, NEW next \in {"poll", "status"}, AgentPost(m, next)
      PROVE  MapInv'
  <2>1. Hub
    BY <1>5, <1>a, ProcessKeeps DEF AgentPost, Hub
  <2> QED
    BY <1>5, <1>a, <1>c, <1>d, <2>1 DEF AgentPost
<1>6. ASSUME NEW m \in Message, AgentPostFails(m) PROVE MapInv'
  BY <1>6, <1>a, <1>b, <1>c, <1>d DEF AgentPostFails
<1>7. CASE AgentAck \/ AgentStatus
  BY <1>7, <1>a, <1>5, SentMessages DEF AgentAck, AgentStatus
<1>8. CASE AgentAckFails \/ AgentStatusFails
  BY <1>8, <1>a, <1>6, SentMessages DEF AgentAckFails, AgentStatusFails
<1>9. CASE DeliverLate
  <2>1. PICK m \in late : Process(m) /\ late' = late \ {m}
    BY <1>9 DEF DeliverLate
  <2>2. Hub
    BY <1>a, <2>1, ProcessKeeps DEF Hub
  <2> QED
    BY <1>9, <1>a, <1>c, <1>d, <2>1, <2>2 DEF DeliverLate
<1>10. CASE HubReconcile
  <2>1. Hub
    BY <1>10, <1>a, ReconcileKeeps DEF HubReconcile, Hub, Apart
  <2> QED
    BY <1>10, <1>a, <1>d, <2>1 DEF HubReconcile
<1>11. CASE LoseLate
  BY <1>11, <1>a, <1>b, <1>d DEF LoseLate
<1>12. CASE HubRestart
  <2>1. Hub
    BY <1>12, <1>a, RestartKeeps DEF HubRestart, Hub, Apart
  <2> QED
    BY <1>12, <1>a, <1>c, <1>d, <2>1 DEF HubRestart
<1>13. CASE AgentRestart \/ RouterReset
  BY <1>13, <1>a, <1>b, <1>c, <1>d, <1>e DEF AgentRestart, RouterReset
<1>14. CASE Tick
  BY <1>14, <1>a, <1>b, <1>d, MaxExpAssumption DEF Tick
<1>15. CASE UNCHANGED vars
  BY <1>15, <1>a, <1>b, <1>d DEF vars
<1> QED
  BY <1>1, <1>2, <1>3, <1>4, <1>7, <1>8, <1>9, <1>10, <1>11, <1>12, <1>13, <1>14, <1>15
     DEF Next, AgentStep

(* The invariant holds in every state of every behaviour. *)
LEMMA MapInvariant == Spec => []MapInv
  BY MapInit, MapStep, PTL DEF Spec

(* The documents, the agent's batch and the messages keep their types      *)
(* whatever is lost, repeated, late or restarted: in particular the queue  *)
(* holds open commands only.                                               *)
THEOREM MapTypesKept == Spec => []TypeOK
<1>1. MapInv => TypeOK
  BY DEF MapInv
<1> QED
  BY <1>1, MapInvariant, PTL

(* However edits, polls, acknowledgements and reports overlap, the queue   *)
(* never holds two open commands for one action on one rule.               *)
THEOREM CommandsMerge == Spec => []OneOpenCommand
<1>1. MapInv => OneOpenCommand
  BY DEF MapInv, Unique, OneOpenCommand
<1> QED
  BY <1>1, MapInvariant, PTL

(* The desired rules never claim a port twice, although an id may have     *)
(* several rows and stop and start check nothing: the rows of different    *)
(* ids are always apart.                                                   *)
THEOREM DesiredNeverClashes == Spec => []DesiredConflictFree
<1>1. MapInv => DesiredConflictFree
  BY ApartIsConflictFree DEF MapInv, TypeOK, HubTypeOK
<1> QED
  BY <1>1, MapInvariant, PTL

(* The queue is bounded by the rules alone: three commands for each, one   *)
(* for each action.                                                        *)
QueueBounded == Len(cmds) <= 3 * Cardinality(RuleIds)

(* However long the router is away and however often the APP edits, the    *)
(* queue of open commands never grows past three for each rule.            *)
THEOREM QueueNeverGrows == Spec => []QueueBounded
<1>1. MapInv => QueueBounded
  <2> SUFFICES ASSUME MapInv PROVE QueueBounded
    OBVIOUS
  <2> DEFINE Acts == {"upsert", "stop", "delete"}
             f == [k \in 1 .. Len(cmds) |-> <<cmds[k].act, cmds[k].id>>]
  <2>1. cmds \in Seq(Command) /\ Unique(cmds) /\ Len(cmds) \in Nat
        /\ DOMAIN cmds = 1 .. Len(cmds)
    BY DEF MapInv, TypeOK, HubTypeOK
  <2>2. f \in Injection(1 .. Len(cmds), Acts \X RuleIds)
    <3>1. f \in [1 .. Len(cmds) -> Acts \X RuleIds]
      BY <2>1, CommandFields
    <3>2. \A j, k \in 1 .. Len(cmds) : f[j] = f[k] => j = k
      BY <2>1 DEF Unique
    <3> QED
      BY <3>1, <3>2 DEF Injection, IsInjective
  <2>3. IsFiniteSet(Acts) /\ Cardinality(Acts) = 3
    <3>1. IsFiniteSet({"upsert"}) /\ Cardinality({"upsert"}) = 1
      BY FS_Singleton
    <3>2. IsFiniteSet({"upsert"} \cup {"stop"}) /\ Cardinality({"upsert"} \cup {"stop"}) = 2
      BY <3>1, FS_AddElement
    <3>3. IsFiniteSet(({"upsert"} \cup {"stop"}) \cup {"delete"})
          /\ Cardinality(({"upsert"} \cup {"stop"}) \cup {"delete"}) = 3
      BY <3>2, FS_AddElement
    <3>4. Acts = ({"upsert"} \cup {"stop"}) \cup {"delete"}
      OBVIOUS
    <3> QED
      BY <3>3, <3>4
  <2>4. IsFiniteSet(Acts \X RuleIds) /\ Cardinality(Acts \X RuleIds) = 3 * Cardinality(RuleIds)
    <3>1. /\ IsFiniteSet(Acts \X RuleIds)
          /\ Cardinality(Acts \X RuleIds) = Cardinality(Acts) * Cardinality(RuleIds)
      BY <2>3, RuleIdsAssumption, FS_Product
    <3> QED
      BY <2>3, <3>1
  <2>5. Cardinality(1 .. Len(cmds)) <= Cardinality(Acts \X RuleIds)
    <3> DEFINE S == 1 .. Len(cmds)  T == Acts \X RuleIds
    <3>1. f \in Injection(S, T) /\ IsFiniteSet(T)
      BY <2>2, <2>4
    <3> HIDE DEF f, S, T
    <3>2. Cardinality(S) <= Cardinality(T)
      BY <3>1, FS_Injection
    <3> QED
      BY <3>2 DEF S, T
  <2>6. Cardinality(1 .. Len(cmds)) = Len(cmds)
    <3> DEFINE n == Len(cmds)
    <3>1. n \in Int /\ n >= 0 /\ 1 \in Int
      BY <2>1
    <3> HIDE DEF f, n
    <3>2. Cardinality(1 .. n) = IF 1 > n THEN 0 ELSE n - 1 + 1
      BY <3>1, FS_Interval
    <3>3. Cardinality(1 .. n) = n
      BY <3>1, <3>2
    <3> QED
      BY <3>3 DEF n
  <2>7. Len(cmds) <= 3 * Cardinality(RuleIds)
    BY <2>4, <2>5, <2>6
  <2> QED
    BY <2>7 DEF QueueBounded
<1> QED
  BY <1>1, MapInvariant, PTL
-----------------------------------------------------------------------------
(* The end of convergence. *)

(* A command that changes nothing on a router that has the rules `want'. *)
Harmless(want, c) ==
    CASE c.act = "upsert" -> c.rule = want[c.id]
      [] c.act = "delete" -> want[c.id] = NoRule
      [] c.act = "stop"   -> want[c.id] = NoRule \/ ~ want[c.id].enabled

AllHarmless(want, q) == \A k \in DOMAIN q : Harmless(want, q[k])

(* The router has the desired rules, and every command that is open, handed *)
(* out or still to be queued is harmless.                                   *)
Settled ==
    /\ local = Desired /\ AllHarmless(Desired, cmds)
    /\ AllHarmless(Desired, batch) /\ AllHarmless(Desired, todo)

(* Harmless is a matter of action, rule id and rule. *)
LEMMA SameHarm ==
    ASSUME NEW want, NEW c, NEW d, c.act = d.act, c.id = d.id, c.rule = d.rule, Harmless(want, c)
    PROVE  Harmless(want, d)
  BY DEF Harmless

(* What is kept of a queue is as harmless as the queue. *)
LEMMA KeepHarmless ==
    ASSUME NEW want, NEW T, NEW cs \in Seq(T), NEW K \in SUBSET DOMAIN cs, AllHarmless(want, cs)
    PROVE  AllHarmless(want, Keep(cs, K))
<1>1. PICK p \in Injection(DOMAIN Keep(cs, K), K) :
            \A n \in DOMAIN Keep(cs, K) : Keep(cs, K)[n] = cs[p[n]]
  BY KeepPicks
<1>2. p \in [DOMAIN Keep(cs, K) -> K]
  BY DEF Injection
<1> QED
  BY <1>1, <1>2 DEF AllHarmless

(* A harmless command, appended or merged, leaves the queue harmless. *)
LEMMA QueueHarmless ==
    ASSUME NEW want, NEW cs \in Seq(Command), NEW act \in {"upsert", "stop", "delete"},
           NEW id \in RuleIds, NEW r \in Rule \cup {NoRule}, NEW held,
           FreshIds(cs, held) # {}, AllHarmless(want, cs),
           NEW x, x.act = act, x.id = id, x.rule = r, Harmless(want, x)
    PROVE  AllHarmless(want, queue_portmap_command(cs, act, id, r, held))
<1> DEFINE same == {k \in DOMAIN cs : cs[k].act = act /\ cs[k].id = id}
           q    == queue_portmap_command(cs, act, id, r, held)
<1>0. Len(cs) \in Nat /\ DOMAIN cs = 1 .. Len(cs)
  OBVIOUS
<1>1. CASE same # {}
  <2>1. PICK m \in same : m = Max(same)
    <3>1. same \in SUBSET (1 .. Len(cs))
      BY <1>0
    <3> HIDE DEF same
    <3> QED
      BY <1>0, <1>1, <3>1, Extremes
  <2>2. q = [cs EXCEPT ![m].rule = r, ![m].status = "pending"]
    BY <1>1, <2>1 DEF queue_portmap_command
  <2>3. cs[m] \in Command /\ m \in DOMAIN cs /\ cs[m].act = act /\ cs[m].id = id
    BY <1>0
  <2>4. PICK c \in Command : /\ q = [cs EXCEPT ![m] = c]
                              /\ c.act = act /\ c.id = id /\ c.rule = r
    <3> DEFINE c == [cs[m] EXCEPT !.rule = r, !.status = "pending"]
    <3>1. c \in Command /\ c.act = act /\ c.id = id /\ c.rule = r
      BY <2>3 DEF Command
    <3>2. q = [cs EXCEPT ![m] = c]
      BY <2>2
    <3> QED
      BY <3>1, <3>2
  <2>5. Harmless(want, c)
    BY <2>4, SameHarm
  <2> HIDE DEF q
  <2>6. DOMAIN q = DOMAIN cs /\ \A k \in DOMAIN cs : q[k] = c \/ q[k] = cs[k]
    BY <2>4
  <2> QED
    BY <2>5, <2>6 DEF AllHarmless, q
<1>2. CASE same = {}
  <2>1. PICK c \in Command : q = Append(cs, c) /\ c.act = act /\ c.id = id /\ c.rule = r
    <3> DEFINE i == CHOOSE c \in FreshIds(cs, held) : TRUE
               c == [cid |-> i, act |-> act, id |-> id, rule |-> r,
                     status |-> "pending", attempts |-> 0]
    <3>1. i \in CmdIds
      BY DEF FreshIds
    <3> HIDE DEF i
    <3>2. c \in Command /\ c.act = act /\ c.id = id /\ c.rule = r
      BY <3>1, AttemptsAssumption DEF Command
    <3>3. q = Append(cs, c)
      BY <1>2 DEF queue_portmap_command, i
    <3> QED
      BY <3>2, <3>3
  <2>2. Harmless(want, c)
    BY <2>1, SameHarm
  <2> HIDE DEF q
  <2>3. DOMAIN q = 1 .. Len(cs) + 1 /\ (\A k \in DOMAIN cs : q[k] = cs[k]) /\ q[Len(cs) + 1] = c
    BY <1>0, <2>1
  <2>4. \A k \in DOMAIN q : k \in DOMAIN cs \/ k = Len(cs) + 1
    BY <1>0, <2>3
  <2> QED
    BY <2>2, <2>3, <2>4 DEF AllHarmless, q
<1> QED
  BY <1>1, <1>2

(* A report of any age is answered with harmless commands only. *)
LEMMA DriftHarmless ==
    ASSUME HubTypeOK, NEW c \in Config, Status(c)
    PROVE  AllHarmless(Desired, todo')
<1> DEFINE D == {i \in RuleIds : c[i] # Desired[i]}
           w == Desired
<1>1. PICK ids \in Bijection(1 .. Cardinality(D), D) :
         todo' = [k \in DOMAIN ids |->
                    [act |-> IF w[ids[k]] # NoRule THEN "upsert" ELSE "delete",
                     id |-> ids[k], rule |-> w[ids[k]]]]
  BY DEF Status, Drift
<1> HIDE DEF w
<1>2. ASSUME NEW k \in DOMAIN ids PROVE Harmless(w, todo'[k])
  <2> DEFINE x == [act |-> IF w[ids[k]] # NoRule THEN "upsert" ELSE "delete",
                   id |-> ids[k], rule |-> w[ids[k]]]
  <2>1. todo'[k] = x
    BY <1>1
  <2>2. /\ x.act = (IF w[ids[k]] # NoRule THEN "upsert" ELSE "delete")
        /\ x.id = ids[k] /\ x.rule = w[ids[k]]
    OBVIOUS
  <2> HIDE DEF x
  <2> QED
    BY <2>1, <2>2 DEF Harmless
<1>3. DOMAIN todo' = DOMAIN ids
  BY <1>1
<1> QED
  BY <1>2, <1>3 DEF AllHarmless, w

(* The daemon carries out a harmless command and keeps its rules. *)
LEMMA HarmlessApplied ==
    ASSUME local \in Config, NEW c \in Handed, Harmless(local, c)
    PROVE  Apply(c) = local
<1>1. c.id \in RuleIds /\ c.act \in {"upsert", "stop", "delete"} /\ local[c.id] \in Rule \cup {NoRule}
  BY DEF Handed, Config
<1>2. CASE c.act = "upsert"
  <2>1. c.rule = local[c.id]
    BY <1>2 DEF Harmless
  <2>2. [local EXCEPT ![c.id] = c.rule] = local
    BY <1>1, <2>1 DEF Config
  <2> QED
    BY <1>2, <2>2 DEF Apply
<1>3. CASE c.act = "delete"
  <2>1. [local EXCEPT ![c.id] = NoRule] = local
    BY <1>1, <1>3 DEF Harmless, Config
  <2> QED
    BY <1>3, <2>1 DEF Apply
<1>4. CASE c.act = "stop" /\ local[c.id] # NoRule
  <2> DEFINE r == local[c.id]
  <2>1. r \in Rule /\ r.enabled = FALSE
    BY <1>1, <1>4 DEF Harmless, Rule
  <2>2. [r EXCEPT !.enabled = FALSE] = r
    BY <2>1 DEF Rule
  <2>3. [local EXCEPT ![c.id].enabled = FALSE] = local
    BY <1>1, <2>2 DEF Config
  <2> QED
    BY <1>4, <2>3 DEF Apply
<1>5. CASE c.act = "stop" /\ local[c.id] = NoRule
  BY <1>5 DEF Apply
<1> QED
  BY <1>1, <1>2, <1>3, <1>4, <1>5

(* A poll hands out and marks what is harmless. *)
LEMMA PollHarmless ==
    ASSUME HubTypeOK, NEW want, NEW due \in SUBSET Retriable, Poll(due), AllHarmless(want, cmds)
    PROVE  AllHarmless(want, cmds') /\ AllHarmless(want, Batch(due))
<1>0. cmds \in Seq(Command) /\ Len(cmds) \in Nat /\ DOMAIN cmds = 1 .. Len(cmds)
  BY DEF HubTypeOK
<1>1. Selected(due) \in SUBSET DOMAIN cmds
  BY DEF Selected, Retriable
<1>2. ASSUME NEW k \in DOMAIN cmds
      PROVE  /\ cmds'[k].act = cmds[k].act /\ cmds'[k].id = cmds[k].id
             /\ cmds'[k].rule = cmds[k].rule
  <2>1. cmds[k] \in Command
    BY <1>0, CommandFields
  <2>2. \E n : cmds'[k] \in {cmds[k], [cmds[k] EXCEPT !.status = "delivered", !.attempts = n]}
    <3>1. [cmds[k] EXCEPT !.status = "delivered", !.attempts = Min({@ + 1, MaxAttempts})]
          = [cmds[k] EXCEPT !.status = "delivered",
                            !.attempts = Min({cmds[k].attempts + 1, MaxAttempts})]
      BY <2>1 DEF Command
    <3> QED
      BY <3>1 DEF Poll
  <2> QED
    BY <2>1, <2>2 DEF Command
<1>3. DOMAIN cmds' = DOMAIN cmds
  BY DEF Poll
<1>4. AllHarmless(want, cmds')
  BY <1>2, <1>3, SameHarm DEF AllHarmless
<1> DEFINE H == [k \in DOMAIN cmds |-> [cid |-> cmds[k].cid, act |-> cmds[k].act,
                                       id |-> cmds[k].id, rule |-> cmds[k].rule]]
<1>5. /\ DOMAIN H = DOMAIN cmds
      /\ \A k \in DOMAIN cmds : /\ H[k].act = cmds[k].act /\ H[k].id = cmds[k].id
                                /\ H[k].rule = cmds[k].rule /\ H[k] \in Handed
  BY <1>0, CommandFields DEF Handed
<1>6. H \in Seq(Handed)
  <2>1. H = [k \in 1 .. Len(cmds) |-> H[k]]
    BY <1>0
  <2> HIDE DEF H
  <2> QED
    BY <1>0, <1>5, <2>1
<1>7. Batch(due) = Keep(H, Selected(due))
  BY DEF Batch
<1> HIDE DEF H
<1>8. AllHarmless(want, H)
  BY <1>5, SameHarm DEF AllHarmless
<1>9. AllHarmless(want, Keep(H, Selected(due)))
  BY <1>1, <1>5, <1>6, <1>8, KeepHarmless
<1> QED
  BY <1>4, <1>7, <1>9

(* The Hub's handler for a message of any age. *)
LEMMA ProcessHarmless ==
    ASSUME HubTypeOK, NEW m \in Message, Process(m), AllHarmless(Desired, cmds),
           AllHarmless(Desired, todo)
    PROVE  rows' = rows /\ AllHarmless(Desired, cmds') /\ AllHarmless(Desired, todo')
<1>1. m.kind = "ack" \/ (m.kind = "status" /\ m.rules \in Config)
  BY DEF Message
<1>2. CASE m.kind = "ack"
  <2>1. PICK K \in SUBSET DOMAIN cmds : cmds' = Keep(cmds, K) /\ rows' = rows /\ todo' = todo
    BY <1>2 DEF Process, Acked
  <2>2. cmds \in Seq(Command)
    BY DEF HubTypeOK
  <2> DEFINE w == Desired
  <2> HIDE DEF w
  <2>3. AllHarmless(w, cmds')
    BY <2>1, <2>2, KeepHarmless DEF w
  <2> QED
    BY <2>1, <2>3 DEF w
<1>3. CASE m.kind = "status" /\ m.rules \in Config
  <2>1. Status(m.rules)
    BY <1>3 DEF Process
  <2>2. AllHarmless(Desired, todo')
    BY <1>3, <2>1, DriftHarmless
  <2>3. cmds' = cmds /\ rows' = rows
    BY <2>1 DEF Status
  <2> QED
    BY <2>2, <2>3
<1> QED
  BY <1>1, <1>2, <1>3

(* The steps that may end Settled: an edit of the APP, a reset of the router. *)
StaysSettled == [][Settled => Settled' \/ Edit \/ RouterReset]_vars

(* Once the router has the desired rules and nothing but harmless commands   *)
(* is under way, that stays so until the APP edits a rule or the router is   *)
(* reset: reports of any age that reach the Hub late, commands handed out    *)
(* again, answers that are lost, acknowledgements of other times, restarts   *)
(* of Hub and agent and the passing of a lease never make the Hub            *)
(* (reconcile, queue_portmap_command) undo a rule that is right.             *)
THEOREM SettledMapsStay == Spec => StaysSettled
<1> DEFINE A == Settled => Settled' \/ Edit \/ RouterReset
<1>1. MapInv /\ [Next]_vars => [A]_vars
  <2> SUFFICES ASSUME MapInv, Next, Settled, ~ Edit, ~ RouterReset PROVE Settled'
    OBVIOUS
  <2> DEFINE w == Desired
  <2>0. /\ TypeOK /\ HubTypeOK /\ local \in Config /\ cmds \in Seq(Command)
        /\ batch \in Seq(Handed) /\ todo \in Seq(Repair) /\ late \subseteq Message
        /\ local = w /\ AllHarmless(w, cmds) /\ AllHarmless(w, batch) /\ AllHarmless(w, todo)
    BY DEF MapInv, TypeOK, HubTypeOK, Settled
  <2>1. ASSUME rows' = rows, local' = local, AllHarmless(w, cmds'), AllHarmless(w, batch'),
               AllHarmless(w, todo')
        PROVE  Settled'
    <3>1. Desired' = w
      BY <2>1 DEF Desired
    <3>2. AllHarmless(Desired, cmds)' /\ AllHarmless(Desired, batch)' /\ AllHarmless(Desired, todo)'
      BY <2>1, <3>1 DEF AllHarmless, Harmless
    <3> QED
      BY <2>0, <2>1, <3>1, <3>2 DEF Settled
  <2>p. \A m \in Message : Process(m) =>
          rows' = rows /\ AllHarmless(w, cmds') /\ AllHarmless(w, todo')
    BY <2>0, ProcessHarmless
  <2> HIDE DEF w
  <2>2. CASE AgentPoll
    <3>1. PICK due \in SUBSET Retriable : Poll(due) /\ batch' = Batch(due)
      BY <2>2 DEF AgentPoll
    <3>2. AllHarmless(w, cmds') /\ AllHarmless(w, batch')
      BY <2>0, <3>1, PollHarmless
    <3>3. rows' = rows /\ todo' = todo /\ local' = local
      BY <2>2, <3>1 DEF AgentPoll, Poll
    <3> QED
      BY <2>0, <2>1, <3>2, <3>3
  <2>3. CASE PollLost
    <3>1. PICK due \in SUBSET Retriable : Poll(due)
      BY <2>3 DEF PollLost
    <3>2. AllHarmless(w, cmds')
      BY <2>0, <3>1, PollHarmless
    <3>3. rows' = rows /\ todo' = todo /\ local' = local /\ batch' = batch
      BY <2>3, <3>1 DEF PollLost, Poll
    <3> QED
      BY <2>0, <2>1, <3>2, <3>3
  <2>4. CASE AgentApply
    <3> DEFINE c == Head(batch)
    <3>1. /\ batch # <<>> /\ (local' = Apply(c) \/ local' = local) /\ batch' = Tail(batch)
          /\ UNCHANGED <<rows, cmds, todo>>
      BY <2>4 DEF AgentApply
    <3>2. c \in Handed /\ c = batch[1] /\ 1 \in DOMAIN batch
      BY <2>0, <3>1
    <3>3. Harmless(w, c)
      BY <2>0, <3>2 DEF AllHarmless
    <3> HIDE DEF c
    <3>4. local' = local
      BY <2>0, <3>1, <3>2, <3>3, HarmlessApplied
    <3>5. AllHarmless(w, batch')
      <4>1. \A k \in DOMAIN Tail(batch) : k + 1 \in DOMAIN batch /\ Tail(batch)[k] = batch[k + 1]
        BY <2>0, <3>1
      <4> QED
        BY <2>0, <3>1, <4>1 DEF AllHarmless
    <3> QED
      BY <2>0, <2>1, <3>1, <3>4, <3>5
  <2>5. CASE AgentAck \/ AgentStatus
    <3>1. PICK m \in Message : Process(m)
      BY <2>0, <2>5, SentMessages DEF AgentAck, AgentStatus, AgentPost
    <3>2. local' = local /\ batch' = batch
      BY <2>5 DEF AgentAck, AgentStatus, AgentPost
    <3> QED
      BY <2>0, <2>1, <2>p, <3>1, <3>2
  <2>6. CASE DeliverLate
    <3>1. PICK m \in late : Process(m)
      BY <2>6 DEF DeliverLate
    <3>2. local' = local /\ batch' = batch
      BY <2>6 DEF DeliverLate
    <3> QED
      BY <2>0, <2>1, <2>p, <3>1, <3>2
  <2>7. CASE HubReconcile
    <3> DEFINE x == Head(todo)
    <3>1. /\ todo # <<>> /\ FreshIds(cmds, Held) # {}
          /\ cmds' = queue_portmap_command(cmds, x.act, x.id, x.rule, Held)
          /\ todo' = Tail(todo) /\ rows' = rows /\ local' = local /\ batch' = batch
      BY <2>7 DEF HubReconcile, ReconcileStep, Unlocked
    <3>2. x \in Repair /\ x = todo[1] /\ 1 \in DOMAIN todo
      BY <2>0, <3>1
    <3>3. Harmless(w, x)
      BY <2>0, <3>2 DEF AllHarmless
    <3> HIDE DEF x
    <3>4. x.act \in {"upsert", "stop", "delete"} /\ x.id \in RuleIds /\ x.rule \in Rule \cup {NoRule}
      BY <3>2 DEF Repair
    <3>5. AllHarmless(w, cmds')
      BY <2>0, <3>1, <3>3, <3>4, QueueHarmless
    <3>6. AllHarmless(w, todo')
      <4>1. \A k \in DOMAIN Tail(todo) : k + 1 \in DOMAIN todo /\ Tail(todo)[k] = todo[k + 1]
        BY <2>0, <3>1
      <4> QED
        BY <2>0, <3>1, <4>1 DEF AllHarmless
    <3> QED
      BY <2>0, <2>1, <3>1, <3>5, <3>6
  <2>8. CASE LoseLate \/ AgentAckFails \/ AgentStatusFails \/ Tick
    BY <2>0, <2>1, <2>8 DEF LoseLate, AgentAckFails, AgentStatusFails, AgentPostFails, Tick
  <2>9. CASE HubRestart
    <3>1. PICK K \in SUBSET DOMAIN cmds :
             cmds' = Keep(cmds, K) /\ rows' = rows /\ todo' = <<>>
      BY <2>9 DEF HubRestart, Restart
    <3>2. AllHarmless(w, cmds')
      BY <2>0, <3>1, KeepHarmless
    <3>3. AllHarmless(w, todo') /\ local' = local /\ batch' = batch
      BY <2>9, <3>1 DEF HubRestart, AllHarmless
    <3> QED
      BY <2>0, <2>1, <3>1, <3>2, <3>3
  <2>10. CASE AgentRestart
    <3>1. batch' = <<>> /\ UNCHANGED <<rows, cmds, todo, local>>
      BY <2>10 DEF AgentRestart
    <3>2. AllHarmless(w, batch')
      BY <3>1 DEF AllHarmless
    <3> QED
      BY <2>0, <2>1, <3>1, <3>2
  <2> QED
    BY <2>2, <2>3, <2>4, <2>5, <2>6, <2>7, <2>8, <2>9, <2>10 DEF Next, AgentStep
<1>2. StaysSettled <=> [][A]_vars
  BY DEF StaysSettled
<1> HIDE DEF A
<1> QED
  BY <1>1, <1>2, MapInvariant, PTL DEF Spec
=============================================================================
