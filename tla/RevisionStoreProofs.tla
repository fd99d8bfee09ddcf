------------------------- MODULE RevisionStoreProofs -------------------------
(***************************************************************************)
(* Proofs about RevisionStore.                                             *)
(***************************************************************************)
EXTENDS RevisionStore, FiniteSetTheorems, SequenceTheorems, WellFoundedInduction, TLAPS

(* A log of revisions up to n. *)
IsLog(l, n) == DOMAIN l \subseteq 1 .. n /\ l \in [DOMAIN l -> Row]

(* The rows of a log are the newest ones: nothing is missing between two. *)
Upward(l, n) == \A r \in DOMAIN l, s \in 1 .. n : r <= s => s \in DOMAIN l

(* Rows are written in the order of the clock, and none after t. *)
Chrono(l, t) ==
    \A r, s \in DOMAIN l : l[s].at <= t /\ (r <= s => l[r].at <= l[s].at)

(* The last row of an entity says what the documents say of it. *)
LastRowHolds(l, d) ==
    \A r \in DOMAIN l :
        /\ l[r].key \in Keys
        /\ \A s \in DOMAIN l : r < s => l[s].key # l[r].key
        => l[r].val = d[l[r].key]

(* Unless a row after the APP's revision is gone, the APP is right about *)
(* every entity that has no row after its revision.                      *)
ReplicaInv ==
    cursor + 1 .. seq \subseteq DOMAIN log =>
        \A k \in Keys : replica[k] = docs[k] \/ \E r \in Since(cursor) : log[r].key = k

LogInv == Upward(log, seq) /\ Chrono(log, now) /\ LastRowHolds(log, docs)

Inv == TypeOK /\ LogInv /\ ReplicaInv
-----------------------------------------------------------------------------
(* A non-empty set of revisions up to n has a last one. *)
LEMMA LastExists ==
    ASSUME NEW n \in Nat, NEW S \in SUBSET (0 .. n), S # {}, NEW none
    PROVE  /\ Last(S, none) \in S
           /\ \A s \in S : s <= Last(S, none)
<1> DEFINE T == {n - s : s \in S}
<1>1. T \subseteq Nat /\ T # {}
  <2>1. PICK s \in S : TRUE
    OBVIOUS
  <2>2. n - s \in T
    BY <2>1
  <2>3. \A i \in S : n - i \in Nat
    OBVIOUS
  <2> QED
    BY <2>2, <2>3
<1>2. PICK x \in T : \A y \in T : ~ (<<y, x>> \in OpToRel(<, Nat))
  BY <1>1, WFMin, NatLessThanWellFounded
<1>3. \A y \in T : ~ (y < x)
  BY <1>1, <1>2 DEF OpToRel
<1>4. PICK r \in S : x = n - r
  OBVIOUS
<1>5. ASSUME NEW s \in S PROVE s <= r
  <2>1. n - s \in T
    OBVIOUS
  <2>2. ~ (n - s < n - r)
    BY <1>3, <1>4, <2>1
  <2>3. s \in Int /\ r \in Int
    BY <1>4
  <2> QED
    BY <2>2, <2>3
<1> QED
  BY <1>4, <1>5 DEF Last

(* Pruning keeps rows of the log, unchanged. *)
LEMMA PruneKeeps ==
    ASSUME NEW l, NEW n \in Nat, NEW t, IsLog(l, n)
    PROVE  /\ IsLog(prune_revisions(l, t), n)
           /\ DOMAIN prune_revisions(l, t) \subseteq DOMAIN l
           /\ \A r \in DOMAIN prune_revisions(l, t) : prune_revisions(l, t)[r] = l[r]
<1> DEFINE S == Newest(WithinAge(l, t))
<1>1. S \subseteq DOMAIN l
  BY DEF Newest, WithinAge
<1>2. prune_revisions(l, t) = [r \in S |-> l[r]]
  BY DEF prune_revisions, Keep
<1> QED
  BY <1>1, <1>2 DEF IsLog

(* Pruning removes the oldest rows of a log that lacks none: both the age *)
(* limit and the row limit keep every row that is newer than one they keep. *)
LEMMA PruneUpward ==
    ASSUME NEW l, NEW n \in Nat, NEW t \in Int, IsLog(l, n),
           Upward(l, n), Chrono(l, t)
    PROVE  /\ Upward(prune_revisions(l, t), n)
           /\ Chrono(prune_revisions(l, t), t)
<1> DEFINE A == WithinAge(l, t)
           S == Newest(A)
           p == prune_revisions(l, t)
<1>1. S \subseteq A /\ A \subseteq DOMAIN l /\ DOMAIN l \subseteq 1 .. n
  BY DEF Newest, WithinAge, IsLog
<1>2. p = [r \in S |-> l[r]] /\ DOMAIN p = S
  BY DEF prune_revisions, Keep
<1>3. ASSUME NEW r \in S, NEW s \in 1 .. n, r <= s
      PROVE  s \in S
  <2>1. s \in DOMAIN l
    BY <1>1, <1>3 DEF Upward
  <2>2. s \in A
    <3>1. l[r].at >= t - MaxAge
      BY <1>1 DEF WithinAge
    <3>2. l[r].at <= l[s].at
      BY <1>1, <1>3, <2>1 DEF Chrono
    <3>3. l[r].at \in Int /\ l[s].at \in Int
      BY <1>1, <2>1, BoundsAssumption DEF IsLog, Row
    <3> QED
      BY <2>1, <3>1, <3>2, <3>3, MaxAgeAssumption DEF WithinAge
  <2>3. {x \in A : x > s} \subseteq {x \in A : x > r}
    BY <1>1, <1>3
  <2>4. IsFiniteSet({x \in A : x > r})
    BY <1>1, FS_Interval, FS_Subset
  <2>5. /\ Cardinality({x \in A : x > s}) <= Cardinality({x \in A : x > r})
        /\ Cardinality({x \in A : x > s}) \in Nat
        /\ Cardinality({x \in A : x > r}) \in Nat
    BY <2>3, <2>4, FS_Subset, FS_CardinalityType
  <2>6. Cardinality({x \in A : x > r}) < RowCap
    BY DEF Newest
  <2> QED
    BY <2>2, <2>5, <2>6, RowCapAssumption DEF Newest
<1>4. Upward(p, n)
  BY <1>2, <1>3 DEF Upward
<1>5. Chrono(p, t)
  BY <1>1, <1>2 DEF Chrono
<1> QED
  BY <1>4, <1>5

(* What a save appends: Len(ch) rows stamped with the clock, one for each change. *)
LEMMA AppendedLog ==
    ASSUME TypeOK, NEW ch \in Changes, seq + Len(ch) <= MaxRevision
    PROVE  /\ Len(ch) \in Nat /\ DOMAIN ch = 1 .. Len(ch)
           /\ \A i \in DOMAIN ch : ch[i] \in Change
           /\ DOMAIN Appended(ch) = DOMAIN log \cup (seq + 1 .. seq + Len(ch))
           /\ \A r \in DOMAIN log : Appended(ch)[r] = log[r]
           /\ \A i \in DOMAIN ch :
                 Appended(ch)[seq + i] = [key |-> ch[i].key, val |-> ch[i].val, at |-> now]
           /\ IsLog(Appended(ch), seq + Len(ch))
<1>1. PICK n \in 0 .. MaxBatch : ch \in [1 .. n -> Change]
  BY DEF Changes
<1>2. n \in Nat
  BY <1>1, BoundsAssumption
<1>3. Len(ch) = n /\ DOMAIN ch = 1 .. n
  BY <1>1, <1>2, SeqDef, LenProperties
<1>4. seq \in Nat /\ DOMAIN log \subseteq 1 .. seq
  BY BoundsAssumption DEF TypeOK
<1>5. DOMAIN Appended(ch) = DOMAIN log \cup (seq + 1 .. seq + n)
  BY <1>3 DEF Appended
<1>6. \A r \in DOMAIN log : Appended(ch)[r] = log[r]
  BY <1>4, <1>5 DEF Appended
<1>7. ASSUME NEW i \in DOMAIN ch
      PROVE  Appended(ch)[seq + i] = [key |-> ch[i].key, val |-> ch[i].val, at |-> now]
  <2>1. seq + i \in seq + 1 .. seq + n /\ ~ (seq + i <= seq) /\ (seq + i) - seq = i
    BY <1>2, <1>3, <1>4
  <2> QED
    BY <1>3, <2>1 DEF Appended
<1>8. ASSUME NEW r \in DOMAIN Appended(ch)
      PROVE  Appended(ch)[r] \in Row
  <2>1. CASE r \in DOMAIN log
    BY <1>6, <2>1 DEF TypeOK
  <2>2. CASE r \in seq + 1 .. seq + n
    <3>1. r - seq \in DOMAIN ch /\ seq + (r - seq) = r
      BY <1>2, <1>3, <1>4, <2>2
    <3>2. Appended(ch)[r] = [key |-> ch[r - seq].key, val |-> ch[r - seq].val, at |-> now]
      BY <1>7, <3>1
    <3>3. ch[r - seq] \in Change /\ now \in 0 .. MaxDay
      BY <1>1, <1>3, <3>1 DEF TypeOK
    <3> QED
      BY <3>2, <3>3 DEF Row, Change
  <2> QED
    BY <1>5, <2>1, <2>2
<1>9. IsLog(Appended(ch), seq + n)
  <2>1. DOMAIN Appended(ch) \subseteq 1 .. seq + n
    BY <1>2, <1>4, <1>5
  <2>2. Appended(ch) \in [DOMAIN Appended(ch) -> Row]
    BY <1>8 DEF Appended
  <2> QED
    BY <2>1, <2>2 DEF IsLog
<1> QED
  BY <1>1, <1>2, <1>3, <1>5, <1>6, <1>7, <1>9

(* The log after a save, before or after the pruning that may follow. *)
LEMMA SaveLog ==
    ASSUME TypeOK, LogInv, NEW ch \in Changes, NEW prune \in BOOLEAN, Save(ch, prune)
    PROVE  /\ IsLog(log', seq')
           /\ Upward(log', seq')
           /\ Chrono(log', now')
           /\ DOMAIN log' \subseteq DOMAIN Appended(ch)
           /\ \A r \in DOMAIN log' : log'[r] = Appended(ch)[r]
<1> DEFINE l == Appended(ch)
           n == seq + Len(ch)
<1>1. seq' = n /\ now' = now /\ n <= MaxRevision
  BY DEF Save
<1>2. /\ Len(ch) \in Nat /\ DOMAIN ch = 1 .. Len(ch)
      /\ DOMAIN l = DOMAIN log \cup (seq + 1 .. n)
      /\ \A r \in DOMAIN log : l[r] = log[r]
      /\ \A i \in DOMAIN ch : l[seq + i] = [key |-> ch[i].key, val |-> ch[i].val, at |-> now]
      /\ IsLog(l, n)
  BY <1>1, AppendedLog
<1>3. seq \in Nat /\ n \in Nat /\ now \in Int /\ DOMAIN log \subseteq 1 .. seq
  BY <1>2, BoundsAssumption DEF TypeOK
<1>4. Upward(l, n)
  BY <1>2, <1>3 DEF Upward, LogInv
<1>5. Chrono(l, now)
  <2>1. ASSUME NEW r \in seq + 1 .. n PROVE l[r].at = now
    <3>1. PICK i \in DOMAIN ch : r = seq + i
      <4>1. r - seq \in DOMAIN ch /\ r = seq + (r - seq)
        BY <1>2, <1>3
      <4> QED
        BY <4>1
    <3>2. l[seq + i] = [key |-> ch[i].key, val |-> ch[i].val, at |-> now]
      BY <1>2, <3>1
    <3>3. l[seq + i].at = now
      BY ONLY <3>2
    <3> QED
      BY <3>1, <3>3
  <2>2. \A r \in DOMAIN log : l[r].at <= now /\ l[r].at \in Int
    BY <1>2, BoundsAssumption DEF LogInv, Chrono, TypeOK, Row
  <2>3. \A r, s \in DOMAIN log : r <= s => l[r].at <= l[s].at
    BY <1>2 DEF LogInv, Chrono
  <2>4. \A r \in seq + 1 .. n, s \in DOMAIN log : ~ (r <= s)
    BY <1>3
  <2> QED
    BY <1>2, <1>3, <2>1, <2>2, <2>3, <2>4 DEF Chrono
<1>6. CASE prune
  <2>1. log' = prune_revisions(l, now)
    BY <1>6 DEF Save
  <2> QED
    BY <1>1, <1>2, <1>3, <1>4, <1>5, <2>1, PruneKeeps, PruneUpward
<1>7. CASE ~ prune
  <2>1. log' = l
    BY <1>7 DEF Save
  <2> QED
    BY <1>1, <1>2, <1>4, <1>5, <2>1
<1> QED
  BY <1>6, <1>7

(* The log after a restart, with the baseline row of an empty one. *)
LEMMA RestartLog ==
    ASSUME TypeOK, LogInv, Restart
    PROVE  /\ seq' \in seq .. MaxRevision
           /\ IsLog(log', seq')
           /\ Upward(log', seq')
           /\ Chrono(log', now')
           /\ \A r \in DOMAIN log' :
                 IF DOMAIN log = {} THEN r = seq + 1 /\ log'[r].key = NoKey
                                    ELSE r \in DOMAIN log /\ log'[r] = log[r]
           /\ DOMAIN log # {} => seq' = seq
<1>1. /\ seq \in Nat /\ seq <= MaxRevision /\ now \in Int /\ now \in 0 .. MaxDay
      /\ MaxRevision \in Nat
      /\ now' = now /\ log' = prune_revisions(WithBaseline(log), now)
  BY BoundsAssumption DEF TypeOK, Restart
<1>2. CASE DOMAIN log = {}
  <2> DEFINE l == [r \in {seq + 1} |-> BaselineRow(now)]
  <2>1. seq' = seq + 1 /\ seq < MaxRevision /\ log' = prune_revisions(l, now)
    BY <1>1, <1>2 DEF Restart, WithBaseline
  <2>2. DOMAIN l = {seq + 1} /\ l[seq + 1] = BaselineRow(now)
    OBVIOUS
  <2>3. BaselineRow(now) \in Row /\ BaselineRow(now).key = NoKey /\ BaselineRow(now).at = now
    BY <1>1 DEF BaselineRow, Row
  <2>4. IsLog(l, seq + 1)
    <3>1. l \in [{seq + 1} -> Row]
      BY <2>3
    <3> QED
      BY <1>1, <2>2, <3>1 DEF IsLog
  <2>5. Upward(l, seq + 1) /\ Chrono(l, now)
    BY <1>1, <2>2, <2>3 DEF Upward, Chrono
  <2> HIDE DEF l
  <2>6. /\ IsLog(log', seq + 1) /\ Upward(log', seq + 1) /\ Chrono(log', now)
        /\ DOMAIN log' \subseteq DOMAIN l
        /\ \A r \in DOMAIN log' : log'[r] = l[r]
    BY <1>1, <2>1, <2>4, <2>5, PruneKeeps, PruneUpward
  <2> QED
    BY <1>1, <1>2, <2>1, <2>2, <2>3, <2>6
<1>3. CASE DOMAIN log # {}
  <2>1. seq' = seq /\ log' = prune_revisions(log, now)
    BY <1>1, <1>3 DEF Restart, WithBaseline
  <2>2. IsLog(log, seq) /\ Upward(log, seq) /\ Chrono(log, now)
    BY DEF TypeOK, IsLog, LogInv
  <2>3. /\ IsLog(log', seq) /\ Upward(log', seq) /\ Chrono(log', now)
        /\ DOMAIN log' \subseteq DOMAIN log
        /\ \A r \in DOMAIN log' : log'[r] = log[r]
    BY <1>1, <2>1, <2>2, PruneKeeps, PruneUpward
  <2> QED
    BY <1>1, <1>3, <2>1, <2>3
<1> QED
  BY <1>2, <1>3

(* Rows after a revision, and the page cut from them: a prefix of the rows. *)
LEMMA PagePrefix ==
    ASSUME TypeOK, NEW since \in Nat
    PROVE  /\ Page(since) \in SUBSET Since(since)
           /\ Since(since) \in SUBSET (0 .. seq)
           /\ Since(since) \subseteq DOMAIN log
           /\ \A r \in Since(since) \ Page(since), p \in Page(since) : p < r
<1>1. seq \in Nat /\ DOMAIN log \subseteq 1 .. seq
  BY BoundsAssumption DEF TypeOK
<1>2. Since(since) \subseteq DOMAIN log /\ Since(since) \subseteq 0 .. seq
  BY <1>1 DEF Since
<1>3. Page(since) \subseteq Since(since)
  BY DEF Page
<1>4. ASSUME NEW r \in Since(since), NEW p \in Page(since), ~ (p < r)
      PROVE  r \in Page(since)
  <2>1. r <= p /\ p \in Since(since)
    BY <1>2, <1>3, <1>4
  <2>2. {s \in Since(since) : s <= r} \subseteq {s \in Since(since) : s <= p}
    BY <1>2, <2>1
  <2>3. IsFiniteSet({s \in Since(since) : s <= p})
    <3>1. {s \in Since(since) : s <= p} \subseteq 0 .. seq
      BY <1>2
    <3>2. IsFiniteSet(0 .. seq)
      BY <1>1, FS_Interval
    <3> QED
      BY <3>1, <3>2, FS_Subset
  <2>4. /\ Cardinality({s \in Since(since) : s <= r}) <= Cardinality({s \in Since(since) : s <= p})
        /\ Cardinality({s \in Since(since) : s <= r}) \in Nat
        /\ Cardinality({s \in Since(since) : s <= p}) \in Nat
    BY <2>2, <2>3, FS_Subset, FS_CardinalityType
  <2>5. Cardinality({s \in Since(since) : s <= p}) <= PageLimit
    BY DEF Page
  <2> QED
    BY <2>4, <2>5, PageLimitAssumption DEF Page
<1> QED
  BY <1>2, <1>3, <1>4

(* The revision a page leads to: the last of its rows, if it has any. *)
LEMMA NextIsLast ==
    ASSUME TypeOK, NEW since \in Nat, since <= seq
    PROVE  /\ NextRevision(since) \in 0 .. seq
           /\ \A p \in Page(since) : p <= NextRevision(since)
           /\ Page(since) = {} => NextRevision(since) = since
           /\ Page(since) # {} => NextRevision(since) \in Page(since)
<1>1. Page(since) \in SUBSET (0 .. seq) /\ seq \in Nat
  BY PagePrefix, BoundsAssumption DEF TypeOK
<1>2. CASE Page(since) = {}
  BY <1>1, <1>2 DEF NextRevision, Last
<1>3. CASE Page(since) # {}
  BY <1>1, <1>3, LastExists DEF NextRevision
<1> QED
  BY <1>2, <1>3
-----------------------------------------------------------------------------
(* The store begins with its baseline row and an APP that is up to date. *)
LEMMA InitInv == Init => Inv
<1> SUFFICES ASSUME Init PROVE Inv
  OBVIOUS
<1>1. /\ log = [r \in {1} |-> BaselineRow(0)] /\ DOMAIN log = {1} /\ log[1] = BaselineRow(0)
      /\ seq = 1 /\ now = 0 /\ cursor = 1 /\ replica = docs /\ docs \in State /\ full = FALSE
  BY DEF Init
<1>2. BaselineRow(0) \in Row /\ BaselineRow(0).key = NoKey /\ BaselineRow(0).at = 0
  BY BoundsAssumption DEF BaselineRow, Row
<1>3. log \in [DOMAIN log -> Row]
  BY <1>1, <1>2
<1>4. TypeOK
  <2>1. seq \in 0 .. MaxRevision /\ DOMAIN log \subseteq 1 .. seq
    BY <1>1, BoundsAssumption
  <2>2. now \in 0 .. MaxDay /\ cursor \in 0 .. seq
    BY <1>1, BoundsAssumption
  <2>3. docs \in State /\ replica \in State /\ full \in BOOLEAN
    BY <1>1
  <2> QED
    BY <1>3, <2>1, <2>2, <2>3 DEF TypeOK
<1>5. Upward(log, seq) /\ Chrono(log, now)
  BY <1>1, <1>2 DEF Upward, Chrono
<1>6. LastRowHolds(log, docs)
  BY <1>1, <1>2, KeysAssumption DEF LastRowHolds
<1>7. ReplicaInv
  BY <1>1 DEF ReplicaInv
<1> QED
  BY <1>4, <1>5, <1>6, <1>7 DEF Inv, LogInv

(* A save keeps the invariant: a row for every entity it changes, at the end *)
(* of the log, where no pruning reaches it without the rows before it.       *)
LEMMA SaveStep ==
    ASSUME Inv, NEW ch \in Changes, NEW prune \in BOOLEAN, Save(ch, prune)
    PROVE  Inv'
<1> DEFINE l == Appended(ch)
<1>0. TypeOK /\ LogInv /\ ReplicaInv
  BY DEF Inv
<1>1. /\ docs' = Updated(ch) /\ seq' = seq + Len(ch) /\ seq + Len(ch) <= MaxRevision
      /\ IsSave(ch) /\ now' = now /\ cursor' = cursor /\ replica' = replica /\ full' = full
  BY DEF Save
<1>2. /\ Len(ch) \in Nat /\ DOMAIN ch = 1 .. Len(ch)
      /\ \A i \in DOMAIN ch : ch[i] \in Change
      /\ DOMAIN l = DOMAIN log \cup (seq + 1 .. seq + Len(ch))
      /\ \A r \in DOMAIN log : l[r] = log[r]
      /\ \A i \in DOMAIN ch : l[seq + i] = [key |-> ch[i].key, val |-> ch[i].val, at |-> now]
  BY <1>0, <1>1, AppendedLog
<1>3. /\ IsLog(log', seq') /\ Upward(log', seq') /\ Chrono(log', now')
      /\ DOMAIN log' \subseteq DOMAIN l
      /\ \A r \in DOMAIN log' : log'[r] = l[r]
  BY <1>0, SaveLog
<1> HIDE DEF l
<1>4. /\ seq \in Nat /\ DOMAIN log \subseteq 1 .. seq /\ cursor \in 0 .. seq
      /\ MaxRevision \in Nat /\ docs \in State
  BY <1>0, BoundsAssumption DEF TypeOK
<1>5. ASSUME NEW i \in DOMAIN ch
      PROVE  /\ docs'[ch[i].key] = ch[i].val
             /\ l[seq + i].key = ch[i].key
             /\ l[seq + i].val = ch[i].val
             /\ seq + i \in seq + 1 .. seq'
  <2>1. ch[i].key \in Keys
    BY <1>2 DEF Change
  <2>2. (CHOOSE j \in DOMAIN ch : ch[j].key = ch[i].key) = i
    BY <1>1 DEF IsSave
  <2>3. docs'[ch[i].key] = ch[i].val
    BY <1>1, <2>1, <2>2 DEF Updated
  <2>4. l[seq + i] = [key |-> ch[i].key, val |-> ch[i].val, at |-> now]
    BY <1>2
  <2>5. l[seq + i].key = ch[i].key /\ l[seq + i].val = ch[i].val
    BY ONLY <2>4
  <2> QED
    BY <1>1, <1>2, <1>4, <2>3, <2>5
<1>6. \A k \in Keys : (\A i \in DOMAIN ch : ch[i].key # k) => docs'[k] = docs[k]
  BY <1>1 DEF Updated
<1>7. TypeOK'
  <2>1. docs' \in State
    <3>1. \A k \in Keys : docs'[k] \in Values \cup {Absent}
      <4> SUFFICES ASSUME NEW k \in Keys PROVE docs'[k] \in Values \cup {Absent}
        OBVIOUS
      <4>1. CASE \E i \in DOMAIN ch : ch[i].key = k
        BY <1>2, <1>5, <4>1 DEF Change
      <4>2. CASE ~ \E i \in DOMAIN ch : ch[i].key = k
        BY <1>4, <1>6, <4>2 DEF State
      <4> QED
        BY <4>1, <4>2
    <3> QED
      BY <1>1, <3>1 DEF State, Updated
  <2>2. seq' \in 0 .. MaxRevision /\ cursor' \in 0 .. seq'
    BY <1>1, <1>2, <1>4
  <2> QED
    BY <1>0, <1>1, <1>3, <2>1, <2>2 DEF TypeOK, IsLog
<1>8. LastRowHolds(log', docs')
  <2> SUFFICES ASSUME NEW r \in DOMAIN log', log'[r].key \in Keys,
                      \A s \in DOMAIN log' : r < s => log'[s].key # log'[r].key
               PROVE  log'[r].val = docs'[log'[r].key]
    BY DEF LastRowHolds
  <2>1. CASE r \in seq + 1 .. seq'
    <3>1. PICK i \in DOMAIN ch : r = seq + i
      <4>1. r - seq \in DOMAIN ch /\ r = seq + (r - seq)
        BY <1>1, <1>2, <1>4, <2>1
      <4> QED
        BY <4>1
    <3> QED
      BY <1>3, <1>5, <3>1
  <2>2. CASE r \in DOMAIN log
    <3>1. log'[r] = log[r]
      BY <1>2, <1>3, <2>2
    <3>2. ASSUME NEW i \in DOMAIN ch, ch[i].key = log[r].key PROVE FALSE
      <4>1. seq + i \in DOMAIN log' /\ r < seq + i
        BY <1>3, <1>4, <1>5, <2>2 DEF Upward, IsLog
      <4> QED
        BY <1>3, <1>5, <3>1, <3>2, <4>1
    <3>3. ASSUME NEW s \in DOMAIN log, r < s PROVE log[s].key # log[r].key
      <4>1. s \in DOMAIN log'
        BY <1>1, <1>2, <1>3, <1>4, <2>2, <3>3 DEF Upward
      <4> QED
        BY <1>2, <1>3, <3>1, <3>3, <4>1
    <3>4. log[r].val = docs[log[r].key]
      BY <1>0, <2>2, <3>1, <3>3 DEF LogInv, LastRowHolds
    <3> QED
      BY <1>6, <3>1, <3>2, <3>4
  <2> QED
    BY <1>1, <1>2, <1>3, <2>1, <2>2
<1>9. ReplicaInv'
  <2> SUFFICES ASSUME cursor + 1 .. seq' \subseteq DOMAIN log', NEW k \in Keys
               PROVE  replica[k] = docs'[k] \/ \E r \in DOMAIN log' : r > cursor /\ log'[r].key = k
    BY <1>1 DEF ReplicaInv, Since
  <2>1. CASE \E i \in DOMAIN ch : ch[i].key = k
    <3>1. PICK i \in DOMAIN ch : ch[i].key = k
      BY <2>1
    <3>2. seq + i \in DOMAIN log' /\ seq + i > cursor
      BY <1>1, <1>2, <1>4, <1>5
    <3> QED
      BY <1>3, <1>5, <3>1, <3>2
  <2>2. CASE \A i \in DOMAIN ch : ch[i].key # k
    <3>1. docs'[k] = docs[k]
      BY <1>6, <2>2
    <3>2. cursor + 1 .. seq \subseteq DOMAIN log
      <4>1. ASSUME NEW s \in cursor + 1 .. seq PROVE s \in DOMAIN log
        <5>1. s \in DOMAIN l /\ s \notin seq + 1 .. seq + Len(ch)
          BY <1>1, <1>2, <1>3, <1>4
        <5> QED
          BY <1>2, <5>1
      <4> QED
        BY <4>1
    <3>3. replica[k] = docs[k] \/ \E r \in DOMAIN log : r > cursor /\ log[r].key = k
      BY <1>0, <3>2 DEF ReplicaInv, Since
    <3>4. ASSUME NEW r \in DOMAIN log, r > cursor PROVE r \in DOMAIN log' /\ log'[r] = log[r]
      <4>1. r \in cursor + 1 .. seq'
        BY <1>1, <1>2, <1>4, <3>4
      <4> QED
        BY <1>2, <1>3, <4>1
    <3> QED
      BY <3>1, <3>3, <3>4
  <2> QED
    BY <2>1, <2>2
<1> QED
  BY <1>3, <1>7, <1>8, <1>9 DEF Inv, LogInv

(* A restart keeps the invariant: the baseline row belongs to no entity. *)
LEMMA RestartStep ==
    ASSUME Inv, Restart
    PROVE  Inv'
<1>0. TypeOK /\ LogInv /\ ReplicaInv
  BY DEF Inv
<1>1. docs' = docs /\ now' = now /\ cursor' = cursor /\ replica' = replica /\ full' = full
  BY DEF Restart
<1>2. /\ seq' \in seq .. MaxRevision
      /\ IsLog(log', seq') /\ Upward(log', seq') /\ Chrono(log', now')
      /\ \A r \in DOMAIN log' :
            IF DOMAIN log = {} THEN r = seq + 1 /\ log'[r].key = NoKey
                               ELSE r \in DOMAIN log /\ log'[r] = log[r]
      /\ DOMAIN log # {} => seq' = seq
  BY <1>0, RestartLog
<1>3. /\ seq \in Nat /\ DOMAIN log \subseteq 1 .. seq /\ cursor \in 0 .. seq
      /\ MaxRevision \in Nat
  BY <1>0, BoundsAssumption DEF TypeOK
<1>4. TypeOK'
  <2>1. seq' \in 0 .. MaxRevision /\ cursor' \in 0 .. seq'
    BY <1>1, <1>2, <1>3
  <2> QED
    BY <1>0, <1>1, <1>2, <2>1 DEF TypeOK, IsLog
<1>5. LastRowHolds(log', docs')
  <2> SUFFICES ASSUME NEW r \in DOMAIN log', log'[r].key \in Keys,
                      \A s \in DOMAIN log' : r < s => log'[s].key # log'[r].key
               PROVE  log'[r].val = docs[log'[r].key]
    BY <1>1 DEF LastRowHolds
  <2>1. DOMAIN log # {} /\ r \in DOMAIN log /\ log'[r] = log[r] /\ seq' = seq
    BY <1>2, KeysAssumption
  <2>2. ASSUME NEW s \in DOMAIN log, r < s PROVE log[s].key # log[r].key
    <3>1. s \in DOMAIN log'
      BY <1>2, <1>3, <2>1, <2>2 DEF Upward
    <3> QED
      BY <1>2, <2>1, <2>2, <3>1
  <2> QED
    BY <1>0, <2>1, <2>2 DEF LogInv, LastRowHolds
<1>6. ReplicaInv'
  <2> SUFFICES ASSUME cursor + 1 .. seq' \subseteq DOMAIN log', NEW k \in Keys
               PROVE  replica[k] = docs[k] \/ \E r \in DOMAIN log' : r > cursor /\ log'[r].key = k
    BY <1>1 DEF ReplicaInv, Since
  <2>1. CASE DOMAIN log = {}
    <3>1. cursor + 1 .. seq \subseteq DOMAIN log
      <4>1. ASSUME NEW s \in cursor + 1 .. seq PROVE FALSE
        <5>1. s \in cursor + 1 .. seq' /\ s # seq + 1
          BY <1>2, <1>3
        <5> QED
          BY <1>2, <2>1, <5>1
      <4> QED
        BY <4>1
    <3> QED
      BY <1>0, <2>1, <3>1 DEF ReplicaInv, Since
  <2>2. CASE DOMAIN log # {}
    <3>1. cursor + 1 .. seq \subseteq DOMAIN log
      BY <1>2, <2>2
    <3>2. replica[k] = docs[k] \/ \E r \in DOMAIN log : r > cursor /\ log[r].key = k
      BY <1>0, <3>1 DEF ReplicaInv, Since
    <3>3. ASSUME NEW r \in DOMAIN log, r > cursor PROVE r \in DOMAIN log' /\ log'[r] = log[r]
      <4>1. r \in cursor + 1 .. seq'
        BY <1>2, <1>3, <2>2, <3>3
      <4> QED
        BY <1>2, <2>2, <4>1
    <3> QED
      BY <3>2, <3>3
  <2> QED
    BY <2>1, <2>2
<1> QED
  BY <1>2, <1>4, <1>5, <1>6 DEF Inv, LogInv

(* An APP that is not told to synchronise in full misses no row, unless the *)
(* log is empty.                                                            *)
LEMMA NotRefused ==
    ASSUME Inv, ~ FullRequired(cursor), DOMAIN log # {}
    PROVE  cursor + 1 .. seq \subseteq DOMAIN log
<1>1. PICK oldest \in DOMAIN log : ~ (cursor < oldest - 1)
  BY DEF FullRequired
<1>2. seq \in Nat /\ DOMAIN log \subseteq 1 .. seq /\ cursor \in 0 .. seq
  BY BoundsAssumption DEF Inv, TypeOK
<1>3. \A s \in cursor + 1 .. seq : s \in 1 .. seq /\ oldest <= s
  BY <1>1, <1>2
<1> QED
  BY <1>3 DEF Inv, LogInv, Upward

(* What the APP shows of an entity after a page: what the documents say, *)
(* unless rows of that entity remain for a later page.                   *)
LEMMA PageApplied ==
    ASSUME Inv, ~ FullRequired(cursor), NEW k \in Keys
    PROVE  \/ DOMAIN log = {}
           \/ Patched(replica, Page(cursor))[k] = docs[k]
           \/ \E r \in Since(cursor) \ Page(cursor) : log[r].key = k
<1> SUFFICES ASSUME DOMAIN log # {},
                    \A r \in Since(cursor) \ Page(cursor) : log[r].key # k
             PROVE  Patched(replica, Page(cursor))[k] = docs[k]
  OBVIOUS
<1> DEFINE mine == {r \in Page(cursor) : log[r].key = k}
<1>1. cursor + 1 .. seq \subseteq DOMAIN log
  BY NotRefused
<1>2. TypeOK /\ seq \in Nat /\ cursor \in Nat /\ DOMAIN log \subseteq 1 .. seq
  BY BoundsAssumption DEF Inv, TypeOK
<1>3. /\ Page(cursor) \subseteq Since(cursor)
      /\ Since(cursor) \subseteq DOMAIN log
      /\ Since(cursor) \subseteq 0 .. seq
  BY <1>2, PagePrefix
<1>4. CASE mine = {}
  <2>1. \A r \in Since(cursor) : log[r].key # k
    BY <1>4
  <2>2. replica[k] = docs[k]
    BY <1>1, <2>1 DEF Inv, ReplicaInv
  <2> QED
    BY <1>4, <2>2 DEF Patched
<1>5. CASE mine # {}
  <2> DEFINE r == Last(mine, 0)
  <2>1. r \in mine /\ \A s \in mine : s <= r
    BY <1>2, <1>3, <1>5, LastExists
  <2> HIDE DEF r
  <2>2. Patched(replica, Page(cursor))[k] = Payload(r)
    BY <1>5 DEF Patched, r
  <2>3. r \in DOMAIN log /\ log[r].key = k /\ r > cursor
    BY <1>3, <2>1 DEF Since
  <2>4. ASSUME NEW s \in DOMAIN log, r < s PROVE log[s].key # log[r].key
    <3>1. s \in Since(cursor)
      BY <1>2, <2>3, <2>4 DEF Since
    <3>2. CASE s \in Page(cursor)
      <4>1. s \notin mine
        BY <1>2, <2>1, <2>3, <2>4
      <4> QED
        BY <2>3, <3>2, <4>1
    <3>3. CASE s \notin Page(cursor)
      BY <2>3, <3>1, <3>3
    <3> QED
      BY <3>2, <3>3
  <2>5. log[r].val = docs[k]
    BY <2>3, <2>4 DEF Inv, LogInv, LastRowHolds
  <2> QED
    BY <2>2, <2>3, <2>5 DEF Payload
<1> QED
  BY <1>4, <1>5

(* A page keeps the invariant. *)
LEMMA FetchStep ==
    ASSUME Inv, FetchChanges
    PROVE  Inv'
<1>1. /\ docs' = docs /\ log' = log /\ seq' = seq /\ now' = now /\ full' = full
      /\ ~ FullRequired(cursor)
      /\ replica' = Patched(replica, Page(cursor))
      /\ cursor' = NextRevision(cursor)
  BY DEF FetchChanges
<1>2. /\ TypeOK /\ seq \in Nat /\ cursor \in Nat /\ cursor <= seq
      /\ DOMAIN log \subseteq 1 .. seq
  BY BoundsAssumption DEF Inv, TypeOK
<1>3. /\ Page(cursor) \subseteq Since(cursor)
      /\ Since(cursor) \subseteq DOMAIN log
      /\ Since(cursor) \subseteq 0 .. seq
      /\ \A r \in Since(cursor) \ Page(cursor), p \in Page(cursor) : p < r
  BY <1>2, PagePrefix
<1>4. /\ cursor' \in 0 .. seq
      /\ Page(cursor) = {} => cursor' = cursor
      /\ Page(cursor) # {} => cursor' \in Page(cursor)
  BY <1>1, <1>2, NextIsLast
<1>5. replica' \in State
  <2>1. ASSUME NEW k \in Keys PROVE replica'[k] \in Values \cup {Absent}
    <3> DEFINE mine == {r \in Page(cursor) : log[r].key = k}
    <3>1. CASE mine = {}
      <4>1. replica'[k] = replica[k]
        BY <1>1, <3>1 DEF Patched
      <4> QED
        BY <1>2, <4>1 DEF TypeOK, State
    <3>2. CASE mine # {}
      <4>1. replica'[k] = Payload(Last(mine, 0))
        BY <1>1, <3>2 DEF Patched
      <4>2. Last(mine, 0) \in mine
        BY <1>2, <1>3, <3>2, LastExists
      <4>3. PICK r \in DOMAIN log : r = Last(mine, 0) /\ log[r].key = k
        BY <1>3, <4>2
      <4>4. log[r].val \in Values \cup {Absent} /\ docs[k] \in Values \cup {Absent}
        BY <1>2, <4>3 DEF TypeOK, Row, State
      <4> QED
        BY <4>1, <4>3, <4>4 DEF Payload
    <3> QED
      BY <3>1, <3>2
  <2> QED
    BY <1>1, <2>1 DEF State, Patched
<1>6. TypeOK'
  BY <1>1, <1>2, <1>4, <1>5 DEF TypeOK
<1>7. LogInv'
  BY <1>1 DEF Inv, LogInv
<1>8. ReplicaInv'
  <2> SUFFICES ASSUME NEW k \in Keys, cursor' + 1 .. seq \subseteq DOMAIN log
               PROVE  replica'[k] = docs[k] \/ \E r \in DOMAIN log : r > cursor' /\ log[r].key = k
    BY <1>1 DEF ReplicaInv, Since
  <2>1. CASE DOMAIN log = {}
    <3>1. Page(cursor) = {} /\ Since(cursor) = {}
      BY <1>3, <2>1
    <3>2. cursor' = cursor /\ replica'[k] = replica[k]
      BY <1>1, <1>4, <3>1 DEF Patched
    <3> QED
      BY <2>1, <3>1, <3>2 DEF Inv, ReplicaInv
  <2>2. CASE DOMAIN log # {}
    <3>1. \/ replica'[k] = docs[k]
          \/ \E r \in Since(cursor) \ Page(cursor) : log[r].key = k
      BY <1>1, <2>2, PageApplied
    <3>2. \A r \in Since(cursor) \ Page(cursor) : r \in DOMAIN log /\ r > cursor'
      BY <1>3, <1>4 DEF Since
    <3> QED
      BY <3>1, <3>2
  <2> QED
    BY <2>1, <2>2
<1> QED
  BY <1>6, <1>7, <1>8 DEF Inv

(* A snapshot keeps the invariant. *)
LEMMA SnapshotStep ==
    ASSUME Inv, TakeSnapshot
    PROVE  Inv'
<1>1. /\ docs' = docs /\ log' = log /\ seq' = seq /\ now' = now
      /\ replica' = docs /\ cursor' = current_revision /\ full' = FALSE
  BY DEF TakeSnapshot
<1>2. TypeOK /\ LogInv /\ seq \in Nat /\ DOMAIN log \subseteq 1 .. seq
  BY BoundsAssumption DEF Inv, TypeOK
<1>3. current_revision \in 0 .. seq
  <2>1. CASE DOMAIN log = {}
    BY <1>2, <2>1 DEF current_revision, Last
  <2>2. CASE DOMAIN log # {}
    <3>1. DOMAIN log \in SUBSET (0 .. seq)
      BY <1>2
    <3>2. Last(DOMAIN log, 0) \in DOMAIN log
      BY <1>2, <2>2, <3>1, LastExists
    <3> QED
      BY <3>1, <3>2 DEF current_revision
  <2> QED
    BY <2>1, <2>2
<1>4. TypeOK'
  <2>1. full' \in BOOLEAN
    BY <1>1
  <2> QED
    BY <1>1, <1>2, <1>3, <2>1 DEF TypeOK
<1>5. LogInv' /\ ReplicaInv'
  BY <1>1, <1>2 DEF LogInv, ReplicaInv
<1> QED
  BY <1>4, <1>5 DEF Inv

(* The other steps leave the log, the documents and the replica alone; the *)
(* clock only moves forward.                                               *)
LEMMA OtherSteps ==
    ASSUME Inv, ~ ClockMaySlip, Tick \/ FetchRefused \/ UNCHANGED vars
    PROVE  Inv'
<1>0. TypeOK /\ LogInv /\ ReplicaInv
  BY DEF Inv
<1>1. CASE Tick
  <2>1. /\ docs' = docs /\ log' = log /\ seq' = seq /\ cursor' = cursor
        /\ replica' = replica /\ full' = full
        /\ now' = now + 1 /\ now' \in 0 .. MaxDay
    BY <1>1 DEF Tick
  <2>2. TypeOK'
    BY <1>0, <2>1 DEF TypeOK
  <2>3. \A r \in DOMAIN log : log[r].at \in Int
    BY <1>0, BoundsAssumption DEF TypeOK, Row
  <2>4. now \in Int
    BY <1>0, BoundsAssumption DEF TypeOK
  <2>5. LogInv'
    BY <1>0, <2>1, <2>3, <2>4 DEF LogInv, Chrono, Upward, LastRowHolds
  <2>6. ReplicaInv'
    BY <1>0, <2>1 DEF ReplicaInv, Since
  <2> QED
    BY <2>2, <2>5, <2>6 DEF Inv
<1>2. CASE FetchRefused \/ UNCHANGED vars
  <2>1. /\ docs' = docs /\ log' = log /\ seq' = seq /\ cursor' = cursor
        /\ replica' = replica /\ now' = now
    BY <1>2 DEF FetchRefused, vars
  <2>2. full' \in BOOLEAN
    BY <1>0, <1>2 DEF FetchRefused, vars, TypeOK
  <2> QED
    BY <1>0, <2>1, <2>2 DEF Inv, TypeOK, LogInv, ReplicaInv, Since
<1> QED
  BY <1>1, <1>2

(* Every step keeps the invariant when the clock is never set back. *)
LEMMA Step ==
    ASSUME Inv, ~ ClockMaySlip, [Next]_vars
    PROVE  Inv'
<1>1. CASE \E ch \in Changes, prune \in BOOLEAN : Save(ch, prune)
  BY <1>1, SaveStep
<1>2. CASE Restart
  BY <1>2, RestartStep
<1>3. CASE FetchChanges
  BY <1>3, FetchStep
<1>4. CASE TakeSnapshot
  BY <1>4, SnapshotStep
<1>5. CASE Tick \/ FetchRefused \/ UNCHANGED vars
  BY <1>5, OtherSteps
<1> QED
  BY <1>1, <1>2, <1>3, <1>4, <1>5 DEF Next
-----------------------------------------------------------------------------
(* An APP with a revision that is handed a last page then shows exactly what *)
(* the documents say.                                                        *)
LEMMA LastPageCompletes ==
    ASSUME Inv, FetchChanges, cursor > 0, ~ HasMore(cursor)
    PROVE  replica' = docs
<1>1. /\ TypeOK /\ docs \in State /\ cursor \in Nat
      /\ replica' = Patched(replica, Page(cursor)) /\ ~ FullRequired(cursor)
  BY BoundsAssumption DEF Inv, TypeOK, FetchChanges
<1>2. DOMAIN log # {}
  BY <1>1 DEF FullRequired, current_revision, Last
<1>3. Since(cursor) \ Page(cursor) = {}
  BY <1>1 DEF HasMore
<1>4. \A k \in Keys : replica'[k] = docs[k]
  BY <1>1, <1>2, <1>3, PageApplied
<1> QED
  BY <1>1, <1>4 DEF State, Patched

(* As long as the clock is not set back, the log loses only its oldest rows, *)
(* its last row of an entity is what the documents say, and the APP is right *)
(* about everything the rows after its revision do not mention.              *)
THEOREM StoreInvariant ==
    ASSUME ~ ClockMaySlip PROVE Spec => []Inv
<1>1. Inv /\ [Next]_vars => Inv'
  BY Step
<1> QED
  BY <1>1, InitInv, PTL DEF Spec

(* As long as the clock is not set back, incremental synchronisation is      *)
(* complete: for any documents, batch and page sizes and retention limits.   *)
THEOREM IncrementalSyncIsComplete ==
    ASSUME ~ ClockMaySlip PROVE Spec => ReplicaIsComplete
<1>1. Inv /\ [Next]_vars =>
        [FetchChanges /\ cursor > 0 /\ ~ HasMore(cursor) => replica' = docs]_vars
  BY LastPageCompletes
<1> QED
  BY <1>1, StoreInvariant, PTL DEF Spec, ReplicaIsComplete

(* The store, the log and the APP's copy keep their types: revisions stay    *)
(* within the counter and every row has the day it was written on.           *)
THEOREM TypeCorrect ==
    ASSUME ~ ClockMaySlip PROVE Spec => []TypeOK
<1>1. Inv => TypeOK
  BY DEF Inv
<1> QED
  BY <1>1, StoreInvariant, PTL
=============================================================================
