---------------------------- MODULE LabDdnsProofs ----------------------------
(***************************************************************************)
(* Proofs about LabDdns: its types, and the stability gate.  Samples, the  *)
(* worker, two executions of run_update, edits, deletions, provider errors *)
(* and restarts of the Hub, for any record types, addresses and bounds.    *)
(***************************************************************************)
EXTENDS LabDdns, TLAPS

(* A tracker counts samples in a row of the address that was sampled last. *)
CountInv ==
    Exists => \A t \in AddrTypes :
       rec.track[t].count >= 1 =>
          rec.track[t].cand = addr[t].val /\ rec.track[t].count <= streak[t]

GateInv == TypeOK /\ CountInv

USE DEF Type
-----------------------------------------------------------------------------
(* Operators on trackers and records keep the types. *)

(* Blank and forgotten trackers count nothing. *)
LEMMA BlankTracker ==
    /\ Blank \in Tracker /\ Blank.count = 0
    /\ \A tr \in Tracker : Forgotten(tr) \in Tracker /\ Forgotten(tr).count = 0
<1>1. Blank \in Tracker /\ Blank.count = 0
  BY DEF Blank, Tracker
<1>2. ASSUME NEW tr \in Tracker PROVE Forgotten(tr) \in Tracker /\ Forgotten(tr).count = 0
  BY DEF Forgotten, Tracker
<1> QED
  BY <1>1, <1>2

(* accept_address gives each tracker a value of its type; a tracker that   *)
(* counts has the sampled address as its candidate and has counted one     *)
(* sample, or one more of the candidate it had.                            *)
LEMMA SampledTracker ==
    ASSUME NEW r \in Record, NEW d \in Sample, NEW t \in AddrTypes
    PROVE  /\ Sampled(r, d, t) \in Tracker
           /\ Sampled(r, d, t).count >= 1 =>
                /\ Sampled(r, d, t).cand = d[t].val
                /\ \/ Sampled(r, d, t).count = 1
                   \/ r.track[t].count >= 1 /\ r.track[t].cand = d[t].val
<1> DEFINE tr == r.track[t]
<1>1. tr \in Tracker /\ r.published[t] \in Value
  BY DEF Record
<1>2. d[t] \in Detected /\ d[t].val \in Addrs \cup {None}
  BY DEF Sample, Detected
<1>3. CASE t \notin r.types
  <2>1. Sampled(r, d, t) = Forgotten(tr)
    BY <1>3 DEF Sampled
  <2> QED
    BY <2>1, <1>1, BlankTracker DEF Tracker
<1>4. CASE t \in r.types /\ ~ Differs(r, d, t)
  <2>1. Sampled(r, d, t) = IF d[t].val = r.published[t] THEN Blank ELSE Forgotten(tr)
    BY <1>4 DEF Sampled
  <2> QED
    BY <2>1, <1>1, BlankTracker DEF Tracker
<1>5. CASE t \in r.types /\ Differs(r, d, t)
  <2>1. Sampled(r, d, t) =
          IF tr.cand = d[t].val
            THEN [tr EXCEPT !.count = IF @ < 2 THEN @ + 1 ELSE 2]
            ELSE [cand |-> d[t].val, count |-> 1, defer |-> FALSE, auth |-> FALSE]
    BY <1>5 DEF Sampled
  <2> QED
    BY <2>1, <1>1, <1>2 DEF Tracker
<1> QED
  BY <1>3, <1>4, <1>5

(* AfterSample changes nothing but the trackers of the address types. *)
LEMMA AfterSampleRecord ==
    ASSUME NEW r \in Record, NEW d \in Sample
    PROVE  /\ AfterSample(r, d) \in Record
           /\ \A t \in AddrTypes : AfterSample(r, d).track[t] = Sampled(r, d, t)
<1> DEFINE tk == [t \in Type |-> IF t \in AddrTypes THEN Sampled(r, d, t) ELSE r.track[t]]
<1>1. AfterSample(r, d) = [r EXCEPT !.track = tk]
  BY DEF AfterSample, Record
<1>2. tk \in [Type -> Tracker]
  BY SampledTracker DEF Record
<1> HIDE DEF tk
<1>3. [r EXCEPT !.track = tk] \in Record /\ [r EXCEPT !.track = tk].track = tk
  BY <1>2 DEF Record
<1> QED
  BY <1>1, <1>3 DEF tk

(* Settling an outcome keeps the type, and what the tracker counts or nothing. *)
LEMMA SettledTracker ==
    ASSUME NEW tr \in Tracker, NEW o \in Outcome, o # "work"
    PROVE  /\ Settled(tr, o) \in Tracker
           /\ Settled(tr, o).count = 0 \/ (/\ Settled(tr, o).count = tr.count
                                           /\ Settled(tr, o).cand = tr.cand)
  BY BlankTracker DEF Settled, Outcome, Tracker

(* run_update decides on an outcome, and on "work" for an address only when *)
(* its tracker has counted to two.                                          *)
LEMMA OutcomesType ==
    ASSUME Exists, NEW force \in BOOLEAN
    PROVE  /\ Outcomes(force) \in [Type -> Outcome]
           /\ \A t \in AddrTypes : Outcomes(force)[t] = "work" => ~ (rec.track[t].count < 2)
<1>1. \A t \in Type : Allowed(t, force) \in Outcome
  BY DEF Allowed, Outcome
<1>2. ASSUME NEW t \in AddrTypes
      PROVE  /\ Decide(t, force) \in Outcome
             /\ Decide(t, force) = "work" => ~ (rec.track[t].count < 2)
  <2>1. t \notin DirectTypes
    BY TypesAssumption
  <2>2. Decide(t, force) = IF ~ Differs(rec, addr, t) THEN "noop"
                           ELSE IF ~ fresh \/ rec.track[t].count < 2 THEN "pending"
                           ELSE Allowed(t, force)
    BY <2>1 DEF Decide
  <2> QED
    BY <2>2, <1>1 DEF Outcome
<1>3. ASSUME NEW t \in DirectTypes PROVE Decide(t, force) \in Outcome
  <2>1. t \notin AddrTypes
    BY TypesAssumption
  <2>2. Decide(t, force) = IF rec.vals[t] = rec.published[t] THEN "noop" ELSE Allowed(t, force)
    BY <2>1 DEF Decide
  <2> QED
    BY <2>2, <1>1 DEF Outcome
<1>4. "pending" \in Outcome /\ "pending" # "work"
  BY DEF Outcome
<1> QED
  BY <1>2, <1>3, <1>4 DEF Outcomes

(* What run_update sends or records is a value. *)
LEMMA SourceType ==
    ASSUME TypeOK, Exists, NEW t \in Type
    PROVE  Source(t) \in Value
<1>1. CASE t \in AddrTypes
  BY <1>1 DEF TypeOK, Sample, Detected, Source, Value
<1>2. CASE t \notin AddrTypes
  BY <1>2 DEF Exists, Record, Source, Value
<1> QED
  BY <1>1, <1>2

(* An execution of run_update that is idle. *)
LEMMA IdleType == Idle \in Update
  BY DEF Idle, Update, Outcome, Value
-----------------------------------------------------------------------------
(* The invariant is inductive. *)

(* No record has been created and nothing is counted. *)
LEMMA InitInvariant == Init => GateInv
<1> SUFFICES ASSUME Init PROVE GateInv
  OBVIOUS
<1> USE DEF Init
<1>1. ~ Exists
  BY MarksAssumption DEF Exists
<1>2. addr \in Sample /\ accepted \in [Type -> SUBSET Value] /\ streak \in [AddrTypes -> 0 .. 2]
  BY DEF Sample, Detected
<1>3. up \in [Updaters -> Update]
  BY IdleType
<1>4. fresh \in BOOLEAN
  OBVIOUS
<1>5. moves \in 0 .. MaxMoves /\ requests \in 0 .. MaxRequests /\ faults \in 0 .. MaxFaults
  BY BoundsAssumption
<1>6. TypeOK
  BY <1>2, <1>3, <1>4, <1>5 DEF TypeOK
<1> QED
  BY <1>1, <1>6 DEF GateInv, CountInv

(* A step that leaves the record, the sample and the count of samples alone. *)
LEMMA CountUnchanged ==
    ASSUME CountInv, UNCHANGED <<rec, addr, streak>>
    PROVE  CountInv'
  BY DEF CountInv, Exists

(* accept_address: a tracker that counts on had the address before. *)
LEMMA SamplePreserves ==
    ASSUME GateInv, NEW d \in Sample, accept_address(d)
    PROVE  GateInv'
<1> USE DEF GateInv
<1>1. moves' \in 0 .. MaxMoves
  BY BoundsAssumption DEF accept_address, TypeOK
<1>2. streak' \in [AddrTypes -> 0 .. 2] /\ \A t \in AddrTypes : streak'[t] >= 1
  BY DEF accept_address, TypeOK
<1>3. rec' \in Record \cup {NotYet, Gone} /\ (Exists' => Exists /\ rec' = AfterSample(rec, d))
  BY AfterSampleRecord, MarksAssumption DEF accept_address, TypeOK, Exists
<1>4. saved' \in Record \cup {NotYet, Gone}
  BY <1>3 DEF accept_address, TypeOK
<1>5. TypeOK'
  BY <1>1, <1>2, <1>3, <1>4 DEF accept_address, TypeOK
<1>6. ASSUME Exists', NEW t \in AddrTypes, rec'.track[t].count >= 1
      PROVE  rec'.track[t].cand = addr'[t].val /\ rec'.track[t].count <= streak'[t]
  <2>1. Exists /\ rec \in Record
    BY <1>3, <1>6 DEF Exists
  <2>2. rec'.track[t] = Sampled(rec, d, t)
    BY <1>3, <1>6, <2>1, AfterSampleRecord
  <2>3. /\ rec'.track[t] \in Tracker
        /\ rec'.track[t].cand = d[t].val
        /\ rec'.track[t].count = 1 \/ (rec.track[t].count >= 1 /\ rec.track[t].cand = d[t].val)
    BY <2>1, <2>2, <1>6, SampledTracker
  <2>4. CASE rec'.track[t].count = 1
    BY <2>3, <2>4, <1>2 DEF accept_address, TypeOK
  <2>5. CASE rec.track[t].count >= 1 /\ rec.track[t].cand = d[t].val
    <3>1. rec.track[t] \in Tracker /\ rec.track[t].count \in 0 .. 2
      BY <2>1 DEF Record, Tracker
    <3>2. addr[t].val = d[t].val /\ rec.track[t].count <= streak[t]
      BY <2>1, <2>5 DEF CountInv
    <3>3. streak'[t] = 2
      BY <3>1, <3>2, <2>5 DEF accept_address, TypeOK
    <3>4. rec'.track[t].count <= 2
      BY <2>3 DEF Tracker
    <3> QED
      BY <3>3, <3>4, <2>3 DEF accept_address
  <2> QED
    BY <2>3, <2>4, <2>5
<1> QED
  BY <1>5, <1>6 DEF CountInv

(* GoStale and RetryDue: time changes no count. *)
LEMMA TimePreserves ==
    ASSUME GateInv, GoStale \/ \E t \in Type : RetryDue(t)
    PROVE  GateInv'
<1> USE DEF GateInv
<1>1. CASE GoStale
  <2>1. fresh' \in BOOLEAN
    BY <1>1 DEF GoStale
  <2>2. faults' \in 0 .. MaxFaults
    BY <1>1, BoundsAssumption DEF GoStale, Fault, TypeOK
  <2>3. TypeOK'
    BY <1>1, <2>1, <2>2 DEF GoStale, TypeOK
  <2> QED
    BY <1>1, <2>3, CountUnchanged DEF GoStale
<1>2. ASSUME NEW t \in Type, RetryDue(t) PROVE GateInv'
  <2>1. ASSUME NEW r \in Record
        PROVE  /\ Due(r, t) \in Record
               /\ \A s \in Type : /\ Due(r, t).track[s].count = r.track[s].count
                                 /\ Due(r, t).track[s].cand = r.track[s].cand
    <3> DEFINE tk == [r.track EXCEPT ![t] = [r.track[t] EXCEPT !.defer = FALSE]]
    <3>1. r.track \in [Type -> Tracker]
      BY DEF Record
    <3>2. /\ tk \in [Type -> Tracker]
          /\ \A s \in Type : tk[s].count = r.track[s].count /\ tk[s].cand = r.track[s].cand
      BY <3>1 DEF Tracker
    <3>3. Due(r, t) = [r EXCEPT !.track = tk]
      BY DEF Due, Record
    <3> HIDE DEF tk
    <3>4. Due(r, t) \in Record /\ Due(r, t).track = tk
      BY <3>2, <3>3 DEF Record
    <3> QED
      BY <3>2, <3>4
  <2>2. rec \in Record /\ rec' = Due(rec, t) /\ rec' \in Record
    BY <1>2, <2>1 DEF RetryDue, Exists
  <2>3. saved' \in Record \cup {NotYet, Gone}
    <3>1. CASE saved \in Record
      BY <1>2, <2>1, <3>1 DEF RetryDue
    <3>2. CASE saved \notin Record
      BY <1>2, <3>2 DEF RetryDue, Due, TypeOK
    <3> QED
      BY <3>1, <3>2
  <2>4. TypeOK'
    BY <1>2, <2>2, <2>3 DEF RetryDue, TypeOK
  <2>5. CountInv'
    BY <1>2, <2>1, <2>2 DEF RetryDue, CountInv, Exists
  <2> QED
    BY <2>4, <2>5
<1> QED
  BY <1>1, <1>2

(* Requests of the APP: a new record counts nothing, an edited one goes on. *)
LEMMA RequestPreserves ==
    ASSUME GateInv,
           \/ \E types \in (SUBSET Type) \ {{}}, enabled \in BOOLEAN : save_record(types, enabled)
           \/ delete_record
           \/ \E force \in BOOLEAN : update_now(force)
    PROVE  GateInv'
<1> USE DEF GateInv
<1>1. ASSUME Request PROVE requests' \in 0 .. MaxRequests
  BY <1>1, BoundsAssumption DEF Request, TypeOK
<1>2. ASSUME NEW u \in Updaters, NEW force \in BOOLEAN, Run(u, force)
      PROVE  up' \in [Updaters -> Update]
  BY <1>2, IdleType DEF Run, TypeOK, Update
<1>3. ASSUME NEW types \in SUBSET Type, NEW enabled \in BOOLEAN, save_record(types, enabled)
      PROVE  GateInv'
  <2>1. PICK vals \in ValuesFor(types) :
          rec' = IF Exists THEN Edited(rec, types, enabled, vals)
                           ELSE NewRecord(types, enabled, vals)
    BY <1>3 DEF save_record
  <2>2. vals \in [DirectTypes -> Texts \cup {None}]
    BY <2>1 DEF ValuesFor
  <2>3. ASSUME Exists PROVE rec' \in Record /\ CountInv'
    <3> DEFINE pub == [t \in Type |-> IF t \in DirectTypes \ types THEN None ELSE rec.published[t]]
    <3>1. rec \in Record
      BY <2>3 DEF Exists
    <3>2. rec' = [rec EXCEPT !.types = types, !.enabled = enabled, !.vals = vals,
                             !.published = pub]
      BY <2>1, <2>3, <3>1 DEF Edited, Record
    <3>3. pub \in [Type -> Value]
      BY <3>1 DEF Record, Value
    <3> HIDE DEF pub
    <3>4. rec' \in Record /\ rec'.track = rec.track
      BY <3>1, <3>2, <3>3, <2>2 DEF Record
    <3> QED
      BY <3>4, <2>3, <1>3 DEF CountInv, Exists, save_record, Request
  <2>4. ASSUME ~ Exists PROVE rec' \in Record /\ CountInv'
    <3>1. rec' = NewRecord(types, enabled, vals)
      BY <2>1, <2>4
    <3>2. [t \in Type |-> None] \in [Type -> Value] /\ [t \in Type |-> Blank] \in [Type -> Tracker]
      BY BlankTracker DEF Value
    <3>3. rec' \in Record /\ \A t \in Type : rec'.track[t].count = 0
      BY <3>1, <3>2, <2>2, BlankTracker DEF NewRecord, Record
    <3> QED
      BY <3>3 DEF CountInv
  <2>5. rec' \in Record /\ CountInv'
    BY <2>3, <2>4
  <2>6. up' \in [Updaters -> Update]
    BY <1>2, <1>3 DEF save_record, sync_direct_values, TypeOK, Updaters
  <2>7. TypeOK'
    BY <1>1, <1>3, <2>5, <2>6 DEF save_record, Request, TypeOK
  <2> QED
    BY <2>5, <2>7
<1>4. ASSUME delete_record PROVE GateInv'
  <2>1. TypeOK'
    BY <1>1, <1>4 DEF delete_record, Request, TypeOK
  <2>2. ~ Exists'
    BY <1>4, MarksAssumption DEF delete_record, Exists
  <2> QED
    BY <2>1, <2>2 DEF CountInv
<1>5. ASSUME NEW force \in BOOLEAN, update_now(force) PROVE GateInv'
  <2>1. TypeOK'
    BY <1>1, <1>2, <1>5 DEF update_now, Request, TypeOK, Updaters
  <2> QED
    BY <2>1, <1>5, CountUnchanged DEF update_now, Request
<1> QED
  BY <1>3, <1>4, <1>5

(* The worker starts an update; run_update decides what to send. *)
LEMMA BeginPreserves ==
    ASSUME GateInv, auto_due \/ \E u \in Updaters : Begin(u)
    PROVE  GateInv'
<1> USE DEF GateInv
<1>1. CASE auto_due
  <2>1. up' \in [Updaters -> Update]
    BY <1>1, IdleType DEF auto_due, Run, TypeOK, Update
  <2>2. TypeOK'
    BY <1>1, <2>1 DEF auto_due, TypeOK
  <2> QED
    BY <1>1, <2>2, CountUnchanged DEF auto_due
<1>2. ASSUME NEW u \in Updaters, Begin(u) PROVE GateInv'
  <2> DEFINE res == Outcomes(up[u].force)
             sent == [t \in Type |-> IF res[t] = "work" THEN Source(t) ELSE None]
             goes == Exists /\ rec.enabled /\ \E t \in Type : res[t] = "work"
  <2>1. up[u] \in Update /\ up[u].force \in BOOLEAN
    BY DEF TypeOK, Update
  <2>2. ASSUME goes PROVE up' \in [Updaters -> Update]
    <3>1. res \in [Type -> Outcome]
      BY <2>1, <2>2, OutcomesType
    <3>2. sent \in [Type -> Value]
      BY <2>2, SourceType DEF Value
    <3>3. up' = [up EXCEPT ![u] = [pc |-> "call", force |-> @.force, res |-> res, sent |-> sent]]
      BY <1>2, <2>2 DEF Begin
    <3> HIDE DEF res, sent
    <3>4. [pc |-> "call", force |-> up[u].force, res |-> res, sent |-> sent] \in Update
      BY <3>1, <3>2, <2>1 DEF Update
    <3> QED
      BY <3>3, <3>4 DEF TypeOK
  <2>3. ASSUME ~ goes PROVE up' \in [Updaters -> Update]
    <3>1. up' = [up EXCEPT ![u] = Idle]
      BY <1>2, <2>3 DEF Begin
    <3> QED
      BY <3>1, IdleType DEF TypeOK
  <2>4. up' \in [Updaters -> Update]
    BY <2>2, <2>3
  <2>5. TypeOK'
    BY <1>2, <2>4 DEF Begin, TypeOK
  <2> QED
    BY <1>2, <2>5, CountUnchanged DEF Begin
<1> QED
  BY <1>1, <1>2

(* The provider is called, and the outcome recorded. *)
LEMMA FinishPreserves ==
    ASSUME GateInv, NEW u \in Updaters,
           \/ Finish(u)
           \/ \E t \in Type : sync_record(u, t) \/ sync_record_fails(u, t)
    PROVE  GateInv'
<1> USE DEF GateInv
<1>0. up[u] \in Update
  BY DEF TypeOK
<1>1. ASSUME NEW t \in Type, NEW o \in Outcome, NEW taken \in BOOLEAN, Called(u, t, o, taken),
             faults' \in 0 .. MaxFaults
      PROVE  GateInv'
  <2> DEFINE new == [up[u] EXCEPT !.res = [@ EXCEPT ![t] = o]]
  <2>1. new \in Update
    BY <1>0 DEF Update
  <2>2. up' = [up EXCEPT ![u] = new]
    BY <1>1 DEF Called
  <2>3. up' \in [Updaters -> Update]
    BY <2>1, <2>2 DEF TypeOK
  <2>4. up[u].sent[t] \in Value
    BY <1>0 DEF Update
  <2>5. accepted' \in [Type -> SUBSET Value]
    BY <1>1, <2>4 DEF Called, TypeOK
  <2>6. TypeOK'
    BY <1>1, <2>3, <2>5 DEF Called, TypeOK
  <2> QED
    BY <1>1, <2>6, CountUnchanged DEF Called
<1>2. ASSUME NEW t \in Type, sync_record(u, t) PROVE GateInv'
  <2>1. "ok" \in Outcome /\ faults' \in 0 .. MaxFaults /\ Called(u, t, "ok", TRUE)
    BY <1>2 DEF sync_record, TypeOK, Outcome
  <2> QED
    BY <2>1, <1>1
<1>3. ASSUME NEW t \in Type, sync_record_fails(u, t) PROVE GateInv'
  <2>1. "error" \in Outcome /\ "auth" \in Outcome
    BY DEF Outcome
  <2>2. faults' \in 0 .. MaxFaults
    BY <1>3, BoundsAssumption DEF sync_record_fails, Fault, TypeOK
  <2>3. (\E taken \in BOOLEAN : Called(u, t, "error", taken)) \/ Called(u, t, "auth", FALSE)
    BY <1>3 DEF sync_record_fails
  <2> QED
    BY <2>1, <2>2, <2>3, <1>1
<1>4. ASSUME Finish(u) PROVE GateInv'
  <2> DEFINE res == up[u].res
             tk == [t \in Type |-> Settled(rec.track[t], res[t])]
             pub == [t \in Type |-> IF res[t] \in {"ok", "noop"} THEN Source(t)
                                                               ELSE rec.published[t]]
  <2>1. res \in [Type -> Outcome] /\ \A t \in Type : res[t] # "work"
    BY <1>0, <1>4 DEF Update, Finish
  <2>2. ASSUME Exists PROVE rec' \in Record /\ CountInv'
    <3>1. rec \in Record
      BY <2>2 DEF Exists
    <3>2. \A t \in Type :
             /\ tk[t] \in Tracker
             /\ tk[t].count = 0 \/ (tk[t].count = rec.track[t].count /\ tk[t].cand = rec.track[t].cand)
      BY <2>1, <3>1, SettledTracker DEF Record
    <3>3. pub \in [Type -> Value]
      BY <2>2, <3>1, SourceType DEF Record
    <3>4. rec' = [rec EXCEPT !.track = tk, !.published = pub]
      BY <1>4, <2>2, <3>1 DEF Finish, Record
    <3>5. tk \in [Type -> Tracker]
      BY <3>2
    <3> HIDE DEF tk, pub
    <3>6. rec' \in Record /\ rec'.track = tk
      BY <3>1, <3>3, <3>4, <3>5 DEF Record
    <3> QED
      BY <3>2, <3>6, <2>2, <1>4 DEF CountInv, Finish
  <2>3. ASSUME ~ Exists PROVE rec' \in Record \cup {NotYet, Gone} /\ CountInv'
    BY <2>3, <1>4 DEF Finish, CountInv, Exists, TypeOK
  <2>4. up' \in [Updaters -> Update]
    BY <1>4, IdleType DEF Finish, TypeOK
  <2>5. TypeOK'
    BY <1>4, <2>2, <2>3, <2>4 DEF Finish, TypeOK
  <2> QED
    BY <2>2, <2>3, <2>5
<1> QED
  BY <1>2, <1>3, <1>4

(* The Hub restarts: the counts of the file are not trusted. *)
LEMMA RestartPreserves ==
    ASSUME GateInv, Restart
    PROVE  GateInv'
<1> USE DEF GateInv, Restart
<1>1. ASSUME saved \in Record
      PROVE  rec' \in Record /\ \A t \in Type : rec'.track[t].count = 0
  <2> DEFINE tk == [t \in Type |-> Forgotten(saved.track[t])]
  <2>1. tk \in [Type -> Tracker] /\ \A t \in Type : tk[t].count = 0
    BY <1>1, BlankTracker DEF Record
  <2>2. rec' = [saved EXCEPT !.track = tk]
    BY <1>1 DEF Loaded, Record
  <2> HIDE DEF tk
  <2> QED
    BY <1>1, <2>1, <2>2 DEF Record
<1>2. ASSUME saved \notin Record PROVE rec' \in {NotYet, Gone} /\ ~ Exists'
  BY <1>2 DEF Loaded, TypeOK, Exists
<1>3. CountInv'
  BY <1>1, <1>2 DEF CountInv
<1>4. up' \in [Updaters -> Update]
  BY IdleType
<1>5. fresh' \in BOOLEAN
  BY DEF TypeOK
<1>6. faults' \in 0 .. MaxFaults /\ streak' \in [AddrTypes -> 0 .. 2]
  BY BoundsAssumption DEF Fault, TypeOK
<1>7. TypeOK'
  BY <1>1, <1>2, <1>4, <1>5, <1>6 DEF TypeOK
<1> QED
  BY <1>3, <1>7

(* Every step. *)
LEMMA NextInvariant ==
    ASSUME GateInv, [Next]_vars
    PROVE  GateInv'
<1>1. CASE UNCHANGED vars
  BY <1>1 DEF vars, GateInv, TypeOK, CountInv, Exists
<1>2. CASE Next
  BY <1>2, SamplePreserves, TimePreserves, RequestPreserves, BeginPreserves, FinishPreserves,
     RestartPreserves DEF Next, UpdateStep
<1> QED
  BY <1>1, <1>2

(* For any record types, addresses and bounds, the state keeps its types and *)
(* a tracker that counts to two has seen its address in the last two samples *)
(* since the Hub started.                                                    *)
THEOREM DdnsInvariant == Spec => []GateInv
<1>1. Init => GateInv
  BY InitInvariant
<1>2. GateInv /\ [Next]_vars => GateInv'
  BY NextInvariant
<1> QED
  BY <1>1, <1>2, PTL DEF Spec

(* For any record types, addresses and bounds, run_update sends an address   *)
(* only when the last two samples since the Hub started agree on it.         *)
THEOREM StabilityGate == Spec => OnlyConfirmedSent
<1> DEFINE Sends(u, t) == up'[u].pc = "call" /\ up'[u].res[t] = "work" /\ up[u].pc = "begin"
           Good(u, t) == streak[t] = 2 /\ up'[u].sent[t] = addr[t].val
           A == \A u \in Updaters, t \in AddrTypes : Sends(u, t) => Good(u, t)
<1>1. ASSUME GateInv, Next PROVE A
  <2> SUFFICES ASSUME NEW u \in Updaters, NEW t \in AddrTypes, Sends(u, t) PROVE Good(u, t)
    OBVIOUS
  <2> USE <1>1 DEF GateInv
  <2>1. up \in [Updaters -> Update] /\ up[u] \in Update /\ up[u].force \in BOOLEAN
    BY DEF TypeOK, Update
  <2>2. Idle.pc = "idle"
    BY DEF Idle
  <2>3. Begin(u)
    <3>1. ASSUME UNCHANGED up PROVE FALSE
      BY <3>1
    <3>2. ASSUME NEW w \in Updaters, NEW force, Run(w, force) PROVE FALSE
      <4>1. [Idle EXCEPT !.pc = "begin", !.force = force].pc = "begin"
        BY DEF Idle
      <4> QED
        BY <3>2, <4>1, <2>1 DEF Run
    <3>3. ASSUME NEW w \in Updaters, Begin(w), w # u PROVE FALSE
      BY <3>3, <2>1 DEF Begin
    <3>4. ASSUME NEW w \in Updaters, Finish(w) PROVE FALSE
      BY <3>4, <2>1, <2>2 DEF Finish
    <3>5. ASSUME NEW w \in Updaters, NEW s \in Type, NEW o, NEW taken, Called(w, s, o, taken)
          PROVE  FALSE
      BY <3>5, <2>1 DEF Called
    <3>6. ASSUME Restart PROVE FALSE
      BY <3>6, <2>2 DEF Restart
    <3>7. "app" \in Updaters /\ "worker" \in Updaters
      BY DEF Updaters
    <3>8. ~ \E d \in Sample : accept_address(d)
      BY <3>1 DEF accept_address
    <3>9. ~ GoStale /\ ~ \E s \in Type : RetryDue(s)
      BY <3>1 DEF GoStale, RetryDue
    <3>10. ~ \E types \in (SUBSET Type) \ {{}}, enabled \in BOOLEAN : save_record(types, enabled)
      BY <3>1, <3>2, <3>7 DEF save_record, sync_direct_values
    <3>11. ~ delete_record /\ ~ \E force \in BOOLEAN : update_now(force)
      BY <3>1, <3>2, <3>7 DEF delete_record, update_now
    <3>12. ~ auto_due
      BY <3>2, <3>7 DEF auto_due
    <3>13. ASSUME NEW w \in Updaters, NEW s \in Type
           PROVE  ~ sync_record(w, s) /\ ~ sync_record_fails(w, s)
      BY <3>5 DEF sync_record, sync_record_fails
    <3> QED
      BY <1>1, <3>3, <3>4, <3>6, <3>8, <3>9, <3>10, <3>11, <3>12, <3>13 DEF Next, UpdateStep
  <2> DEFINE res == Outcomes(up[u].force)
             sent == [s \in Type |-> IF res[s] = "work" THEN Source(s) ELSE None]
             goes == Exists /\ rec.enabled /\ \E s \in Type : res[s] = "work"
  <2>4. goes
    BY <2>1, <2>2, <2>3 DEF Begin
  <2>5. up'[u] = [pc |-> "call", force |-> up[u].force, res |-> res, sent |-> sent]
    BY <2>1, <2>3, <2>4 DEF Begin
  <2>6. res[t] = "work" /\ up'[u].sent[t] = Source(t)
    BY <2>5
  <2>7. rec.track[t].count \in 0 .. 2 /\ ~ (rec.track[t].count < 2)
    BY <2>1, <2>4, <2>6, OutcomesType DEF Exists, Record, Tracker
  <2>8. streak[t] = 2
    BY <2>4, <2>7 DEF CountInv, TypeOK
  <2> QED
    BY <2>6, <2>8 DEF Source
<1>2. GateInv /\ [Next]_vars => [A]_vars
  BY <1>1
<1>3. Spec => [][A]_vars
  BY <1>2, DdnsInvariant, PTL DEF Spec
<1> QED
  BY <1>3 DEF OnlyConfirmedSent

(* The record, its trackers and both updates keep their types.               *)
THEOREM TypeCorrect == Spec => []TypeOK
<1>1. GateInv => TypeOK
  BY DEF GateInv
<1> QED
  BY <1>1, DdnsInvariant, PTL
=============================================================================
