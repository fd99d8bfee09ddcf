------------------------------- MODULE LabDdns -------------------------------
(***************************************************************************)
(* LabProbe's own DDNS (lab_ddns.py): the Relay samples the router's       *)
(* addresses every half minute, an address that two samples in a row       *)
(* confirm is due for publication, and run_update sends it to the DNS      *)
(* provider.  run_update is executed by the background worker and by       *)
(* requests of the APP; it decides what to send under the store's lock,    *)
(* calls the provider without it, and records the outcome under it again.  *)
(*                                                                         *)
(* One record: records share nothing but the sample and the worker, which  *)
(* takes them one by one.  A deleted record does not come back, because    *)
(* ids are random.  The APP's requests hold DATA_LOCK, so there is one at  *)
(* a time; samples and the worker do not.                                  *)
(*                                                                         *)
(* Left out: the status, the errors and the results shown to the user,     *)
(* which decide nothing but themselves; host name, provider, TTL and       *)
(* credentials, which are handed to the provider as they are; the exact    *)
(* delays, kept as "the address is fresh" and "the retry is deferred".     *)
(* A sample is pushed again and again until the next one: repeats carry    *)
(* its detectedAt, change nothing and are left out too.  CNAME excludes    *)
(* every other type, so a run has TXT in DirectTypes, or CNAME alone.      *)
(***************************************************************************)
EXTENDS Integers, FiniteSets

CONSTANTS
    AddrTypes,    \* record types that carry a detected address: A, AAAA
    DirectTypes,  \* record types that carry a value of the user: CNAME, TXT
    Addrs,        \* addresses
    Texts,        \* values of the user
    None,         \* no address, no value
    NotYet,       \* the record has not been created
    Gone,         \* the record was deleted
    MaxMoves,     \* bound: changes of the detected addresses
    MaxRequests,  \* bound: requests of the APP
    MaxFaults     \* bound: provider errors, Hub restarts, outages of the Relay

ASSUME BoundsAssumption == MaxMoves \in Nat /\ MaxRequests \in Nat /\ MaxFaults \in Nat
ASSUME TypesAssumption == AddrTypes \cap DirectTypes = {}
ASSUME NoneAssumption == None \notin Addrs \cup Texts

VARIABLES
    addr,      \* the last sample: root["address"], copied into every record
    fresh,     \* it is at most ADDRESS_STALE_SECONDS old
    rec,       \* the record in memory
    saved,     \* the record in lab_ddns.json
    up,        \* the two executions of run_update
    accepted,  \* what the provider has accepted for the record
    streak,    \* samples in a row, since the Hub started, with this address
    moves, requests, faults

vars == <<addr, fresh, rec, saved, up, accepted, streak, moves, requests, faults>>

Type  == AddrTypes \cup DirectTypes
Value == Addrs \cup Texts \cup {None}

(* An address of the sample; an address of a private network is not public. *)
Detected == {d \in [val : Addrs \cup {None}, public : BOOLEAN] : d.public => d.val # None}
Sample   == [AddrTypes -> Detected]

(* stability: the candidate and how often it was seen; nextRetryAt lies in *)
(* the future; the credentials were refused.                               *)
Tracker == [cand : Addrs \cup {None}, count : 0 .. 2, defer : BOOLEAN, auth : BOOLEAN]

Record == [types : SUBSET Type, enabled : BOOLEAN, vals : [DirectTypes -> Texts \cup {None}],
           published : [Type -> Value], track : [Type -> Tracker]]

ASSUME MarksAssumption == NotYet \notin Record /\ Gone \notin Record

(* What came out for a record type; "work" while the provider is to be called. *)
Outcome == {"work", "ok", "noop", "pending", "credential", "auth", "error"}

Updaters == {"worker", "app"}

(* An execution of run_update: its outcomes so far and what it sends. *)
Update == [pc : {"idle", "begin", "call"}, force : BOOLEAN,
           res : [Type -> Outcome], sent : [Type -> Value]]

Idle == [pc |-> "idle", force |-> FALSE,
         res |-> [t \in Type |-> "pending"], sent |-> [t \in Type |-> None]]

(* The state keeps its types; in particular stableCount stays within two. *)
TypeOK ==
    /\ addr \in Sample /\ fresh \in BOOLEAN
    /\ rec \in Record \cup {NotYet, Gone}
    /\ saved \in Record \cup {NotYet, Gone}
    /\ up \in [Updaters -> Update]
    /\ accepted \in [Type -> SUBSET Value]
    /\ streak \in [AddrTypes -> 0 .. 2]
    /\ moves \in 0 .. MaxMoves /\ requests \in 0 .. MaxRequests /\ faults \in 0 .. MaxFaults

Blank == [cand |-> None, count |-> 0, defer |-> FALSE, auth |-> FALSE]

Init ==
    /\ addr = [t \in AddrTypes |-> [val |-> None, public |-> FALSE]] /\ fresh = FALSE
    /\ rec = NotYet /\ saved = NotYet
    /\ up = [u \in Updaters |-> Idle]
    /\ accepted = [t \in Type |-> {}]
    /\ streak = [t \in AddrTypes |-> 0]
    /\ moves = 0 /\ requests = 0 /\ faults = 0

Exists == rec \in Record
Fault  == faults < MaxFaults /\ faults' = faults + 1
-----------------------------------------------------------------------------
(* accept_address *)

Forgotten(tr) == [cand |-> None, count |-> 0, defer |-> tr.defer, auth |-> tr.auth]

(* The detected address of type t is to be published. *)
Differs(r, d, t) == d[t].public /\ d[t].val # r.published[t]

(* Mutant: every sample counts as a new candidate. *)
SampledAnew(r, d, t) ==
    LET tr == r.track[t] IN
    IF t \in r.types /\ Differs(r, d, t)
      THEN [cand |-> d[t].val, count |-> 1, defer |-> FALSE, auth |-> FALSE]
      ELSE Forgotten(tr)

(* Mutant: stableCount is not limited. *)
SampledUnbounded(r, d, t) ==
    LET tr == r.track[t] IN
    IF t \in r.types /\ Differs(r, d, t) /\ tr.cand = d[t].val
      THEN [tr EXCEPT !.count = @ + 1]
      ELSE [Blank EXCEPT !.cand = d[t].val, !.count = 1]

(* The tracker of type t after a sample. *)
Sampled(r, d, t) ==
    LET tr == r.track[t] IN
    CASE t \notin r.types -> Forgotten(tr)
      [] t \in r.types /\ Differs(r, d, t) ->
           IF tr.cand = d[t].val
             THEN [tr EXCEPT !.count = IF @ < 2 THEN @ + 1 ELSE 2]
             ELSE [cand |-> d[t].val, count |-> 1, defer |-> FALSE, auth |-> FALSE]
      [] t \in r.types /\ ~ Differs(r, d, t) ->
           IF d[t].val = r.published[t] THEN Blank ELSE Forgotten(tr)

AfterSample(r, d) ==
    [r EXCEPT !.track = [t \in Type |-> IF t \in AddrTypes THEN Sampled(r, d, t) ELSE @[t]]]

(* A sample with a new detectedAt.  The file is written when an address or  *)
(* a status has changed, and otherwise not.                                 *)
accept_address(d) ==
    /\ d = addr \/ moves < MaxMoves
    /\ moves' = IF d = addr THEN moves ELSE moves + 1
    /\ addr' = d /\ fresh' = TRUE
    /\ streak' = [t \in AddrTypes |->
                    IF d[t].val = addr[t].val /\ streak[t] > 0 THEN 2 ELSE 1]
    /\ rec' = IF Exists THEN AfterSample(rec, d) ELSE rec
    /\ saved' = rec' \/ (d = addr /\ saved' = saved)
    /\ UNCHANGED <<up, accepted, requests, faults>>

(* No sample for ADDRESS_STALE_SECONDS. *)
GoStale ==
    /\ fresh /\ fresh' = FALSE
    /\ Fault /\ UNCHANGED <<addr, rec, saved, up, accepted, streak, moves, requests>>

(* nextRetryAt passes, for the record in memory and in the file. *)
Due(r, t) == IF r \in Record THEN [r EXCEPT !.track[t].defer = FALSE] ELSE r

RetryDue(t) ==
    /\ Exists
    /\ rec' = Due(rec, t) /\ saved' = Due(saved, t)
    /\ <<rec', saved'>> # <<rec, saved>>
    /\ UNCHANGED <<addr, fresh, up, accepted, streak, moves, requests, faults>>
-----------------------------------------------------------------------------
(* Requests of the APP. *)

Request ==
    /\ up["app"] = Idle
    /\ requests < MaxRequests /\ requests' = requests + 1
    /\ UNCHANGED <<addr, fresh, accepted, streak, moves, faults>>

Run(u, force) == up' = [up EXCEPT ![u] = [Idle EXCEPT !.pc = "begin", !.force = force]]

(* sync_direct_values: a record with a value of the user is updated at once. *)
sync_direct_values(types) ==
    IF types \cap DirectTypes # {} THEN Run("app", FALSE) ELSE UNCHANGED up

(* The values of a valid record: one for each direct type it has. *)
ValuesFor(types) ==
    {v \in [DirectTypes -> Texts \cup {None}] :
        \A t \in DirectTypes : v[t] # None <=> t \in types}

(* save_record of a new record, for which the APP sends none of the fields *)
(* the Hub keeps, or of an existing one, which keeps what was published    *)
(* and observed.                                                           *)
NewRecord(types, enabled, vals) ==
    [types |-> types, enabled |-> enabled, vals |-> vals,
     published |-> [t \in Type |-> None], track |-> [t \in Type |-> Blank]]

Edited(r, types, enabled, vals) ==
    [r EXCEPT !.types = types, !.enabled = enabled, !.vals = vals,
              !.published = [t \in Type |-> IF t \in DirectTypes \ types THEN None ELSE @[t]]]

save_record(types, enabled) ==
    /\ Request
    /\ rec # Gone
    /\ \E vals \in ValuesFor(types) :
         rec' = IF Exists THEN Edited(rec, types, enabled, vals)
                          ELSE NewRecord(types, enabled, vals)
    /\ saved' = rec'
    /\ sync_direct_values(types)

delete_record ==
    /\ Request
    /\ Exists
    /\ rec' = Gone /\ saved' = Gone
    /\ UNCHANGED up

update_now(force) ==
    /\ Request
    /\ Exists
    /\ Run("app", force)
    /\ UNCHANGED <<rec, saved>>
-----------------------------------------------------------------------------
(* The worker and run_update. *)

(* _auto_due *)
IsDue(t) ==
    /\ t \in rec.types
    /\ fresh /\ Differs(rec, addr, t)
    /\ rec.track[t].count = 2 /\ ~ rec.track[t].auth /\ ~ rec.track[t].defer

auto_due ==
    /\ up["worker"] = Idle
    /\ Exists /\ rec.enabled
    /\ \E t \in AddrTypes : IsDue(t)
    /\ Run("worker", FALSE)
    /\ UNCHANGED <<addr, fresh, rec, saved, accepted, streak, moves, requests, faults>>

(* What run_update decides for type t: "noop" counts as a success. *)
Allowed(t, force) ==
    IF rec.track[t].auth /\ ~ force THEN "credential"
    ELSE IF rec.track[t].defer /\ ~ force THEN "pending"
    ELSE "work"

Decide(t, force) ==
    CASE t \in AddrTypes /\ ~ Differs(rec, addr, t) -> "noop"
      [] t \in AddrTypes /\ Differs(rec, addr, t) ->
           IF ~ fresh \/ rec.track[t].count < 2 THEN "pending" ELSE Allowed(t, force)
      [] t \in DirectTypes ->
           IF rec.vals[t] = rec.published[t] THEN "noop" ELSE Allowed(t, force)

(* Types the record does not have are left alone, like those that wait. *)
Outcomes(force) == [t \in Type |-> IF t \in rec.types THEN Decide(t, force) ELSE "pending"]

Source(t) == IF t \in AddrTypes THEN addr[t].val ELSE rec.vals[t]

(* The first part, under the lock.  A record that was deleted raises KeyError. *)
Begin(u) ==
    LET res == Outcomes(up[u].force) IN
    /\ up[u].pc = "begin"
    /\ IF Exists /\ rec.enabled /\ \E t \in Type : res[t] = "work"
         THEN up' = [up EXCEPT ![u] =
                [pc |-> "call", force |-> @.force, res |-> res,
                 sent |-> [t \in Type |-> IF res[t] = "work" THEN Source(t) ELSE None]]]
         ELSE up' = [up EXCEPT ![u] = Idle]
    /\ saved' = rec
    /\ UNCHANGED <<addr, fresh, rec, accepted, streak, moves, requests, faults>>

(* sync_record of one type: the provider accepts the value and says so, *)
(* accepts it although the call fails, or refuses it.                   *)
Called(u, t, outcome, taken) ==
    /\ up[u].pc = "call" /\ up[u].res[t] = "work"
    /\ up' = [up EXCEPT ![u].res[t] = outcome]
    /\ accepted' = [accepted EXCEPT ![t] = IF taken THEN @ \cup {up[u].sent[t]} ELSE @]
    /\ UNCHANGED <<addr, fresh, rec, saved, streak, moves, requests>>

sync_record(u, t) == Called(u, t, "ok", TRUE) /\ UNCHANGED faults

sync_record_fails(u, t) ==
    /\ \/ \E taken \in BOOLEAN : Called(u, t, "error", taken)
       \/ Called(u, t, "auth", FALSE)
    /\ Fault

(* The tracker and the published value of a type once its outcome is known. *)
Settled(tr, outcome) ==
    CASE outcome \in {"ok", "noop"}         -> Blank
      [] outcome = "pending"                -> tr
      [] outcome \in {"credential", "auth"} -> [tr EXCEPT !.auth = TRUE, !.defer = FALSE]
      [] outcome = "error"                  -> [tr EXCEPT !.auth = FALSE, !.defer = TRUE]

(* The last part, under the lock: what is recorded as published is what the *)
(* record holds by now.  A record that was deleted raises StopIteration.    *)
Finish(u) ==
    LET res == up[u].res IN
    /\ up[u].pc = "call" /\ \A t \in Type : res[t] # "work"
    /\ up' = [up EXCEPT ![u] = Idle]
    /\ rec' = IF ~ Exists THEN rec
              ELSE [rec EXCEPT
                !.track = [t \in Type |-> Settled(@[t], res[t])],
                !.published = [t \in Type |-> IF res[t] \in {"ok", "noop"} THEN Source(t) ELSE @[t]]]
    /\ saved' = rec'
    /\ UNCHANGED <<addr, fresh, accepted, streak, moves, requests, faults>>
-----------------------------------------------------------------------------
(* Mutant: the stability of the file is trusted. *)
LoadedAsSaved(r) == r

(* _load: two new samples are needed. *)
Loaded(r) ==
    IF r \in Record
      THEN [r EXCEPT !.track = [t \in Type |-> Forgotten(@[t])]]
      ELSE r

(* The Hub restarts. *)
Restart ==
    /\ rec' = Loaded(saved)
    /\ fresh' \in {FALSE, fresh}
    /\ up' = [u \in Updaters |-> Idle]
    /\ streak' = [t \in AddrTypes |-> 0]
    /\ Fault /\ UNCHANGED <<addr, saved, accepted, moves, requests>>

UpdateStep(u) == Begin(u) \/ Finish(u) \/ \E t \in Type : sync_record(u, t)

Next ==
    \/ \E d \in Sample : accept_address(d)
    \/ GoStale
    \/ \E t \in Type : RetryDue(t)
    \/ \E types \in (SUBSET Type) \ {{}}, enabled \in BOOLEAN : save_record(types, enabled)
    \/ delete_record
    \/ \E force \in BOOLEAN : update_now(force)
    \/ auto_due
    \/ \E u \in Updaters : UpdateStep(u) \/ \E t \in Type : sync_record_fails(u, t)
    \/ Restart

(* The Relay keeps sampling, time passes, the worker loops, and every call *)
(* of the provider returns.                                                *)
Fairness ==
    /\ WF_vars(accept_address(addr))
    /\ \A t \in Type : WF_vars(RetryDue(t))
    /\ WF_vars(auto_due)
    /\ \A u \in Updaters : WF_vars(UpdateStep(u))

Spec == Init /\ [][Next]_vars /\ Fairness
-----------------------------------------------------------------------------
(* An address is sent to the provider only when the last two samples since *)
(* the Hub started agree on it: neither a restart, nor an edit of the      *)
(* record, nor a failure in between lets an address past the stability     *)
(* gate of accept_address.                                                 *)
OnlyConfirmedSent ==
    [][\A u \in Updaters, t \in AddrTypes :
         up'[u].pc = "call" /\ up'[u].res[t] = "work" /\ up[u].pc = "begin" =>
            streak[t] = 2 /\ up'[u].sent[t] = addr[t].val]_vars

(* Once the address, the APP and the failures come to rest, an enabled     *)
(* record with a public address shows it as published, unless its          *)
(* credentials were refused: deferred retries, restarts, edits and         *)
(* updates that overtake each other never leave it behind.                 *)
EventuallyPublished ==
    <>[](Exists /\ rec.enabled =>
           \A t \in rec.types \cap AddrTypes :
              Differs(rec, addr, t) => rec.track[t].auth)

(* "test_record_edit_cannot_change_published_without_provider_result": a   *)
(* value is recorded as published only once the provider has accepted it.  *)
PublishedWasSent ==
    Exists => \A t \in Type : rec.published[t] \in {None} \cup accepted[t]
=============================================================================
