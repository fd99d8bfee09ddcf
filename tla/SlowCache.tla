------------------------------ MODULE SlowCache ------------------------------
(***************************************************************************)
(* The stale-while-revalidate cache for slow router reads, one key of it   *)
(* (router_slow_cache_patch.py): a request with no cached value reads the  *)
(* router itself, one with a fresh value gets it, one with a stale value   *)
(* gets it and starts a refresh in the background unless one runs or the   *)
(* last one failed a moment ago; a forced request always reads.  A request *)
(* takes the locks of the scope, of the cached rows and of the refresh     *)
(* marks one after the other, so each is a step.  A read answers what the  *)
(* router says at some moment; the put comes later.  A write through the   *)
(* Hub clears the entry after the router has the new value.                *)
(*                                                                         *)
(* Left out: write_lock, which lets one writer in at a time; _prune, which *)
(* drops entries nobody asked for in a long time; the moment between the   *)
(* reading of the configuration and the lock of the scope.                 *)
(***************************************************************************)
EXTENDS Naturals

CONSTANTS
  Scopes,      \* routers a configuration can name (_session_cache_key)
  Threads,     \* request threads
  Workers,     \* refresh threads that can exist at a time
  None,
  MaxChanges,  \* bound: changes on a router
  MaxSwitches, \* bound: changes of the configuration
  MaxFaults    \* bound: reads that fail

VARIABLES
  config,      \* the router configured now
  said,        \* per router: the number of the change it shows
  scope,       \* _slow_cache_scope
  entry,       \* the cached value with its freshness, or None
  refreshing,  \* the key is in _slow_cache_refreshing
  backoff,     \* _slow_cache_retry_after lies ahead
  thread,      \* per thread, request or worker: pc and the value it read
  changes, switches, faults

vars == <<config, said, scope, entry, refreshing, backoff, thread, changes, switches, faults>>

NoValue == [router |-> None, said |-> 0]
Idle == [pc |-> "idle", value |-> NoValue]
All == Threads \cup Workers

Init ==
  /\ config \in Scopes /\ said = [s \in Scopes |-> 0]
  /\ scope = None /\ entry = None /\ refreshing = FALSE /\ backoff = FALSE
  /\ thread = [t \in All |-> Idle]
  /\ changes = 0 /\ switches = 0 /\ faults = 0

\* Something changes on a router, or the user configures another one.
Changes ==
  /\ changes < MaxChanges /\ changes' = changes + 1
  /\ \E s \in Scopes : said' = [said EXCEPT ![s] = @ + 1]
  /\ UNCHANGED <<config, scope, entry, refreshing, backoff, thread, switches, faults>>

Switches ==
  /\ switches < MaxSwitches /\ switches' = switches + 1
  /\ \E s \in Scopes \ {config} : config' = s
  /\ UNCHANGED <<said, scope, entry, refreshing, backoff, thread, changes, faults>>

\* The TTL of the entry, or the back-off, runs out.
Expires ==
  /\ entry # None /\ entry.fresh
  /\ entry' = [entry EXCEPT !.fresh = FALSE]
  /\ UNCHANGED <<config, said, scope, refreshing, backoff, thread, changes, switches, faults>>

BackoffEnds ==
  /\ backoff /\ backoff' = FALSE
  /\ UNCHANGED <<config, said, scope, entry, refreshing, thread, changes, switches, faults>>

-----------------------------------------------------------------------------
(* cached *)

\* _ensure_scope: another router than the cache is for empties it.
NewScope == scope # None /\ scope # config
Kept == IF NewScope THEN None ELSE entry

\* Where a thread goes on, and that a read is what it does next.
Goes(t, pc) == [thread EXCEPT ![t] = [pc |-> pc, value |-> thread[t].value]]
Reading(t) == Goes(t, "reading")

\* A request, or the read that verifies a write: _ensure_scope.
cached(t, force) ==
  /\ thread[t].pc = "idle" \/ (force /\ thread[t].pc = "verify")
  /\ scope' = config
  /\ entry' = Kept
  /\ refreshing' = (refreshing /\ ~NewScope)
  /\ backoff' = (backoff /\ ~NewScope)
  /\ thread' = Goes(t, IF force THEN "reading" ELSE "peek")
  /\ UNCHANGED <<config, said, changes, switches, faults>>

\* _peek: without a value the request reads for itself; a fresh one is its answer.
Peeks(t) ==
  /\ thread[t].pc = "peek"
  /\ thread' = Goes(t, IF entry = None THEN "reading" ELSE IF entry.fresh THEN "idle" ELSE "stale")
  /\ UNCHANGED <<config, said, scope, entry, refreshing, backoff, changes, switches, faults>>

\* _start_refresh: unless one is counted or the last one failed a moment ago, a
\* worker is started.  No more than Workers can run here.
StartsRefresh(t) ==
  /\ thread[t].pc = "stale"
  /\ \/ /\ refreshing \/ backoff
        /\ thread' = Goes(t, "idle")
        /\ UNCHANGED refreshing
     \/ /\ ~refreshing /\ ~backoff
        /\ \E w \in Workers :
             /\ thread[w].pc = "idle"
             /\ thread' = [Reading(w) EXCEPT ![t] = [pc |-> "idle", value |-> thread[t].value]]
        /\ refreshing' = TRUE
  /\ UNCHANGED <<config, said, scope, entry, backoff, changes, switches, faults>>

\* write_and_verify: the router takes the new value ...
Writes(t) ==
  /\ thread[t].pc = "idle" /\ changes < MaxChanges /\ changes' = changes + 1
  /\ said' = [said EXCEPT ![config] = @ + 1]
  /\ thread' = Goes(t, "written")
  /\ UNCHANGED <<config, scope, entry, refreshing, backoff, switches, faults>>

\* ... and cache.clear drops the entry; a forced read follows.
Clears(t) ==
  /\ thread[t].pc = "written" /\ entry' = None
  /\ thread' = Goes(t, "verify")
  /\ UNCHANGED <<config, said, scope, refreshing, backoff, changes, switches, faults>>

\* The loader reads the router the configuration names at that moment.
Reads(t) ==
  /\ thread[t].pc = "reading"
  /\ thread' = [thread EXCEPT ![t] = [pc |-> "read",
                  value |-> [router |-> config, said |-> said[config]]]]
  /\ UNCHANGED <<config, said, scope, entry, refreshing, backoff, changes, switches, faults>>

\* cache.put, _refresh_succeeded and, by a worker, _finish_refresh.
Puts(t) ==
  /\ thread[t].pc = "read"
  /\ entry' = [value |-> thread[t].value, fresh |-> TRUE]
  /\ backoff' = FALSE
  /\ refreshing' = IF t \in Workers THEN FALSE ELSE refreshing
  /\ thread' = [thread EXCEPT ![t] = Idle]
  /\ UNCHANGED <<config, said, scope, changes, switches, faults>>

\* The read raises: a worker backs off, a request reports it.
Fails(t) ==
  /\ thread[t].pc = "reading" /\ faults < MaxFaults
  /\ faults' = faults + 1
  /\ thread' = [thread EXCEPT ![t] = Idle]
  /\ IF t \in Workers THEN backoff' = TRUE /\ refreshing' = FALSE
     ELSE UNCHANGED <<backoff, refreshing>>
  /\ UNCHANGED <<config, said, scope, entry, changes, switches>>

-----------------------------------------------------------------------------
Asks == \E t \in Threads : cached(t, FALSE)
Verifies(t) == thread[t].pc = "verify" /\ cached(t, TRUE)
Load(t) == Peeks(t) \/ StartsRefresh(t) \/ Clears(t) \/ Verifies(t) \/ Reads(t) \/ Puts(t)

Next ==
  \/ Changes \/ Switches \/ Expires \/ BackoffEnds
  \/ \E t \in Threads : (\E force \in BOOLEAN : cached(t, force)) \/ Writes(t)
  \/ \E t \in All : Load(t) \/ Fails(t)

\* Time passes, reads end, and the APP keeps asking.
Fairness ==
  /\ WF_vars(Expires) /\ WF_vars(BackoffEnds)
  /\ \A t \in All : WF_vars(Load(t))
  /\ WF_vars(Asks)

Spec == Init /\ [][Next]_vars /\ Fairness

-----------------------------------------------------------------------------
Pcs == {"idle", "peek", "stale", "written", "verify", "reading", "read"}
Value == [router : Scopes, said : 0..MaxChanges]

\* Type invariant.
TypeOK ==
  /\ config \in Scopes /\ said \in [Scopes -> 0..MaxChanges] /\ scope \in Scopes \cup {None}
  /\ entry \in [value : Value, fresh : BOOLEAN] \cup {None}
  /\ refreshing \in BOOLEAN /\ backoff \in BOOLEAN
  /\ thread \in [All -> [pc : Pcs, value : Value \cup {NoValue}]]

\* The mark that keeps a second refresh from starting never outlives the
\* refresh it stands for, whether that fails or the cache changes routers.
RefreshMarked == refreshing => \E w \in Workers : thread[w].pc # "idle"

\* The cache is right in the end: a value put late by an older read, or by a
\* read of the router configured before, does not stay once the router and
\* the configuration rest and the APP keeps asking.
Right == entry # None /\ entry.value = [router |-> config, said |-> said[config]]
CacheConverges == <>[]Right

=============================================================================
