---------------------------- MODULE RouterSession ----------------------------
(***************************************************************************)
(* One eWeb session shared by every thread of the Hub.  RPC threads log in *)
(* on demand, are rejected when the router dropped the session, and log in *)
(* again unless somebody else has; the WebSocket monitor does the same in  *)
(* its own loop.  login_lock covers a whole login, but the configuration   *)
(* is read and replaced without it.  A router keeps one session: a new     *)
(* login ends the one before (the worst case of the routers served).       *)
(***************************************************************************)
EXTENDS Naturals, Sequences

CONSTANTS
  Callers,     \* threads that issue RPCs (the actor, the keepalive)
  Monitor,     \* the WebSocket monitor's thread
  Configs,     \* address and password pairs: what _session_cache_key hashes
  None,
  MaxChanges,  \* bound: PUT /config
  MaxFaults    \* bound: sessions the router drops, logins that fail, logouts

VARIABLES
  cfg,       \* the stored configuration
  put,       \* PUT /config: "clear" between store.save and clear_session
  cache,     \* GLOBAL_ROUTER_SESSION_CACHE: key, sid, blocked key
  lock,      \* holder of login_lock
  thr,       \* per thread: pc, sid in hand, configuration read, may retry
  ws,        \* the monitor: force_login, authenticated once, target and sid
  alive,     \* per router, the session it accepts
  origin,    \* per sid, the configuration it was obtained with
  changes, faults

vars == <<cfg, put, cache, lock, thr, ws, alive, origin, changes, faults>>

Threads == Callers \cup {Monitor}
Sids == 1..Len(origin)
Blocked(key) == [key |-> None, sid |-> None, blocked |-> key]
NoSession == Blocked(None)

Init ==
  /\ cfg \in Configs /\ put = "none"
  /\ cache = NoSession /\ lock = None
  /\ thr = [t \in Threads |-> [pc |-> "idle", sid |-> None, seen |-> None, retry |-> TRUE]]
  /\ ws = [force |-> FALSE, once |-> FALSE, target |-> None, sid |-> None]
  /\ alive = [c \in Configs |-> None] /\ origin = <<>>
  /\ changes = 0 /\ faults = 0

-----------------------------------------------------------------------------
(* The session cache *)

\* peek and restore: another configuration's session does not exist.
Cached == IF cache.key = cfg THEN cache.sid ELSE None

\* Mutant: a session is filed under the configuration of now.
FiledOnce(seen, sid) == [key |-> cfg, sid |-> sid, blocked |-> None]

\* What login leaves in the cache: the session setter files it under the
\* configuration of now, _save_session_cookies files what it finds under the
\* configuration login started with.
Filed(seen, sid) ==
  [key |-> seen, sid |-> IF cfg = seen THEN sid ELSE None, blocked |-> None]

\* Where a thread is, with the session and the configuration it has in hand.
Moved(t, pc, sid, seen, retry) ==
  [thr EXCEPT ![t] = [pc |-> pc, sid |-> sid, seen |-> seen, retry |-> retry]]
Goes(t, pc) == Moved(t, pc, thr[t].sid, thr[t].seen, thr[t].retry)

-----------------------------------------------------------------------------
(* login *)

\* The monitor has a session to connect with.
Entered == [force |-> FALSE, once |-> TRUE, target |-> ws.target, sid |-> ws.sid]

\* login(force) up to the router: refused while blocked, answered from the
\* cache, or the lock is kept for the exchange.
login(t, force, failed, done) ==
  /\ lock = None
  /\ IF ~force /\ cache.blocked = cfg
     THEN thr' = Goes(t, failed) /\ UNCHANGED lock
     ELSE IF ~force /\ Cached # None
     THEN thr' = Moved(t, done, Cached, thr[t].seen, thr[t].retry) /\ UNCHANGED lock
     ELSE lock' = t /\ thr' = Moved(t, "logging", thr[t].sid, cfg, thr[t].retry)
  /\ UNCHANGED <<cfg, put, cache, alive, origin, changes, faults>>

\* The router answers with a session for the configuration login read, the
\* cache is filled and the session checked.
LoginEnds(t) ==
  LET sid == Len(origin) + 1
      seen == thr[t].seen
  IN
  /\ thr[t].pc = "logging"
  /\ lock' = None
  /\ \/ /\ origin' = Append(origin, seen)
        /\ alive' = [alive EXCEPT ![seen] = sid]
        /\ cache' = Filed(seen, sid)
        /\ thr' = Moved(t, IF t = Monitor THEN "connect" ELSE IF thr[t].retry THEN "call" ELSE "login",
                        sid, seen, thr[t].retry)
        /\ ws' = IF t = Monitor THEN Entered ELSE ws
        /\ UNCHANGED faults
     \/ /\ faults < MaxFaults /\ faults' = faults + 1
        /\ cache' \in {cache, NoSession}   \* unreachable, or refused: clear_session
        /\ thr' = Goes(t, "idle")
        /\ UNCHANGED <<alive, origin, ws>>
     \/ /\ faults < MaxFaults /\ faults' = faults + 1
        /\ origin' = Append(origin, seen)  \* accepted, but the check of the session fails
        /\ alive' = [alive EXCEPT ![seen] = sid]
        /\ cache' = NoSession
        /\ thr' = Goes(t, "idle")
        /\ UNCHANGED ws
  /\ UNCHANGED <<cfg, put, changes>>

-----------------------------------------------------------------------------
(* _post_api *)

Request(t) ==
  /\ t \in Callers /\ thr[t].pc = "idle"
  /\ thr' = Moved(t, "login", thr[t].sid, thr[t].seen, TRUE)
  /\ UNCHANGED <<cfg, put, cache, lock, ws, alive, origin, changes, faults>>

LogsIn(t) ==
  /\ t \in Callers /\ thr[t].pc = "login"
  /\ login(t, FALSE, "idle", "call")
  /\ UNCHANGED ws

\* The request goes to the router configured now, with the session of before.
Call(t) ==
  /\ thr[t].pc = "call"
  /\ thr' = Moved(t, IF alive[cfg] = thr[t].sid THEN "idle" ELSE "rejected",
                  thr[t].sid, cfg, thr[t].retry)
  /\ UNCHANGED <<cfg, put, cache, lock, ws, alive, origin, changes, faults>>

\* Is the rejected session still the shared one?
SameSession(t) == Cached = thr[t].sid
\* 401 or 403: under the lock, the shared session is dropped if it is the
\* rejected one; the first time this thread logs in again at once, the second
\* time logins of this configuration are blocked for a while.
Rejected(t) ==
  /\ thr[t].pc = "rejected" /\ lock = None
  /\ IF ~SameSession(t)
     THEN /\ thr' = Moved(t, IF thr[t].retry THEN "login" ELSE "idle",
                          thr[t].sid, thr[t].seen, FALSE)
          /\ UNCHANGED <<cache, lock>>
     ELSE IF thr[t].retry
     THEN /\ cache' = NoSession /\ lock' = t
          /\ thr' = Moved(t, "logging", thr[t].sid, cfg, FALSE)
     ELSE /\ cache' = Blocked(thr[t].seen)
          /\ thr' = Goes(t, "idle")
          /\ UNCHANGED lock
  /\ UNCHANGED <<cfg, put, ws, alive, origin, changes, faults>>

\* AUTH_RETRY_BACKOFF_SECONDS are over.
BlockEnds ==
  /\ cache.blocked # None
  /\ cache' = [cache EXCEPT !.blocked = None]
  /\ UNCHANGED <<cfg, put, lock, thr, ws, alive, origin, changes, faults>>

\* Fewer than five minutes remain: valid_locally is false, the next login is real.
SessionAges ==
  /\ cache.sid # None /\ faults < MaxFaults /\ lock = None
  /\ faults' = faults + 1
  /\ cache' = [cache EXCEPT !.sid = None]
  /\ UNCHANGED <<cfg, put, lock, thr, ws, alive, origin, changes>>

-----------------------------------------------------------------------------
(* RouterWebSocketMonitor._loop *)

\* _ensure_authenticated: log in when told to, the first time, and without a session.
Authenticates ==
  /\ thr[Monitor].pc = "idle"
  /\ IF ws.force \/ ~ws.once \/ Cached = None
     THEN login(Monitor, ws.force, "idle", "connect")
     ELSE /\ thr' = Goes(Monitor, "connect")
          /\ UNCHANGED <<cfg, put, cache, lock, alive, origin, changes, faults>>
  /\ ws' = IF thr'[Monitor].pc = "connect" THEN Entered ELSE ws

\* _connection_info and create_connection: no session means wait and start
\* over, a session the router rejects (401, 403) forces a login.
Connects ==
  /\ thr[Monitor].pc = "connect"
  /\ IF Cached = None
     THEN thr' = Goes(Monitor, "idle") /\ UNCHANGED ws
     ELSE IF alive[cfg] = Cached
     THEN /\ thr' = Goes(Monitor, "receive")
          /\ ws' = [force |-> ws.force, once |-> ws.once, target |-> cfg, sid |-> Cached]
     ELSE /\ thr' = Goes(Monitor, "idle")
          /\ ws' = [ws EXCEPT !.force = TRUE]
  /\ UNCHANGED <<cfg, put, cache, lock, alive, origin, changes, faults>>

\* The router ended the session: the socket closes, or a frame says so.
Receives ==
  /\ thr[Monitor].pc = "receive" /\ alive[ws.target] # ws.sid
  /\ thr' = Goes(Monitor, "idle")
  /\ \E told \in BOOLEAN : ws' = [force |-> told, once |-> ws.once, target |-> None, sid |-> None]
  /\ UNCHANGED <<cfg, put, cache, lock, alive, origin, changes, faults>>

-----------------------------------------------------------------------------
(* The world *)

\* PUT /config: the store first, then clear_session under the lock.
ConfigSaved ==
  /\ put = "none" /\ changes < MaxChanges /\ changes' = changes + 1
  /\ cfg' \in Configs \ {cfg} /\ put' = "clear"
  /\ UNCHANGED <<cache, lock, thr, ws, alive, origin, faults>>

ConfigCleared ==
  /\ put = "clear" /\ lock = None
  /\ cache' = NoSession /\ put' = "none"
  /\ UNCHANGED <<cfg, lock, thr, ws, alive, origin, changes, faults>>

\* POST /session/logout: clear_session.  The router is not told.
Logout ==
  /\ faults < MaxFaults /\ faults' = faults + 1
  /\ lock = None /\ cache # NoSession /\ cache' = NoSession
  /\ UNCHANGED <<cfg, put, lock, thr, ws, alive, origin, changes>>

RouterDropsSession ==
  /\ faults < MaxFaults /\ faults' = faults + 1
  /\ \E c \in Configs : alive[c] # None /\ alive' = [alive EXCEPT ![c] = None]
  /\ UNCHANGED <<cfg, put, cache, lock, thr, ws, origin, changes>>

CallerStep(t) == Request(t) \/ LogsIn(t) \/ Call(t) \/ Rejected(t)
MonitorStep == Authenticates \/ Connects \/ Receives

Next ==
  \/ \E t \in Callers : CallerStep(t)
  \/ MonitorStep
  \/ \E t \in Threads : LoginEnds(t)
  \/ BlockEnds \/ SessionAges \/ ConfigSaved \/ ConfigCleared \/ Logout
  \/ RouterDropsSession

\* The threads of one process run when they can, and blocks end.
Fairness ==
  /\ \A t \in Callers : WF_vars(CallerStep(t))
  /\ WF_vars(MonitorStep)
  /\ \A t \in Threads : WF_vars(LoginEnds(t))
  /\ WF_vars(BlockEnds) /\ WF_vars(ConfigCleared)

Spec == Init /\ [][Next]_vars /\ Fairness

-----------------------------------------------------------------------------
\* Type invariant.
TypeOK ==
  /\ cfg \in Configs /\ put \in {"none", "clear"}
  /\ origin \in Seq(Configs)
  /\ cache \in [key : Configs \cup {None}, sid : Sids \cup {None}, blocked : Configs \cup {None}]
  /\ lock \in Threads \cup {None}
  /\ thr \in [Threads -> [pc : {"idle", "login", "logging", "call", "rejected", "connect", "receive"},
                          sid : Sids \cup {None}, seen : Configs \cup {None}, retry : BOOLEAN]]
  /\ ws \in [force : BOOLEAN, once : BOOLEAN, target : Configs \cup {None}, sid : Sids \cup {None}]
  /\ alive \in [Configs -> Sids \cup {None}]

\* The cache never offers a session to a configuration it was not obtained
\* with, although the configuration may change in the middle of a login.
SessionOwn == cache.sid # None => origin[cache.sid] = cache.key

\* However many threads a dropped session fails for, the Hub does not storm
\* the router: the start takes one login, a fault one of the callers' and one
\* with which the monitor repeats it, and a change of configuration a third,
\* because the cache is cleared after somebody may have logged in again.
NoLoginStorm == Len(origin) <= 1 + 3 * changes + 2 * faults

\* Once routers and users leave the session alone, the Hub settles on one the
\* router accepts and the monitor stays connected.
Settled == Cached # None /\ alive[cfg] = Cached /\ thr[Monitor].pc = "receive"
SessionSettles == <>[]Settled

=============================================================================
