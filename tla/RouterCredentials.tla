-------------------------- MODULE RouterCredentials --------------------------
(***************************************************************************)
(* The broadband credentials (router_relay_credentials_patch.py): the APP  *)
(* asks for a refresh, which takes the next nonce and reads the router     *)
(* directly; when that yields no complete pair the agent, which learns the *)
(* nonce from the answer to its dashboard push, reads the router itself    *)
(* and pushes the pair.  (Only agents built with the legacy source patch   *)
(* of build.rs read the nonces in the answer to the poll for commands.)    *)
(*                                                                         *)
(* The credentials are represented by the nonce they answer; how a pair is *)
(* found in the router's configuration and its time to live are left out.  *)
(***************************************************************************)
EXTENDS Integers, FiniteSets

CONSTANTS
    MaxRefresh,  \* bound: refreshes the APP asks for
    MaxFaults    \* bound: failed reads, lost pushes, Hub restarts

VARIABLES
    requested,  \* ROUTER_CREDENTIALS_REFRESH_NONCE
    completed,  \* refreshCompletedNonce of the cache, 0 while it is empty
    best,       \* largest nonce the cache has answered so far
    reads,      \* nonces whose direct read is under way
    refreshes,  \* refreshes asked for so far
    last,       \* last_credentials_refresh_nonce of the agent
    push,       \* nonce for which the agent reads and pushes, 0 for none
    faults

vars == <<requested, completed, best, reads, refreshes, last, push, faults>>

MaxNonce == 1 + MaxRefresh + MaxFaults

(* The nonces stay within the range that refreshes and restarts span. *)
TypeOK ==
    /\ requested \in 1 .. MaxNonce /\ completed \in 0 .. MaxNonce /\ best \in 0 .. MaxNonce
    /\ reads \in SUBSET (1 .. MaxNonce) /\ refreshes \in 0 .. MaxRefresh
    /\ last \in 0 .. MaxNonce /\ push \in 0 .. MaxNonce
    /\ faults \in 0 .. MaxFaults

Init ==
    /\ requested = 1 /\ completed = 0 /\ best = 0 /\ reads = {} /\ refreshes = 0
    /\ last = 0 /\ push = 0 /\ faults = 0

Fault == faults < MaxFaults /\ faults' = faults + 1

(* The cache is replaced as a whole: the pair of nonce n takes the place of *)
(* whatever it held, a newer one too.                                       *)
Store(n) == completed' = n /\ best' = IF n > best THEN n ELSE best

(* POST /api/router/dashboard/credentials/refresh, exempt from DATA_LOCK *)
refresh ==
    /\ refreshes < MaxRefresh /\ refreshes' = refreshes + 1
    /\ requested' = requested + 1 /\ reads' = reads \cup {requested + 1}
    /\ UNCHANGED <<completed, best, last, push, faults>>

(* The direct read ends: a complete pair replaces the cache under the nonce *)
(* of this request, anything less leaves it.                                *)
ReadEnds(n) ==
    /\ n \in reads /\ reads' = reads \ {n}
    /\ Store(n) \/ UNCHANGED <<completed, best>>
    /\ UNCHANGED <<requested, refreshes, last, push, faults>>

(* POST /api/router/dashboard/push: the answer carries the nonce, and the   *)
(* agent then reads the router whether or not Hub has done so.              *)
dashboard_push ==
    /\ push = 0 /\ requested > last /\ push' = requested
    /\ UNCHANGED <<requested, completed, best, reads, refreshes, last, faults>>

(* The request is lost, or the agent read an incomplete or masked pair and  *)
(* it is refused with 422: the agent keeps its nonce.                       *)
PushFails ==
    /\ push > 0 /\ Fault /\ push' = 0
    /\ UNCHANGED <<requested, completed, best, reads, refreshes, last>>

(* POST /api/router/dashboard/credentials/push with a complete pair; the    *)
(* answer may be lost.                                                      *)
PushStored ==
    /\ push > 0 /\ Store(push) /\ push' = 0
    /\ \/ last' = push /\ UNCHANGED faults
       \/ last' = last /\ Fault
    /\ UNCHANGED <<requested, reads, refreshes>>

(* The Hub restarts: the cache is memory only, the nonce starts from the    *)
(* clock and is therefore larger than every earlier one.                    *)
HubRestart ==
    /\ Fault /\ requested' = requested + 1 /\ completed' = 0 /\ reads' = {}
    /\ UNCHANGED <<best, refreshes, last, push>>

DirectRead == \E n \in reads : ReadEnds(n)

Next ==
    \/ refresh \/ DirectRead
    \/ dashboard_push \/ PushFails \/ PushStored \/ HubRestart

(* The agent pushes its dashboard in a loop and its push of the pair is     *)
(* processed once it succeeds; a direct read has a time limit.              *)
Fairness ==
    WF_vars(dashboard_push) /\ WF_vars(PushStored) /\ WF_vars(DirectRead)

Spec == Init /\ [][Next]_vars /\ Fairness
-----------------------------------------------------------------------------
(* A refresh is answered: by Hub's own read, or by the agent, which is told *)
(* of the nonce and tries again until the Hub has stored a complete pair.   *)
(* (An older read that ends later may take the answer back.)                *)
Unanswered == best < requested
RefreshAnswered == Unanswered ~> ~ Unanswered
=============================================================================
