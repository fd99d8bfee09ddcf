---------------------------- MODULE NatDiagnostic ----------------------------
(***************************************************************************)
(* The NAT diagnostic of router_native_features_patch.py: every POST takes *)
(* the next generation and starts a thread that sets the router's single   *)
(* nat_detector going and polls it until a final answer or its maximum run *)
(* time.  A thread whose generation was passed stores nothing and stops.   *)
(* The router answers the set and every poll with the state of whatever    *)
(* detection was set last.                                                 *)
(***************************************************************************)
EXTENDS Naturals

CONSTANTS
  Requests,   \* what a detection can be asked for
  None,
  MaxStarts,  \* bound: POSTs
  MaxPolls,   \* polls before NAT_MAX_RUNTIME_SECONDS are over
  MaxFaults   \* bound: RPCs that fail

VARIABLES
  generation,  \* nat_generation
  asked,       \* per generation: the request of its POST
  result,      \* nat_result: status and the request it is labelled with
  thread,      \* per generation: pc, polls left and the answer being stored
  router,      \* the detection set last and whether it has ended
  faults

vars == <<generation, asked, result, thread, router, faults>>

Generations == 1..MaxStarts
At(pc, left, status) == [pc |-> pc, left |-> left, status |-> status]
NoThread == At("none", 0, "running")

Init ==
  /\ generation = 0 /\ asked = [g \in Generations |-> None]
  /\ result = [status |-> "idle", request |-> None]
  /\ thread = [g \in Generations |-> NoThread]
  /\ router = [request |-> None, ended |-> FALSE] /\ faults = 0

\* nat_diagnostic_start, under nat_lock.
Start(request) ==
  /\ generation < MaxStarts
  /\ generation' = generation + 1
  /\ asked' = [asked EXCEPT ![generation + 1] = request]
  /\ result' = [status |-> "running", request |-> request]
  /\ thread' = [thread EXCEPT ![generation + 1] = At("set", MaxPolls, "running")]
  /\ UNCHANGED <<router, faults>>

-----------------------------------------------------------------------------
(* run_nat_detection *)

Answers == IF router.ended THEN {"completed", "error"} ELSE {"running"}

Storing(g, status) == thread' = [thread EXCEPT ![g] = At("store", thread[g].left, status)]

\* devSta.set: the router drops what it was doing, and may answer at once; or
\* the RPC fails, which ends the diagnostic.
Sets(g) ==
  /\ thread[g].pc = "set"
  /\ \/ /\ \E status \in {"running", "completed", "error"} :
             /\ router' = [request |-> asked[g], ended |-> status # "running"]
             /\ Storing(g, status)
        /\ UNCHANGED faults
     \/ /\ faults < MaxFaults /\ faults' = faults + 1
        /\ Storing(g, "error") /\ UNCHANGED router
  /\ UNCHANGED <<generation, asked, result>>

\* Mutant: a generation that was passed goes on.
CurrentAlways(g) == TRUE

\* store_nat_result: under the lock, nothing for a generation that was passed.
Current(g) == g = generation
Stores(g) ==
  /\ thread[g].pc = "store"
  /\ result' = IF Current(g) THEN [status |-> thread[g].status, request |-> asked[g]] ELSE result
  /\ thread' = [thread EXCEPT ![g] =
                  IF Current(g) /\ thread[g].status # "running" THEN NoThread
                  ELSE At("poll", thread[g].left, thread[g].status)]
  /\ UNCHANGED <<generation, asked, router, faults>>

\* One round of the loop: the thread stops when it was passed; a poll that
\* fails is only noted; the last one is followed by the maximum run time.
Polls(g) ==
  /\ thread[g].pc = "poll"
  /\ \/ /\ ~Current(g)
        /\ thread' = [thread EXCEPT ![g] = NoThread] /\ UNCHANGED faults
     \/ /\ Current(g) /\ thread[g].left > 0
        /\ \/ /\ \E status \in Answers :
                   thread' = [thread EXCEPT ![g] = At("store", thread[g].left - 1, status)]
              /\ UNCHANGED faults
           \/ /\ faults < MaxFaults /\ faults' = faults + 1
              /\ thread' = [thread EXCEPT ![g] = At("poll", thread[g].left - 1, thread[g].status)]
     \/ /\ Current(g) /\ thread[g].left = 0
        /\ Storing(g, "error") /\ UNCHANGED faults
  /\ UNCHANGED <<generation, asked, result, router>>

\* The router's detection ends.
RouterEnds ==
  /\ router.request # None /\ ~router.ended
  /\ router' = [router EXCEPT !.ended = TRUE]
  /\ UNCHANGED <<generation, asked, result, thread, faults>>

-----------------------------------------------------------------------------
Worker(g) == Sets(g) \/ Stores(g) \/ Polls(g)

Next ==
  \/ \E request \in Requests : Start(request)
  \/ \E g \in Generations : Worker(g)
  \/ RouterEnds

Fairness == \A g \in Generations : WF_vars(Worker(g))

Spec == Init /\ [][Next]_vars /\ Fairness

-----------------------------------------------------------------------------
\* Type invariant.
TypeOK ==
  /\ generation \in 0..MaxStarts /\ asked \in [Generations -> Requests \cup {None}]
  /\ result \in [status : {"idle", "running", "completed", "error"}, request : Requests \cup {None}]
  /\ thread \in [Generations -> [pc : {"none", "set", "store", "poll"}, left : 0..MaxPolls,
                                 status : {"running", "completed", "error"}]]
  /\ router \in [request : Requests \cup {None}, ended : BOOLEAN] /\ faults \in 0..MaxFaults

\* What GET shows is about the latest POST, and while that one is under way a
\* thread is working on it: a slower thread of an earlier POST never puts its
\* own result there, nor stops the thread of the later one.
ResultOfLatest ==
  generation > 0 =>
    /\ result.request = asked[generation]
    /\ result.status = "running" => thread[generation].pc # "none"

\* A diagnostic ends: answered, failed, or after its maximum run time.
Running == result.status = "running"
NatSettles == Running ~> ~Running

=============================================================================
