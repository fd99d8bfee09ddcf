---------------------------- MODULE RouterControl ----------------------------
(***************************************************************************)
(* Every RPC to the router goes through one worker thread with a bounded   *)
(* priority queue (RouterControlActor).  HTTP requests submit commands and *)
(* reads, the Hub's long tasks submit one short RPC at a time, background  *)
(* loaders are turned away whenever anybody else is about.  A caller waits *)
(* for a bounded time; its item stays in the queue and runs all the same.  *)
(* On top, RouterTaskManager runs NAT, self-test and Beta tasks, each in a *)
(* thread of its own, persisted so that a restarted Hub can end them.      *)
(***************************************************************************)
EXTENDS Integers, Sequences, FiniteSets

CONSTANTS
  Users,      \* threads of HTTP requests; each submits a command or a read
  Kinds,      \* kinds of long tasks
  Loader,     \* a background thread
  None,
  QueueSize,  \* maxsize of the queue (96)
  MaxPolls,   \* bound: observations a task makes before its deadline
  MaxCalls,   \* bound: calls of users and of the loader, tasks begun
  MaxFaults   \* bound: waits that time out, RPCs that fail, restarts

VARIABLES
  queue,    \* items: who submitted, with what priority, is it still waited for
  worker,   \* the actor's thread: pc and the item it took
  pending,  \* _foreground_pending
  call,     \* per thread: its submit in progress
  task,     \* per kind: state of the task
  thread,   \* per kind: pc of the task's thread and the observations left
  calls, faults

vars == <<queue, worker, pending, call, task, thread, calls, faults>>
actorVars == <<queue, worker, pending, call>>

Threads == Users \cup Kinds \cup {Loader}
Terminal == {"succeeded", "failed", "timed_out"}
Active == {"queued", "running"}

\* _request_priority: PRIORITY_COMMAND 10 and PRIORITY_READ 30 for requests,
\* PRIORITY_TASK 20 for the task threads, PRIORITY_BACKGROUND 50 otherwise.
Priorities(t) == IF t \in Users THEN {10, 30} ELSE IF t \in Kinds THEN {20} ELSE {50}
Background(p) == p >= 50

IdleWorker == [pc |-> "idle", item |-> None]
NoThread == [pc |-> "none", left |-> 0]

Init ==
  /\ queue = <<>> /\ worker = IdleWorker /\ pending = 0
  /\ call = [t \in Threads |-> [pc |-> "idle", priority |-> 50]]
  /\ task = [k \in Kinds |-> "idle"]
  /\ thread = [k \in Kinds |-> NoThread]
  /\ calls = 0 /\ faults = 0

-----------------------------------------------------------------------------
(* RouterControlActor.submit *)

\* Anybody else is active, counted or queued.
Busy == worker.pc = "running" \/ pending > 0 \/ queue # <<>>

\* Under the state lock: a background call is refused while the actor is
\* busy, any other one is counted.
Enter(t, p) ==
  /\ call[t].pc = "idle"
  /\ Background(p) => ~Busy
  /\ call' = [call EXCEPT ![t] = [pc |-> "putting", priority |-> p]]
  /\ pending' = IF Background(p) THEN pending ELSE pending + 1

\* A call goes on to pc.
Now(t, pc) == [call EXCEPT ![t] = [pc |-> pc, priority |-> call[t].priority]]

\* Mutant: the queue has no limit.
PutUnbounded(t) ==
  /\ call[t].pc = "putting"
  /\ queue' = Append(queue, [who |-> t, priority |-> call[t].priority, waited |-> TRUE])
  /\ call' = Now(t, "waiting")
  /\ UNCHANGED <<worker, pending, task, thread, calls, faults>>

\* queue.put, or CONTROL_QUEUE_BUSY when the queue stays full for a second.
Put(t) ==
  LET p == call[t].priority IN
  /\ call[t].pc = "putting"
  /\ \/ /\ Len(queue) < QueueSize
        /\ queue' = Append(queue, [who |-> t, priority |-> p, waited |-> TRUE])
        /\ call' = Now(t, "waiting")
        /\ UNCHANGED pending
     \/ /\ Len(queue) = QueueSize
        /\ call' = Now(t, "error")
        /\ pending' = IF Background(p) THEN pending ELSE pending - 1
        /\ UNCHANGED queue
  /\ UNCHANGED <<worker, task, thread, calls, faults>>

\* The wait is over (CONTROL_QUEUE_TIMEOUT); the item is not withdrawn.
LeftBy(t, item) ==
  [who |-> item.who, priority |-> item.priority, waited |-> item.waited /\ item.who # t]
Timeout(t) ==
  /\ call[t].pc = "waiting" /\ faults < MaxFaults
  /\ faults' = faults + 1
  /\ call' = Now(t, "error")
  /\ queue' = [i \in DOMAIN queue |-> LeftBy(t, queue[i])]
  /\ worker' = IF worker.item = None THEN worker
               ELSE [pc |-> worker.pc, item |-> LeftBy(t, worker.item)]
  /\ UNCHANGED <<pending, task, thread, calls>>

\* A user or the loader reads its result and is free for another call.
Returned(t) ==
  /\ t \notin Kinds /\ call[t].pc \in {"value", "error"}
  /\ call' = Now(t, "idle")
  /\ UNCHANGED <<queue, worker, pending, task, thread, calls, faults>>

Call(t) ==
  /\ t \notin Kinds /\ calls < MaxCalls
  /\ \E p \in Priorities(t) : Enter(t, p)
  /\ calls' = calls + 1
  /\ UNCHANGED <<queue, worker, task, thread, faults>>

-----------------------------------------------------------------------------
(* RouterControlActor._run *)

\* PriorityQueue order: lowest number first, then first come.
First(i) ==
  \A j \in DOMAIN queue \ {i} :
    \/ queue[i].priority < queue[j].priority
    \/ queue[i].priority = queue[j].priority /\ i < j

Without(i) == SubSeq(queue, 1, i - 1) \o SubSeq(queue, i + 1, Len(queue))

Get ==
  /\ worker.pc = "idle"
  /\ \E i \in DOMAIN queue :
       /\ First(i)
       /\ worker' = [pc |-> "got", item |-> queue[i]]
       /\ queue' = Without(i)
  /\ UNCHANGED <<pending, call, task, thread, calls, faults>>

\* Under the state lock: the item becomes active and is no longer pending.
Begin ==
  /\ worker.pc = "got"
  /\ worker' = [pc |-> "running", item |-> worker.item]
  /\ pending' = IF Background(worker.item.priority) THEN pending
                ELSE IF pending > 0 THEN pending - 1 ELSE 0
  /\ UNCHANGED <<queue, call, task, thread, calls, faults>>

\* The callback returned or raised; whoever still waits is woken.
Run ==
  /\ worker.pc = "running"
  /\ \E failed \in BOOLEAN :
       /\ failed => faults < MaxFaults
       /\ faults' = IF failed THEN faults + 1 ELSE faults
       /\ call' = IF worker.item.waited
                  THEN Now(worker.item.who, IF failed THEN "error" ELSE "value") ELSE call
  /\ worker' = IdleWorker
  /\ UNCHANGED <<queue, pending, task, thread, calls>>

-----------------------------------------------------------------------------
(* RouterTaskManager *)

\* start_nat, start_diagnostic, start_beta: _begin, and a thread if it began.
Start(k) ==
  /\ calls < MaxCalls /\ calls' = calls + 1
  /\ task[k] \notin Active
  /\ thread[k].pc = "none"
  /\ task' = [task EXCEPT ![k] = "queued"]
  /\ thread' = [thread EXCEPT ![k] = [pc |-> "start", left |-> MaxPolls]]
  /\ UNCHANGED <<actorVars, faults>>

\* The thread marks the task running and sends the command.
SendsCommand(k) ==
  /\ thread[k].pc = "start" /\ call[k].pc = "idle"
  /\ task' = [task EXCEPT ![k] = "running"]
  /\ thread' = [thread EXCEPT ![k].pc = "command"]
  /\ Enter(k, 20)
  /\ UNCHANGED <<queue, worker, calls, faults>>

Ended(k, state) ==
  /\ task' = [task EXCEPT ![k] = state]
  /\ thread' = [thread EXCEPT ![k] = NoThread]

\* The command failed: so did the task.  It was answered: either with the
\* result (Beta, a quick NAT answer) or the thread goes on observing.
CommandAnswered(k) ==
  /\ thread[k].pc = "command" /\ call[k].pc \in {"value", "error"}
  /\ call' = Now(k, "idle")
  /\ IF call[k].pc = "error" THEN Ended(k, "failed")
     ELSE \/ \E state \in Terminal : Ended(k, state)
          \/ thread' = [thread EXCEPT ![k].pc = "observe"] /\ UNCHANGED task
  /\ UNCHANGED <<queue, worker, pending, calls, faults>>

\* Before the deadline: one more observation.
Observes(k) ==
  /\ thread[k].pc = "observe" /\ thread[k].left > 0 /\ call[k].pc = "idle"
  /\ thread' = [thread EXCEPT ![k] = [pc |-> "observing", left |-> @.left - 1]]
  /\ Enter(k, 20)
  /\ UNCHANGED <<queue, worker, task, calls, faults>>

\* An observation that failed is only noted; one that shows the end ends it.
Observed(k) ==
  /\ thread[k].pc = "observing" /\ call[k].pc \in {"value", "error"}
  /\ call' = Now(k, "idle")
  /\ \/ call[k].pc = "value" /\ \E state \in {"succeeded", "failed"} : Ended(k, state)
     \/ thread' = [thread EXCEPT ![k].pc = "observe"] /\ UNCHANGED task
  /\ UNCHANGED <<queue, worker, pending, calls, faults>>

Deadline(k) ==
  /\ thread[k].pc = "observe" /\ thread[k].left = 0
  /\ Ended(k, "timed_out")
  /\ UNCHANGED <<actorVars, calls, faults>>

\* Mutant: a task keeps the state it was saved with.
RestoredAsIs(state) == state

\* What _load makes of a persisted task: one that was under way was interrupted.
Restored(state) == IF state \in Active THEN "failed" ELSE state
\* The Hub restarts: threads, queue and waits are gone, router_tasks.json stays.
HubRestart ==
  /\ faults < MaxFaults /\ faults' = faults + 1
  /\ queue' = <<>> /\ worker' = IdleWorker /\ pending' = 0
  /\ call' = [t \in Threads |-> [pc |-> "idle", priority |-> 50]]
  /\ task' = [k \in Kinds |-> Restored(task[k])]
  /\ thread' = [k \in Kinds |-> NoThread]
  /\ UNCHANGED calls

-----------------------------------------------------------------------------
Actor == Get \/ Begin \/ Run
TaskStep(k) ==
  SendsCommand(k) \/ CommandAnswered(k) \/ Observes(k) \/ Observed(k) \/ Deadline(k)

Next ==
  \/ Actor \/ HubRestart
  \/ \E t \in Threads : Call(t) \/ Put(t) \/ Timeout(t) \/ Returned(t)
  \/ \E k \in Kinds : Start(k) \/ TaskStep(k)

\* Threads of one process: each runs when it can.
Fairness ==
  /\ WF_vars(Actor)
  /\ \A t \in Threads : WF_vars(Put(t))
  /\ \A k \in Kinds : WF_vars(TaskStep(k))

Spec == Init /\ [][Next]_vars /\ Fairness

-----------------------------------------------------------------------------
Item == [who : Threads, priority : {10, 20, 30, 50}, waited : BOOLEAN]

\* Type invariant; the queue keeps its bound.
TypeOK ==
  /\ queue \in Seq(Item) /\ Len(queue) <= QueueSize
  /\ worker \in [pc : {"idle", "got", "running"}, item : Item \cup {None}]
  /\ pending \in 0..(Cardinality(Threads) + QueueSize + 1)
  /\ call \in [Threads -> [pc : {"idle", "putting", "waiting", "value", "error"},
                           priority : {10, 20, 30, 50}]]
  /\ task \in [Kinds -> Terminal \cup Active \cup {"idle"}]
  /\ thread \in [Kinds -> [pc : {"none", "start", "command", "observe", "observing"},
                           left : 0..MaxPolls]]

\* The counter that turns background loaders away is exact: every counted call
\* is being put, is queued or was just taken, through full queues, timed-out
\* waits and calls that run long after their caller left.  A leak would lock
\* the loaders out for good.
PendingExact ==
  pending = Cardinality({t \in Threads : call[t].pc = "putting" /\ ~Background(call[t].priority)})
            + Cardinality({i \in DOMAIN queue : ~Background(queue[i].priority)})
            + (IF worker.pc = "got" /\ ~Background(worker.item.priority) THEN 1 ELSE 0)

\* A task that began ends: done, failed, timed out, or interrupted by a
\* restart.  One left running would refuse every later start of its kind.
TaskSettles == \A k \in Kinds : task[k] \in Active ~> task[k] \in Terminal

=============================================================================
