--------------------------- MODULE TaskWorkerPool ---------------------------
(***************************************************************************)
(* TaskWorkerPool: worker threads that take tasks from a bounded queue, the *)
(* threads that submit to it, and the thread that shuts it down.  A critical *)
(* section of mutex_ is one step, and so is what a thread does between two   *)
(* of them.  The condition variable is the set of threads waiting on it:     *)
(* notify_one moves one of them on, if there is one, and a thread may also   *)
(* wake for no reason.                                                       *)
(***************************************************************************)
EXTENDS Naturals, FiniteSets, Sequences

CONSTANTS
    Workers,    \* the worker threads
    Tasks,      \* the tasks that are submitted, each once
    NoTask,     \* an empty std::function
    Capacity    \* capacity_

ASSUME NoTaskAssumption == NoTask \notin Tasks
ASSUME CapacityAssumption == Capacity \in Nat

VARIABLES
    accepting,  \* accepting_
    tasks,      \* tasks_
    pc,         \* where each worker stands in run()
    task,       \* the local variable of run(): the task each worker has taken
    result,     \* what submit returned for each task, or "none"
    done,       \* how often each task was executed
    stage       \* where the thread that calls shutdown() stands

vars == <<accepting, tasks, pc, task, result, done, stage>>

Init ==
    /\ accepting = TRUE
    /\ tasks = <<>>
    /\ pc = [w \in Workers |-> "check"]
    /\ task = [w \in Workers |-> NoTask]
    /\ result = [t \in Tasks |-> "none"]
    /\ done = [t \in Tasks |-> 0]
    /\ stage = "up"

Waiting == {w \in Workers : pc[w] = "waiting"}

NotifyOne ==
    IF Waiting = {} THEN UNCHANGED pc
    ELSE \E w \in Waiting : pc' = [pc EXCEPT ![w] = "check"]

NotifyAll ==
    pc' = [w \in Workers |-> IF pc[w] = "waiting" THEN "check" ELSE pc[w]]

-----------------------------------------------------------------------------
(* submit                                                                    *)

\* The pool is shut down, has no worker or its queue is full.
Full == ~accepting \/ Workers = {} \/ Len(tasks) >= Capacity

\* Mutant: a pool that is shutting down still takes tasks.
submit_WhileClosing(t) ==
    /\ result[t] = "none"
    /\ Workers # {} /\ Len(tasks) < Capacity
    /\ tasks' = Append(tasks, t)
    /\ result' = [result EXCEPT ![t] = "accepted"]
    /\ NotifyOne
    /\ UNCHANGED <<accepting, task, done, stage>>

\* Mutant: the waiting workers are not notified.
submit_Silent(t) ==
    /\ result[t] = "none"
    /\ ~Full
    /\ tasks' = Append(tasks, t)
    /\ result' = [result EXCEPT ![t] = "accepted"]
    /\ UNCHANGED <<accepting, pc, task, done, stage>>

\* The check, the push and the notification are under one lock.
submit(t) ==
    /\ result[t] = "none"
    /\ ~Full
    /\ tasks' = Append(tasks, t)
    /\ result' = [result EXCEPT ![t] = "accepted"]
    /\ NotifyOne
    /\ UNCHANGED <<accepting, task, done, stage>>

submitRefused(t) ==
    /\ result[t] = "none"
    /\ Full
    /\ result' = [result EXCEPT ![t] = "refused"]
    /\ UNCHANGED <<accepting, tasks, pc, task, done, stage>>

-----------------------------------------------------------------------------
(* run                                                                       *)

\* Under the lock: wait while there is neither a task nor a shutdown; leave when
\* the queue is empty; otherwise take the oldest task.
run(w) ==
    /\ pc[w] = "check"
    /\ \/ /\ tasks = <<>> /\ accepting
          /\ pc' = [pc EXCEPT ![w] = "waiting"]
          /\ UNCHANGED <<tasks, task>>
       \/ /\ tasks = <<>> /\ ~accepting
          /\ pc' = [pc EXCEPT ![w] = "exited"]
          /\ UNCHANGED <<tasks, task>>
       \/ /\ tasks # <<>>
          /\ task' = [task EXCEPT ![w] = Head(tasks)]
          /\ tasks' = Tail(tasks)
          /\ pc' = [pc EXCEPT ![w] = "running"]
    /\ UNCHANGED <<accepting, result, done, stage>>

\* The task has returned or thrown, which run() treats alike.
Execute(w) ==
    /\ pc[w] = "running"
    /\ done' = [done EXCEPT ![task[w]] = @ + 1]
    /\ task' = [task EXCEPT ![w] = NoTask]
    /\ pc' = [pc EXCEPT ![w] = "check"]
    /\ UNCHANGED <<accepting, tasks, result, stage>>

SpuriousWakeup(w) ==
    /\ pc[w] = "waiting"
    /\ pc' = [pc EXCEPT ![w] = "check"]
    /\ UNCHANGED <<accepting, tasks, task, result, done, stage>>

-----------------------------------------------------------------------------
(* shutdown, from main or the destructor; it may be called again.            *)

StopAccepting ==
    /\ stage \in {"up", "returned"}
    /\ accepting' = FALSE
    /\ stage' = "notify"
    /\ UNCHANGED <<tasks, pc, task, result, done>>

\* Mutant: only one of the workers is notified.
WakeWorkers_One ==
    /\ stage = "notify"
    /\ NotifyOne
    /\ stage' = "join"
    /\ UNCHANGED <<accepting, tasks, task, result, done>>

WakeWorkers ==
    /\ stage = "notify"
    /\ NotifyAll
    /\ stage' = "join"
    /\ UNCHANGED <<accepting, tasks, task, result, done>>

\* Mutant: shutdown does not wait for a worker that is still busy.
JoinWorkers_Detaches ==
    /\ stage = "join"
    /\ \A w \in Workers : pc[w] \in {"exited", "running"}
    /\ stage' = "returned"
    /\ UNCHANGED <<accepting, tasks, pc, task, result, done>>

JoinWorkers ==
    /\ stage = "join"
    /\ \A w \in Workers : pc[w] = "exited"
    /\ stage' = "returned"
    /\ UNCHANGED <<accepting, tasks, pc, task, result, done>>

-----------------------------------------------------------------------------
WorkerStep(w) == run(w) \/ Execute(w)

Next ==
    \/ \E t \in Tasks : submit(t) \/ submitRefused(t)
    \/ \E w \in Workers : WorkerStep(w) \/ SpuriousWakeup(w)
    \/ StopAccepting \/ WakeWorkers \/ JoinWorkers

Spec == Init /\ [][Next]_vars

\* Threads that can run do run, and tasks end.  Nobody has to call shutdown, and
\* no spurious wakeup is counted on.
FairSpec ==
    /\ Spec
    /\ \A w \in Workers : WF_vars(WorkerStep(w))
    /\ WF_vars(WakeWorkers) /\ WF_vars(JoinWorkers)

-----------------------------------------------------------------------------
(* Properties.                                                               *)

\* Types, and the bound on the queue that TaskWorkerPool.h promises.
TypeOK ==
    /\ accepting \in BOOLEAN
    /\ tasks \in Seq(Tasks) /\ Len(tasks) <= Capacity
    /\ pc \in [Workers -> {"check", "waiting", "running", "exited"}]
    /\ task \in [Workers -> Tasks \cup {NoTask}]
    /\ \A w \in Workers : pc[w] = "running" <=> task[w] # NoTask
    /\ result \in [Tasks -> {"none", "accepted", "refused"}]
    /\ done \in [Tasks -> Nat]
    /\ stage \in {"up", "notify", "join", "returned"}

Running == {w \in Workers : pc[w] = "running"}

\* The workers never all sleep, or leave, over a queue that is not empty: the
\* notifications of submit and shutdown and the predicate of wait lose no task.
SomeoneAwake ==
    tasks # <<>> => \E w \in Workers : pc[w] \in {"check", "running"}

\* shutdown returns only after every accepted task was executed; this is what
\* main relies on when it destroys the objects the tasks use.
Drained ==
    stage = "returned" => \A t \in Tasks : result[t] = "accepted" => done[t] = 1

Queued == {tasks[i] : i \in 1..Len(tasks)}
Held == {task[w] : w \in Running}

\* A task that was accepted is in the queue, at one place, or held by one
\* worker, or was executed once; a task that was not is nowhere.
Once ==
    /\ \A i, j \in 1..Len(tasks) : tasks[i] = tasks[j] => i = j
    /\ \A v, w \in Running : task[v] = task[w] => v = w
    /\ Queued \cap Held = {}
    /\ \A t \in Tasks :
         /\ done[t] = IF result[t] = "accepted" /\ t \notin Queued \cup Held
                      THEN 1 ELSE 0
         /\ t \in Queued \cup Held => result[t] = "accepted"

\* Workers leave only an empty queue that takes nothing more, and are joined
\* only when they have left.
Leaving ==
    /\ accepting <=> stage = "up"
    /\ \A w \in Workers : pc[w] = "exited" => ~accepting /\ tasks = <<>>
    /\ stage = "returned" => \A w \in Workers : pc[w] = "exited"

\* The inductive invariant.
IInv == TypeOK /\ Once /\ Leaving /\ SomeoneAwake

\* Every accepted task is executed.
TasksExecuted == \A t \in Tasks : result[t] = "accepted" ~> done[t] = 1

\* shutdown returns: no worker is left asleep.
ShutdownReturns == stage = "join" ~> stage = "returned"

\* Nothing that TaskWorkerPool has begun is left hanging.
PoolProgress == TasksExecuted /\ ShutdownReturns

\* The pool as the promise that TaskQueue states.
Promise == INSTANCE TaskQueue WITH
    waiting <- tasks,
    active <- {task[w] : w \in Running},
    executed <- {t \in Tasks : done[t] > 0},
    mode <- IF accepting THEN "open"
            ELSE IF Workers # {} /\ \A w \in Workers : pc[w] = "exited" THEN "stopped"
            ELSE "closed"

\* TaskWorkerPool implements TaskQueue: FIFO start, exactly one execution, no
\* task taken after the close.
KeepsPromise == Promise!Spec

=============================================================================
