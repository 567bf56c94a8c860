---------------------------- MODULE DBWorkerPool ----------------------------
(***************************************************************************)
(* DBWorkerPool together with the MySQLConnectionPool it borrows from: a     *)
(* worker takes a task, borrows a connection (or gets nullptr), runs the     *)
(* task and gives the connection back.  Unlike in TaskWorkerPool the queue    *)
(* has no bound and submit notifies after it has released the lock.           *)
(*                                                                         *)
(* The module extends ConnectionPool: the workers are the threads that borrow, *)
(* and each step of the pool is taken at the place of run() from which the code *)
(* makes the call.                                                            *)
(***************************************************************************)
EXTENDS ConnectionPool

CONSTANTS
    Tasks,      \* the tasks the DAOs submit, each once
    NoTask      \* an empty std::function

ASSUME DBNoTaskAssumption == NoTask \notin Tasks

\* AppConfig accepts no DB_WORKERS below 1.
ASSUME WorkersAssumption == Threads # {}

VARIABLES
    running,    \* running_
    tasks,      \* tasks_
    at,         \* where each worker stands in run()
    task,       \* the task each worker has taken
    result,     \* what submit returned for each task, or "none"
    notifying,  \* tasks whose submitter has not called notify_one yet
    done,       \* how often each task was executed
    stage       \* where the thread that runs the destructor stands

dbVars == <<running, tasks, at, task, result, notifying, done, stage, vars>>

DBInit ==
    /\ Init
    /\ running = TRUE
    /\ tasks = <<>>
    /\ at = [w \in Threads |-> "check"]
    /\ task = [w \in Threads |-> NoTask]
    /\ result = [t \in Tasks |-> "none"]
    /\ notifying = {}
    /\ done = [t \in Tasks |-> 0]
    /\ stage = "up"

Waiting == {w \in Threads : at[w] = "waiting"}

NotifyOne ==
    IF Waiting = {} THEN UNCHANGED at
    ELSE \E w \in Waiting : at' = [at EXCEPT ![w] = "check"]

-----------------------------------------------------------------------------
(* submit                                                                    *)

submit(t) ==
    /\ result[t] = "none"
    /\ running
    /\ tasks' = Append(tasks, t)
    /\ result' = [result EXCEPT ![t] = "accepted"]
    /\ notifying' = notifying \cup {t}
    /\ UNCHANGED <<running, at, task, done, stage, vars>>

submitRefused(t) ==
    /\ result[t] = "none"
    /\ ~running
    /\ result' = [result EXCEPT ![t] = "refused"]
    /\ UNCHANGED <<running, tasks, at, task, notifying, done, stage, vars>>

\* cond_.notify_one(), with the lock released: workers and other submitters may
\* have run since the push.
submitNotify(t) ==
    /\ t \in notifying
    /\ notifying' = notifying \ {t}
    /\ NotifyOne
    /\ UNCHANGED <<running, tasks, task, result, done, stage, vars>>

-----------------------------------------------------------------------------
(* run                                                                       *)

\* Under the lock: wait, leave, or take the oldest task.
run(w) ==
    /\ at[w] = "check"
    /\ \/ /\ tasks = <<>> /\ running
          /\ at' = [at EXCEPT ![w] = "waiting"]
          /\ UNCHANGED <<tasks, task>>
       \/ /\ tasks = <<>> /\ ~running
          /\ at' = [at EXCEPT ![w] = "exited"]
          /\ UNCHANGED <<tasks, task>>
       \/ /\ tasks # <<>>
          /\ task' = [task EXCEPT ![w] = Head(tasks)]
          /\ tasks' = Tail(tasks)
          /\ at' = [at EXCEPT ![w] = "borrow"]
    /\ UNCHANGED <<running, result, notifying, done, stage, vars>>

WorkerWakes(w) ==
    /\ at[w] = "waiting"
    /\ at' = [at EXCEPT ![w] = "check"]
    /\ UNCHANGED <<running, tasks, task, result, notifying, done, stage, vars>>

\* connPool_->borrow(), step by step.
Borrow(w) ==
    /\ at[w] = "borrow"
    /\ BorrowStep(w)
    /\ UNCHANGED <<running, tasks, at, task, result, notifying, done, stage>>

\* Mutant: a worker that got no connection waits for one instead of running its
\* task without.
Execute_NeedsConnection(w) ==
    /\ at[w] = "borrow"
    /\ \/ /\ pc[w] = "using"
          /\ done' = [done EXCEPT ![task[w]] = @ + 1]
          /\ at' = [at EXCEPT ![w] = "return"]
       \/ pc[w] = "null" /\ UNCHANGED <<done, at>>
    /\ UNCHANGED <<running, tasks, task, result, notifying, stage, vars>>

\* The task runs with the connection, or with nullptr; what it throws is
\* caught.
Execute(w) ==
    /\ at[w] = "borrow"
    /\ pc[w] \in {"using", "null"}
    /\ done' = [done EXCEPT ![task[w]] = @ + 1]
    /\ at' = [at EXCEPT ![w] = "return"]
    /\ UNCHANGED <<running, tasks, task, result, notifying, stage, vars>>

\* conn goes out of scope: the deleter's recycle(), step by step.
Return(w) ==
    /\ at[w] = "return"
    /\ ReturnStep(w)
    /\ UNCHANGED <<running, tasks, at, task, result, notifying, done, stage>>

\* The end of the loop body.
NextRound(w) ==
    /\ at[w] = "return"
    /\ pc[w] = "out"
    /\ at' = [at EXCEPT ![w] = "check"]
    /\ task' = [task EXCEPT ![w] = NoTask]
    /\ UNCHANGED <<running, tasks, result, notifying, done, stage, vars>>

-----------------------------------------------------------------------------
(* The destructor, and after it that of the connection pool.                 *)

StopRunning ==
    /\ stage = "up"
    /\ running' = FALSE
    /\ stage' = "notify"
    /\ UNCHANGED <<tasks, at, task, result, notifying, done, vars>>

WakeWorkers ==
    /\ stage = "notify"
    /\ at' = [w \in Threads |-> IF at[w] = "waiting" THEN "check" ELSE at[w]]
    /\ stage' = "join"
    /\ UNCHANGED <<running, tasks, task, result, notifying, done, vars>>

\* Mutant: a worker that is still at a task is not waited for.
JoinWorkers_Detaches ==
    /\ stage = "join"
    /\ \A w \in Threads : at[w] \in {"borrow", "return", "exited"}
    /\ stage' = "returned"
    /\ UNCHANGED <<running, tasks, at, task, result, notifying, done, vars>>

JoinWorkers ==
    /\ stage = "join"
    /\ \A w \in Threads : at[w] = "exited"
    /\ stage' = "returned"
    /\ UNCHANGED <<running, tasks, at, task, result, notifying, done, vars>>

\* Mutant: the pool is destroyed while the workers are being joined.
DestroyPool_Early ==
    /\ stage = "join" /\ ~destroyed
    /\ destroyed' = TRUE
    /\ idle' = <<>>
    /\ active' = active - Len(idle)
    /\ open' = open \ {idle[i] : i \in 1..Len(idle)}
    /\ broken' = broken \ {idle[i] : i \in 1..Len(idle)}
    /\ UNCHANGED <<running, tasks, at, task, result, notifying, done, stage, pc, held>>

\* main declares mysqlPool before dbWorkers, and resets the latter first.
DestroyPool ==
    /\ stage = "returned"
    /\ Destructor
    /\ UNCHANGED <<running, tasks, at, task, result, notifying, done, stage>>

\* What the MySQL server and the keep-alive timer do.
Environment ==
    /\ (\E c \in Handles : ConnectionLost(c)) \/ KeepAlive
    /\ UNCHANGED <<running, tasks, at, task, result, notifying, done, stage>>

Finished == destroyed /\ UNCHANGED dbVars

-----------------------------------------------------------------------------
WorkerStep(w) == run(w) \/ Borrow(w) \/ Execute(w) \/ Return(w) \/ NextRound(w)

DBNext ==
    \/ \E t \in Tasks : submit(t) \/ submitRefused(t) \/ submitNotify(t)
    \/ \E w \in Threads : WorkerStep(w) \/ WorkerWakes(w)
    \/ StopRunning \/ WakeWorkers \/ JoinWorkers \/ DestroyPool
    \/ Environment \/ Finished

DBSpec == DBInit /\ [][DBNext]_dbVars

\* The steps of borrow() that need neither a notification nor a timeout, and the
\* end of its wait.
BorrowGoesOn(w) ==
    /\ at[w] = "borrow"
    /\ borrow(w) \/ createConnection(w) \/ createFails(w) \/ Recheck(w)
    /\ UNCHANGED <<running, tasks, at, task, result, notifying, done, stage>>
BorrowExpires(w) ==
    /\ at[w] = "borrow"
    /\ WaitExpires(w)
    /\ UNCHANGED <<running, tasks, at, task, result, notifying, done, stage>>

\* Threads that can run do run, a connection attempt and a query end (both have
\* a 5 s timeout) and so does the wait in borrow, after 3 s at the latest, even
\* if it is interrupted again and again.
FairSpec ==
    /\ DBSpec
    /\ \A w \in Threads :
         /\ WF_dbVars(run(w) \/ Execute(w) \/ Return(w) \/ NextRound(w))
         /\ WF_dbVars(BorrowGoesOn(w))
         /\ SF_dbVars(BorrowExpires(w))
    /\ \A t \in Tasks : WF_dbVars(submitNotify(t))
    /\ WF_dbVars(WakeWorkers) /\ WF_dbVars(JoinWorkers)

-----------------------------------------------------------------------------
(* Properties.                                                               *)

\* The destructor returns only when every accepted task was executed, once, and
\* no worker has a connection: its deleter would use a pool that is gone.
Drained ==
    stage = "returned" =>
        /\ \A t \in Tasks : done[t] = IF result[t] = "accepted" THEN 1 ELSE 0
        /\ \A w \in Threads : pc[w] = "out"

\* The workers use the connection pool as ConnectionPool specifies.
UsesPool == Spec

\* Every accepted task is executed, with a connection or without one.
TasksExecuted == \A t \in Tasks : result[t] = "accepted" ~> done[t] = 1

\* The destructor returns: no worker is left asleep.
DestructorReturns == stage = "join" ~> stage = "returned"

\* Nothing that DBWorkerPool has begun is left hanging.
PoolProgress == TasksExecuted /\ DestructorReturns

-----------------------------------------------------------------------------
(* The inductive invariant.                                                  *)

WorkersTypeOK ==
    /\ running \in BOOLEAN
    /\ tasks \in Seq(Tasks)
    /\ at \in [Threads -> {"check", "waiting", "borrow", "return", "exited"}]
    /\ task \in [Threads -> Tasks \cup {NoTask}]
    /\ result \in [Tasks -> {"none", "accepted", "refused"}]
    /\ done \in [Tasks -> {0, 1}]
    /\ stage \in {"up", "notify", "join", "returned"}
    /\ pc \in [Threads -> Stages]

\* The tasks that wait in the queue, and those that a worker has taken and not
\* executed yet.
Queued == {tasks[i] : i \in 1..Len(tasks)}
Begun == {task[w] : w \in {v \in Threads : at[v] = "borrow"}}

\* An accepted task is queued once, or begun by one worker, or executed.
Once ==
    /\ \A i, j \in 1..Len(tasks) : tasks[i] = tasks[j] => i = j
    /\ \A v, w \in Threads : at[v] = "borrow" /\ at[w] = "borrow" /\ task[v] = task[w] => v = w
    /\ Queued \cap Begun = {}
    /\ \A t \in Tasks : done[t] = 1 => t \notin Queued \cup Begun
    /\ \A t \in Tasks : result[t] = "accepted" <=> t \in Queued \cup Begun \/ done[t] = 1
    /\ Begun \subseteq Tasks

\* A worker leaves when there is nothing left to do, and has a connection only
\* while it is at a task.
Leaving ==
    /\ running <=> stage = "up"
    /\ \A w \in Threads : at[w] = "exited" => ~running /\ tasks = <<>>
    /\ stage = "returned" => \A w \in Threads : at[w] = "exited"
    /\ \A w \in Threads : at[w] \notin {"borrow", "return"} => pc[w] = "out"

WorkersInv == WorkersTypeOK /\ Once /\ Leaving

=============================================================================
