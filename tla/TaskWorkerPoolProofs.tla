------------------------ MODULE TaskWorkerPoolProofs ------------------------
(***************************************************************************)
(* Proofs about TaskWorkerPool for any number of workers and tasks and any  *)
(* capacity.  IInv says where each accepted task is (Once), that a worker    *)
(* leaves only a closed and empty queue (Leaving) and that somebody looks at  *)
(* a queue that is not empty (SomeoneAwake); together they give Drained, and  *)
(* that the pool implements TaskQueue.                                        *)
(***************************************************************************)
EXTENDS TaskWorkerPool, TLAPS

\* What the elements of the queue are after a push.
LEMMA AppendMembers ==
    ASSUME NEW S, NEW s \in Seq(S), NEW e \in S
    PROVE  /\ Append(s, e) \in Seq(S)
           /\ Len(Append(s, e)) = Len(s) + 1
           /\ \A i \in 1..Len(s) : Append(s, e)[i] = s[i]
           /\ Append(s, e)[Len(s) + 1] = e
  OBVIOUS

\* What the elements of the queue are after its head is taken.
LEMMA TailMembers ==
    ASSUME NEW S, NEW s \in Seq(S), s # <<>>
    PROVE  /\ Tail(s) \in Seq(S)
           /\ Head(s) \in S
           /\ Head(s) = s[1]
           /\ Len(s) \in Nat \ {0}
           /\ Len(Tail(s)) = Len(s) - 1
           /\ \A i \in 1..Len(Tail(s)) : Tail(s)[i] = s[i + 1]
  OBVIOUS

\* The initial state satisfies the inductive invariant.
LEMMA InitIInv == Init => IInv
  BY CapacityAssumption, NoTaskAssumption
  DEF Init, IInv, TypeOK, Once, Leaving, SomeoneAwake, Queued, Held, Running

\* notify_one and notify_all move workers from the wait to the check only.
LEMMA NotifyMoves ==
    ASSUME TypeOK, NotifyOne \/ NotifyAll
    PROVE  /\ pc' \in [Workers -> {"check", "waiting", "running", "exited"}]
           /\ \A w \in Workers :
                pc'[w] = pc[w] \/ (pc[w] = "waiting" /\ pc'[w] = "check")
  BY DEF TypeOK, NotifyOne, NotifyAll, Waiting

\* Every step keeps the types.
LEMMA TypeStep == TypeOK /\ [Next]_vars => TypeOK'
<1> SUFFICES ASSUME TypeOK, [Next]_vars PROVE TypeOK'
  OBVIOUS
<1> USE NoTaskAssumption, CapacityAssumption DEF TypeOK
<1>1. ASSUME NEW t \in Tasks, submit(t) PROVE TypeOK'
  <2>1. tasks' \in Seq(Tasks) /\ Len(tasks') <= Capacity
    BY <1>1, AppendMembers DEF submit, Full
  <2>2. QED
    BY <1>1, <2>1, NotifyMoves DEF submit
<1>2. ASSUME NEW t \in Tasks, submitRefused(t) PROVE TypeOK'
  BY <1>2 DEF submitRefused
<1>3. ASSUME NEW w \in Workers, run(w) PROVE TypeOK'
  <2>1. CASE tasks = <<>>
    BY <1>3, <2>1 DEF run
  <2>2. CASE tasks # <<>>
    <3>1. /\ Tail(tasks) \in Seq(Tasks) /\ Head(tasks) \in Tasks
          /\ Len(tasks) \in Nat \ {0} /\ Len(Tail(tasks)) = Len(tasks) - 1
      BY <2>2, TailMembers
    <3>2. /\ tasks' = Tail(tasks)
          /\ task' = [task EXCEPT ![w] = Head(tasks)]
          /\ pc' = [pc EXCEPT ![w] = "running"]
          /\ UNCHANGED <<accepting, result, done, stage>>
      BY <1>3, <2>2 DEF run
    <3>3. Len(tasks') <= Capacity
      BY <3>1, <3>2
    <3>4. QED
      BY <3>1, <3>2, <3>3
  <2>3. QED
    BY <2>1, <2>2
<1>4. ASSUME NEW w \in Workers, Execute(w) PROVE TypeOK'
  BY <1>4 DEF Execute
<1>5. ASSUME NEW w \in Workers, SpuriousWakeup(w) PROVE TypeOK'
  BY <1>5 DEF SpuriousWakeup
<1>6. CASE StopAccepting
  BY <1>6 DEF StopAccepting
<1>7. CASE WakeWorkers
  BY <1>7, NotifyMoves DEF WakeWorkers
<1>8. CASE JoinWorkers
  BY <1>8 DEF JoinWorkers
<1>9. CASE UNCHANGED vars
  BY <1>9 DEF vars
<1>10. QED
  BY <1>1, <1>2, <1>3, <1>4, <1>5, <1>6, <1>7, <1>8, <1>9 DEF Next, WorkerStep

\* An accepted task enters the queue at one place and is nowhere else.
LEMMA SubmitOnce ==
    ASSUME IInv, NEW t \in Tasks, submit(t) PROVE Once'
<1> USE DEF IInv, TypeOK
<1>1. Running' = Running /\ Held' = Held
  BY NotifyMoves DEF submit, Running, Held
<1>2. t \notin Queued \cup Held
  BY DEF Once, submit
<1>3. /\ Len(tasks') = Len(tasks) + 1
      /\ \A i \in 1..Len(tasks) : tasks'[i] = tasks[i]
      /\ tasks'[Len(tasks) + 1] = t
  BY AppendMembers DEF submit
<1>4. Queued' = Queued \cup {t}
  <2>1. 1..Len(tasks') = 1..Len(tasks) \cup {Len(tasks) + 1}
    BY <1>3
  <2>2. QED
    BY <1>3, <2>1 DEF Queued
<1>5. \A i, j \in 1..Len(tasks') : tasks'[i] = tasks'[j] => i = j
  BY <1>2, <1>3 DEF Once, Queued
<1>6. QED
  BY <1>1, <1>2, <1>4, <1>5 DEF Once, submit

\* The task a worker takes leaves the queue for that worker.
LEMMA TakeOnce ==
    ASSUME IInv, NEW w \in Workers, run(w), tasks # <<>> PROVE Once'
<1> USE DEF IInv, TypeOK
<1> DEFINE h == Head(tasks)
<1>0. /\ tasks' = Tail(tasks)
      /\ task' = [task EXCEPT ![w] = h]
      /\ pc[w] = "check" /\ pc' = [pc EXCEPT ![w] = "running"]
      /\ UNCHANGED <<accepting, result, done, stage>>
  BY DEF run
<1>1. /\ h \in Tasks /\ h = tasks[1]
      /\ Len(tasks) \in Nat \ {0}
      /\ Len(tasks') = Len(tasks) - 1
      /\ \A i \in 1..Len(tasks') : tasks'[i] = tasks[i + 1]
  BY <1>0, TailMembers
<1> HIDE DEF h
<1>2. w \notin Running /\ Running' = Running \cup {w}
  BY <1>0 DEF Running
<1>3. Held' = Held \cup {h}
  <2>1. task'[w] = h /\ \A v \in Running : task'[v] = task[v]
    BY <1>0, <1>2 DEF Running
  <2>2. QED
    BY <1>2, <2>1 DEF Held
<1>4. h \in Queued
  BY <1>1 DEF Queued
<1>5. h \notin Queued'
  BY <1>1 DEF Once, Queued
<1>6. Queued = Queued' \cup {h}
  <2>1. \A i \in 1..Len(tasks) : tasks[i] = h \/ tasks[i] \in Queued'
    <3> SUFFICES ASSUME NEW i \in 1..Len(tasks), tasks[i] # h PROVE tasks[i] \in Queued'
      OBVIOUS
    <3>1. i # 1
      BY <1>1
    <3>2. i - 1 \in 1..Len(tasks') /\ tasks'[i - 1] = tasks[(i - 1) + 1]
      BY <1>1, <3>1
    <3>3. QED
      BY <3>2 DEF Queued
  <2>2. \A i \in 1..Len(tasks') : tasks'[i] \in Queued
    BY <1>1 DEF Queued
  <2>3. Queued \subseteq Queued' \cup {h}
    BY <2>1 DEF Queued
  <2>4. Queued' \subseteq Queued
    BY <2>2 DEF Queued
  <2>5. QED
    BY <1>4, <2>3, <2>4
<1>7. \A i, j \in 1..Len(tasks') : tasks'[i] = tasks'[j] => i = j
  BY <1>1 DEF Once
<1>8. \A v \in Running : task'[v] = task[v] /\ task[v] # h
  BY <1>0, <1>2, <1>4 DEF Once, Held, Running
<1>9. task'[w] = h
  BY <1>0
<1>10. \A u, v \in Running' : task'[u] = task'[v] => u = v
  BY <1>2, <1>8, <1>9 DEF Once
<1>11. Queued' \cap Held' = {}
  BY <1>3, <1>5, <1>6 DEF Once
<1>12. Queued' \cup Held' = Queued \cup Held
  BY <1>3, <1>4, <1>6
<1>13. QED
  BY <1>0, <1>7, <1>10, <1>11, <1>12 DEF Once

\* The task a worker has executed is counted and no longer held.
LEMMA ExecuteOnce ==
    ASSUME IInv, NEW w \in Workers, Execute(w) PROVE Once'
<1> USE DEF IInv, TypeOK
<1>1. w \in Running /\ Running' = Running \ {w} /\ task[w] \in Tasks
  BY NoTaskAssumption DEF Execute, Running
<1>2. task[w] \in Held /\ Held' = Held \ {task[w]}
  BY <1>1 DEF Execute, Held, Running, Once
<1>3. tasks' = tasks /\ Queued' = Queued /\ result' = result
  BY DEF Execute, Queued
<1>4. \A u, v \in Running' : task'[u] = task'[v] => u = v
  BY <1>1 DEF Once, Execute
<1>5. ASSUME NEW t \in Tasks
      PROVE  done'[t] = IF result'[t] = "accepted" /\ t \notin Queued' \cup Held'
                        THEN 1 ELSE 0
  <2>1. CASE t = task[w]
    <3>1. done[t] = 0 /\ t \notin Queued /\ result[t] = "accepted"
      BY <1>2, <2>1 DEF Once
    <3>2. QED
      BY <1>2, <1>3, <2>1, <3>1 DEF Execute
  <2>2. CASE t # task[w]
    BY <1>2, <1>3, <2>2 DEF Execute, Once
  <2>3. QED
    BY <2>1, <2>2
<1>6. QED
  BY <1>2, <1>3, <1>4, <1>5 DEF Once

\* Every step keeps the inductive invariant.
LEMMA IInvStep == IInv /\ [Next]_vars => IInv'
<1> SUFFICES ASSUME IInv, [Next]_vars PROVE IInv'
  OBVIOUS
<1>0. TypeOK'
  BY TypeStep DEF IInv
<1> SUFFICES Once' /\ Leaving' /\ SomeoneAwake'
  BY <1>0 DEF IInv
<1>1. ASSUME NEW t \in Tasks, submit(t) PROVE Once' /\ Leaving' /\ SomeoneAwake'
  <2>1. Once'
    BY <1>1, SubmitOnce
  <2>2. accepting /\ stage = "up" /\ Workers # {}
    BY <1>1 DEF IInv, Leaving, submit, Full
  <2>3. \A w \in Workers : pc[w] # "exited" /\ pc'[w] # "exited"
    BY <1>1, <2>2, NotifyMoves DEF IInv, Leaving, submit
  <2>4. Leaving'
    BY <1>1, <2>2, <2>3 DEF Leaving, submit
  <2>5. \E w \in Workers : pc'[w] \in {"check", "running"}
    <3>1. CASE Waiting = {}
      BY <1>1, <2>2, <2>3, <3>1 DEF submit, NotifyOne, Waiting, IInv, TypeOK
    <3>2. CASE Waiting # {}
      BY <1>1, <3>2 DEF submit, NotifyOne, Waiting, IInv, TypeOK
    <3>3. QED
      BY <3>1, <3>2
  <2>6. QED
    BY <2>1, <2>4, <2>5 DEF SomeoneAwake
<1>2. ASSUME NEW t \in Tasks, submitRefused(t)
      PROVE  Once' /\ Leaving' /\ SomeoneAwake'
  <2>1. Queued' = Queued /\ Held' = Held /\ Running' = Running
    BY <1>2 DEF submitRefused, Queued, Held, Running
  <2>2. QED
    BY <1>2, <2>1 DEF submitRefused, IInv, TypeOK, Once, Leaving, SomeoneAwake
<1>3. ASSUME NEW w \in Workers, run(w) PROVE Once' /\ Leaving' /\ SomeoneAwake'
  <2>1. CASE tasks # <<>>
    <3>1. Once'
      BY <1>3, <2>1, TakeOnce
    <3>2. accepting' = accepting /\ stage' = stage /\ pc' = [pc EXCEPT ![w] = "running"]
      BY <1>3, <2>1 DEF run
    <3>3. Leaving'
      BY <2>1, <3>2 DEF IInv, TypeOK, Leaving
    <3>4. SomeoneAwake'
      BY <3>2 DEF IInv, TypeOK, SomeoneAwake
    <3>5. QED
      BY <3>1, <3>3, <3>4
  <2>2. CASE tasks = <<>>
    <3>1. Queued' = Queued /\ Held' = Held /\ Running' = Running
      BY <1>3, <2>2 DEF run, Queued, Held, Running, IInv, TypeOK
    <3>2. Once'
      BY <1>3, <2>2, <3>1 DEF run, IInv, Once
    <3>3. QED
      BY <1>3, <2>2, <3>2 DEF run, IInv, TypeOK, Leaving, SomeoneAwake
  <2>3. QED
    BY <2>1, <2>2
<1>4. ASSUME NEW w \in Workers, Execute(w) PROVE Once' /\ Leaving' /\ SomeoneAwake'
  <2>1. Once'
    BY <1>4, ExecuteOnce
  <2>2. QED
    BY <1>4, <2>1 DEF Execute, IInv, TypeOK, Leaving, SomeoneAwake
<1>5. ASSUME NEW w \in Workers, SpuriousWakeup(w)
      PROVE  Once' /\ Leaving' /\ SomeoneAwake'
  <2>1. Queued' = Queued /\ Held' = Held /\ Running' = Running
    BY <1>5 DEF SpuriousWakeup, Queued, Held, Running, IInv, TypeOK
  <2>2. QED
    BY <1>5, <2>1 DEF SpuriousWakeup, IInv, TypeOK, Once, Leaving, SomeoneAwake
<1>6. CASE StopAccepting
  <2>1. Queued' = Queued /\ Held' = Held /\ Running' = Running
    BY <1>6 DEF StopAccepting, Queued, Held, Running
  <2>2. QED
    BY <1>6, <2>1 DEF StopAccepting, IInv, TypeOK, Once, Leaving, SomeoneAwake
<1>7. CASE WakeWorkers
  <2>1. NotifyAll
    BY <1>7 DEF WakeWorkers
  <2>2. Queued' = Queued /\ Held' = Held /\ Running' = Running
    BY <1>7, <2>1, NotifyMoves DEF WakeWorkers, Queued, Held, Running, IInv, TypeOK
  <2>3. Once'
    BY <1>7, <2>2 DEF WakeWorkers, IInv, Once
  <2>4. \A w \in Workers :
          pc'[w] = pc[w] \/ (pc[w] = "waiting" /\ pc'[w] = "check")
    BY <2>1, NotifyMoves DEF IInv
  <2>5. QED
    BY <1>7, <2>3, <2>4 DEF WakeWorkers, IInv, Leaving, SomeoneAwake
<1>8. CASE JoinWorkers
  <2>1. Queued' = Queued /\ Held' = Held /\ Running' = Running
    BY <1>8 DEF JoinWorkers, Queued, Held, Running
  <2>2. QED
    BY <1>8, <2>1 DEF JoinWorkers, IInv, TypeOK, Once, Leaving, SomeoneAwake
<1>9. CASE UNCHANGED vars
  <2>1. Queued' = Queued /\ Held' = Held /\ Running' = Running
    BY <1>9 DEF vars, Queued, Held, Running
  <2>2. QED
    BY <1>9, <2>1 DEF vars, IInv, Once, Leaving, SomeoneAwake
<1>10. QED
  BY <1>1, <1>2, <1>3, <1>4, <1>5, <1>6, <1>7, <1>8, <1>9 DEF Next, WorkerStep

\* The inductive invariant holds in every reachable state.
LEMMA InductiveInvariant == Spec => []IInv
  BY InitIInv, IInvStep, PTL DEF Spec

\* The types, and with them the queue bound of TaskWorkerPool.h: concurrent
\* submitters never exceed capacity_.
THEOREM PoolTypes == Spec => []TypeOK
<1>1. IInv => TypeOK
  BY DEF IInv
<1>2. QED
  BY <1>1, InductiveInvariant, PTL

\* No accepted task is lost, queued twice, held by two workers or executed
\* twice, however submitters, workers and shutdown interleave.
THEOREM TasksOnce == Spec => []Once
<1>1. IInv => Once
  BY DEF IInv
<1>2. QED
  BY <1>1, InductiveInvariant, PTL

\* No wakeup is lost: over a queue that is not empty some worker is awake.
THEOREM WorkersAwake == Spec => []SomeoneAwake
<1>1. IInv => SomeoneAwake
  BY DEF IInv
<1>2. QED
  BY <1>1, InductiveInvariant, PTL

\* Once shutdown() has returned, every accepted task has been executed, once.
THEOREM ShutdownDrains == Spec => []Drained
<1>1. IInv => Drained
  <2> SUFFICES ASSUME IInv, stage = "returned", NEW t \in Tasks, result[t] = "accepted"
               PROVE  done[t] = 1
    BY DEF Drained
  <2>1. \A w \in Workers : pc[w] = "exited"
    BY DEF IInv, Leaving
  <2>2. Held = {}
    BY <2>1 DEF Held, Running
  <2>3. Queued = {}
    <3>1. tasks = <<>>
      BY <2>1 DEF IInv, Leaving, SomeoneAwake
    <3>2. QED
      BY <3>1 DEF Queued
  <2>4. QED
    BY <2>2, <2>3 DEF IInv, Once
<1>2. QED
  BY <1>1, InductiveInvariant, PTL

\* The mode of TaskQueue a state of the pool stands for.
Mode == IF accepting THEN "open"
        ELSE IF Workers # {} /\ \A w \in Workers : pc[w] = "exited" THEN "stopped"
        ELSE "closed"
Executed == {t \in Tasks : done[t] > 0}

\* Every step of the pool is a step of TaskQueue, or changes nothing there.
LEMMA StepImplements ==
    IInv /\ [Next]_vars => [Promise!Next]_(Promise!vars)
<1> SUFFICES ASSUME IInv, [Next]_vars
             PROVE  Promise!Next \/ UNCHANGED <<tasks, Held, Executed, Mode>>
  BY DEF Promise!vars, Held, Executed, Mode
<1>1. ASSUME NEW t \in Tasks, submit(t) PROVE Promise!Next
  <2>1. Held' = Held /\ Executed' = Executed
    BY <1>1, NotifyMoves DEF submit, Held, Running, Executed, IInv, TypeOK
  <2>2. Mode = "open" /\ Mode' = "open"
    BY <1>1 DEF submit, Full, Mode
  <2>3. t \notin Held \cup Executed
    BY <1>1 DEF submit, IInv, Once, Executed
  <2>4. Len(tasks) < Capacity /\ tasks' = Append(tasks, t)
    <3>1. Len(tasks) \in Nat /\ ~(Len(tasks) >= Capacity)
      BY <1>1 DEF submit, Full, IInv, TypeOK
    <3>2. QED
      BY <1>1, <3>1, CapacityAssumption DEF submit
  <2>5. Promise!Accept(t)
    BY <2>1, <2>2, <2>3, <2>4 DEF Promise!Accept, Held, Executed, Mode
  <2>6. QED
    BY <2>5 DEF Promise!Next
<1>2. ASSUME NEW t \in Tasks, submitRefused(t)
      PROVE  UNCHANGED <<tasks, Held, Executed, Mode>>
  BY <1>2 DEF submitRefused, Held, Running, Executed, Mode
<1>3. ASSUME NEW w \in Workers, run(w), tasks # <<>> PROVE Promise!Next
  <2>1. /\ tasks' = Tail(tasks)
        /\ task' = [task EXCEPT ![w] = Head(tasks)]
        /\ pc[w] = "check" /\ pc' = [pc EXCEPT ![w] = "running"]
        /\ UNCHANGED <<accepting, result, done, stage>>
    BY <1>3 DEF run
  <2>2. w \notin Running /\ Running' = Running \cup {w}
    BY <2>1 DEF Running, IInv, TypeOK
  <2>3. Held' = Held \cup {Head(tasks)}
    <3>1. task'[w] = Head(tasks) /\ \A v \in Running : task'[v] = task[v]
      BY <2>1, <2>2 DEF Running, IInv, TypeOK
    <3>2. QED
      BY <2>2, <3>1 DEF Held
  <2>4. Mode' = Mode /\ Executed' = Executed
    BY <2>1 DEF Mode, Executed, IInv, TypeOK
  <2>5. Promise!Start
    BY <1>3, <2>1, <2>3, <2>4 DEF Promise!Start, Held, Executed, Mode
  <2>6. QED
    BY <2>5 DEF Promise!Next
<1>4. ASSUME NEW w \in Workers, run(w), tasks = <<>>
      PROVE  Promise!Next \/ UNCHANGED <<tasks, Held, Executed, Mode>>
  <2>1. UNCHANGED <<tasks, task, accepting, done>>
    BY <1>4 DEF run
  <2>2. Running' = Running /\ Held' = Held /\ Executed' = Executed
    BY <1>4, <2>1 DEF run, Running, Held, Executed, IInv, TypeOK
  <2>3. pc[w] = "check" /\ Mode # "stopped"
    BY <1>4 DEF run, Mode
  <2>4. CASE Mode' = "stopped"
    <3>1. Mode = "closed"
      BY <2>1, <2>3, <2>4 DEF Mode
    <3>2. Held = {}
      BY <2>2, <2>4 DEF Mode, Held, Running
    <3>3. Promise!Stop
      BY <1>4, <2>1, <2>2, <2>4, <3>1, <3>2 DEF Promise!Stop, Held, Executed, Mode
    <3>4. QED
      BY <3>3 DEF Promise!Next
  <2>5. CASE Mode' # "stopped"
    BY <2>1, <2>2, <2>3, <2>5 DEF Mode
  <2>6. QED
    BY <2>4, <2>5
<1>5. ASSUME NEW w \in Workers, Execute(w) PROVE Promise!Next
  <2>1. w \in Running /\ Running' = Running \ {w} /\ task[w] \in Tasks
    BY <1>5, NoTaskAssumption DEF Execute, Running, IInv, TypeOK
  <2>2. task[w] \in Held /\ Held' = Held \ {task[w]}
    BY <1>5, <2>1 DEF Execute, Held, Running, IInv, TypeOK, Once
  <2>3. Executed' = Executed \cup {task[w]}
    BY <1>5, <2>1 DEF Execute, Executed, IInv, TypeOK
  <2>4. tasks' = tasks /\ Mode' = Mode
    BY <1>5 DEF Execute, Mode, IInv, TypeOK
  <2>5. PICK t \in Tasks : t = task[w]
    BY <2>1
  <2>6. Promise!Finish(t)
    BY <2>2, <2>3, <2>4, <2>5 DEF Promise!Finish, Held, Executed, Mode
  <2>7. QED
    BY <2>6 DEF Promise!Next
<1>6. ASSUME NEW w \in Workers, SpuriousWakeup(w)
      PROVE  UNCHANGED <<tasks, Held, Executed, Mode>>
  <2>1. Running' = Running
    BY <1>6 DEF SpuriousWakeup, Running, IInv, TypeOK
  <2>2. QED
    BY <1>6, <2>1 DEF SpuriousWakeup, Held, Executed, Mode, IInv, TypeOK
<1>7. CASE StopAccepting
  <2>1. Held' = Held /\ Executed' = Executed /\ tasks' = tasks
    BY <1>7 DEF StopAccepting, Held, Running, Executed
  <2>2. CASE accepting
    <3>1. Mode = "open" /\ Mode' = "closed"
      BY <1>7, <2>2 DEF StopAccepting, Mode, IInv, Leaving
    <3>2. Promise!Close
      BY <2>1, <3>1 DEF Promise!Close, Held, Executed, Mode
    <3>3. QED
      BY <3>2 DEF Promise!Next
  <2>3. CASE ~accepting
    BY <1>7, <2>1, <2>3 DEF StopAccepting, Mode
  <2>4. QED
    BY <2>2, <2>3
<1>8. CASE WakeWorkers
  <2>1. \A w \in Workers :
          pc'[w] = pc[w] \/ (pc[w] = "waiting" /\ pc'[w] = "check")
    BY <1>8, NotifyMoves DEF WakeWorkers, IInv
  <2>2. Running' = Running
    BY <2>1 DEF Running
  <2>3. QED
    BY <1>8, <2>1, <2>2 DEF WakeWorkers, Held, Executed, Mode
<1>9. CASE JoinWorkers
  BY <1>9 DEF JoinWorkers, Held, Running, Executed, Mode
<1>10. CASE UNCHANGED vars
  BY <1>10 DEF vars, Held, Running, Executed, Mode
<1>11. QED
  BY <1>1, <1>2, <1>3, <1>4, <1>5, <1>6, <1>7, <1>8, <1>9, <1>10
  DEF Next, WorkerStep

\* The pool keeps the promise TaskQueue states: FIFO start, exactly one
\* execution of what was accepted, nothing accepted after the close.
THEOREM PoolImplements == Spec => KeepsPromise
<1>1. Init => Promise!Init
  BY DEF Init, Promise!Init, Running
<1>2. QED
  BY <1>1, InductiveInvariant, StepImplements, PTL
  DEF Spec, KeepsPromise, Promise!Spec
=============================================================================
