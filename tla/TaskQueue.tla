------------------------------ MODULE TaskQueue ------------------------------
(***************************************************************************)
(* What a worker pool promises its callers: a task that was accepted is     *)
(* started in the order of acceptance and executed exactly once; a pool that *)
(* has closed accepts nothing, and it is stopped only when everything it     *)
(* accepted has been executed.                                              *)
(***************************************************************************)
EXTENDS Naturals, Sequences

CONSTANTS
    Tasks,      \* the tasks callers may submit
    Capacity    \* accepted tasks that may wait to be started

VARIABLES
    waiting,    \* accepted tasks not yet started, oldest first
    active,     \* started tasks
    executed,   \* executed tasks
    mode        \* "open", "closed" or "stopped"

vars == <<waiting, active, executed, mode>>

Init ==
    /\ waiting = <<>>
    /\ active = {}
    /\ executed = {}
    /\ mode = "open"

Accept(t) ==
    /\ mode = "open"
    /\ t \notin active \cup executed
    /\ Len(waiting) < Capacity
    /\ waiting' = Append(waiting, t)
    /\ UNCHANGED <<active, executed, mode>>

Start ==
    /\ waiting # <<>>
    /\ active' = active \cup {Head(waiting)}
    /\ waiting' = Tail(waiting)
    /\ UNCHANGED <<executed, mode>>

Finish(t) ==
    /\ t \in active
    /\ active' = active \ {t}
    /\ executed' = executed \cup {t}
    /\ UNCHANGED <<waiting, mode>>

Close ==
    /\ mode = "open"
    /\ mode' = "closed"
    /\ UNCHANGED <<waiting, active, executed>>

Stop ==
    /\ mode = "closed"
    /\ waiting = <<>> /\ active = {}
    /\ mode' = "stopped"
    /\ UNCHANGED <<waiting, active, executed>>

Next ==
    \/ \E t \in Tasks : Accept(t) \/ Finish(t)
    \/ Start \/ Close \/ Stop

Spec == Init /\ [][Next]_vars
=============================================================================
