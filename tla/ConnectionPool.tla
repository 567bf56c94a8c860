--------------------------- MODULE ConnectionPool ---------------------------
(***************************************************************************)
(* MySQLConnectionPool, and RedisConnectionPool, which is the same code but *)
(* for the number of connections it opens at the start and the health check: *)
(* threads borrow a connection, use it alone and give it back through the     *)
(* deleter of a shared_ptr.  A critical section of mutex_ is one step; the     *)
(* connection attempt, the health check, the close and the atomic count are    *)
(* outside of it, and so steps of their own.                                   *)
(*                                                                         *)
(* A connection is named by its handle; a handle can be reused after a close. *)
(***************************************************************************)
EXTENDS Integers, FiniteSets, SequencesExt

CONSTANTS
    Threads,    \* the threads that borrow
    MaxPool,    \* maxPoolSize_
    Warm        \* connections the constructor tries to open (2, or all)

ASSUME MaxPoolAssumption == MaxPool \in Nat
ASSUME WarmAssumption == Warm \in Nat
ASSUME ThreadsAssumption == IsFiniteSet(Threads)

VARIABLES
    idle,       \* idleConns_
    active,     \* activeCount_
    open,       \* handles of the connections that are open
    broken,     \* those of them whose server side is gone
    pc,         \* where each thread stands in borrow() or recycle()
    held,       \* the handle each thread has, or 0
    destroyed   \* the destructor has run

vars == <<idle, active, open, broken, pc, held, destroyed>>

Handles == 1..MaxPool

\* The constructor opens what it can of the warm connections.
Init ==
    /\ \E n \in 0..MaxPool :
         /\ n <= Warm
         /\ idle = [i \in 1..n |-> i]
         /\ active = n
         /\ open = 1..n
    /\ broken = {}
    /\ pc = [t \in Threads |-> "out"]
    /\ held = [t \in Threads |-> 0]
    /\ destroyed = FALSE

Goto(t, where) == pc' = [pc EXCEPT ![t] = where]
Stage(where) == {t \in Threads : pc[t] \in where}

\* idleConns_.front() and pop().
TakeIdle(t) ==
    /\ idle # <<>>
    /\ held' = [held EXCEPT ![t] = Head(idle)]
    /\ idle' = Tail(idle)
    /\ Goto(t, "using")

-----------------------------------------------------------------------------
(* borrow                                                                    *)

\* The first critical section: an idle connection, or a reserved place for a
\* new one, or the wait.
borrow(t) ==
    /\ pc[t] = "out" /\ ~destroyed
    /\ \/ TakeIdle(t) /\ UNCHANGED active
       \/ /\ idle = <<>> /\ active < MaxPool
          /\ active' = active + 1
          /\ Goto(t, "creating")
          /\ UNCHANGED <<idle, held>>
       \/ /\ idle = <<>> /\ active >= MaxPool
          /\ Goto(t, "waiting")
          /\ UNCHANGED <<idle, active, held>>
    /\ UNCHANGED <<open, broken, destroyed>>

\* createConnection, outside of the lock: the server answers, or does not; then
\* the place is given back and the borrower gets nullptr.
createConnection(t) ==
    /\ pc[t] = "creating"
    /\ \E c \in Handles \ open :
         /\ open' = open \cup {c}
         /\ held' = [held EXCEPT ![t] = c]
    /\ Goto(t, "using")
    /\ UNCHANGED <<idle, active, broken, destroyed>>

\* Mutant: the reserved place is not given back.
createFails_KeepsPlace(t) ==
    /\ pc[t] = "creating"
    /\ Goto(t, "null")
    /\ UNCHANGED <<idle, active, open, broken, held, destroyed>>

createFails(t) ==
    /\ pc[t] = "creating"
    /\ active' = active - 1
    /\ Goto(t, "null")
    /\ UNCHANGED <<idle, open, broken, held, destroyed>>

\* wait_for: a wakeup without a notification, and the end of the 3 s (2 s).
SpuriousWakeup(t) ==
    /\ pc[t] = "waiting"
    /\ Goto(t, "woken")
    /\ UNCHANGED <<idle, active, open, broken, held, destroyed>>

WaitExpires(t) ==
    /\ pc[t] = "waiting"
    /\ Goto(t, "expired")
    /\ UNCHANGED <<idle, active, open, broken, held, destroyed>>

\* The thread has the lock again and evaluates the predicate; a wait that has
\* expired over an empty pool ends with nullptr.
Recheck(t) ==
    /\ pc[t] \in {"woken", "expired"}
    /\ \/ TakeIdle(t)
       \/ /\ idle = <<>>
          /\ Goto(t, IF pc[t] = "woken" THEN "waiting" ELSE "null")
          /\ UNCHANGED <<idle, held>>
    /\ UNCHANGED <<active, open, broken, destroyed>>

-----------------------------------------------------------------------------
(* recycle, from the deleter                                                 *)

\* The health check fails: the connection is closed, and then uncounted.
RecycleDead(t) ==
    /\ pc[t] = "using" /\ held[t] \in broken
    /\ open' = open \ {held[t]}
    /\ broken' = broken \ {held[t]}
    /\ held' = [held EXCEPT ![t] = 0]
    /\ Goto(t, "closing")
    /\ UNCHANGED <<idle, active, destroyed>>

Uncount(t) ==
    /\ pc[t] = "closing"
    /\ active' = active - 1
    /\ Goto(t, "out")
    /\ UNCHANGED <<idle, open, broken, held, destroyed>>

\* The health check succeeds; the connection may break before the push.
RecyclePing(t) ==
    /\ pc[t] = "using" /\ held[t] \notin broken
    /\ Goto(t, "healthy")
    /\ UNCHANGED <<idle, active, open, broken, held, destroyed>>

RecyclePush(t) ==
    /\ pc[t] = "healthy"
    /\ idle' = Append(idle, held[t])
    /\ held' = [held EXCEPT ![t] = 0]
    /\ Goto(t, "notify")
    /\ UNCHANGED <<active, open, broken, destroyed>>

\* Mutant: no waiting borrower is told of the connection.
RecycleNotify_Silent(t) ==
    /\ pc[t] = "notify"
    /\ Goto(t, "out")
    /\ UNCHANGED <<idle, active, open, broken, held, destroyed>>

\* notify_one, after the lock is released.
RecycleNotify(t) ==
    /\ pc[t] = "notify"
    /\ IF Stage({"waiting"}) = {}
       THEN Goto(t, "out")
       ELSE \E w \in Stage({"waiting"}) :
              pc' = [pc EXCEPT ![t] = "out", ![w] = "woken"]
    /\ UNCHANGED <<idle, active, open, broken, held, destroyed>>

\* The caller is done with the nullptr it got.
Degraded(t) ==
    /\ pc[t] = "null"
    /\ Goto(t, "out")
    /\ UNCHANGED <<idle, active, open, broken, held, destroyed>>

-----------------------------------------------------------------------------
(* The server, the keep-alive function and the destructor                    *)

ConnectionLost(c) ==
    /\ c \in open \ broken
    /\ broken' = broken \cup {c}
    /\ UNCHANGED <<idle, active, open, pc, held, destroyed>>

\* Where in s the elements are that are not in drop, the sequences that list these
\* places in increasing order (there is one), and what s has there.
Kept(s, drop) == {i \in 1..Len(s) : s[i] \notin drop}
Places(s, drop) ==
    LET n == Cardinality(Kept(s, drop))
    IN  {f \in [1..n -> Kept(s, drop)] : \A i, j \in 1..n : i < j => f[i] < f[j]}
Survivors(s, drop) == {[i \in DOMAIN f |-> s[f[i]]] : f \in Places(s, drop)}

\* The function of makeKeepAliveFunc, one critical section: the connections that
\* have been idle for more than 240 s are pinged and the dead ones destroyed; the
\* others stay, in their order.
KeepAlive ==
    /\ ~destroyed
    /\ \E dead \in (SUBSET (ToSet(idle) \cap broken)) \ {{}} :
         /\ idle' \in Survivors(idle, dead)
         /\ active' = active - Cardinality(dead)
         /\ open' = open \ dead
         /\ broken' = broken \ dead
    /\ UNCHANGED <<pc, held, destroyed>>

\* main destroys the pool after it has joined the threads that borrow from it.
Destructor ==
    /\ ~destroyed
    /\ \A t \in Threads : pc[t] = "out"
    /\ destroyed' = TRUE
    /\ idle' = <<>>
    /\ active' = active - Len(idle)
    /\ open' = open \ ToSet(idle)
    /\ broken' = broken \ ToSet(idle)
    /\ UNCHANGED <<pc, held>>

Terminated == destroyed /\ UNCHANGED vars

-----------------------------------------------------------------------------
BorrowStep(t) ==
    \/ borrow(t) \/ createConnection(t) \/ createFails(t)
    \/ SpuriousWakeup(t) \/ WaitExpires(t) \/ Recheck(t)

ReturnStep(t) ==
    \/ RecycleDead(t) \/ Uncount(t)
    \/ RecyclePing(t) \/ RecyclePush(t) \/ RecycleNotify(t) \/ Degraded(t)

Next ==
    \/ \E t \in Threads : BorrowStep(t) \/ ReturnStep(t)
    \/ \E c \in Handles : ConnectionLost(c)
    \/ KeepAlive \/ Destructor \/ Terminated

Spec == Init /\ [][Next]_vars

-----------------------------------------------------------------------------
(* Properties.                                                               *)

\* activeCount_ is the number of connections that are idle, borrowed, being
\* opened or being closed, although it is changed outside of the lock: the pool
\* neither exceeds its size nor loses a place.
Counted ==
    /\ active <= MaxPool
    /\ active = Len(idle) + Cardinality(Stage({"using", "healthy", "creating", "closing"}))

\* A connection is borrowed by one thread or idle once, never both, and open.
Exclusive ==
    /\ \A i, j \in 1..Len(idle) : idle[i] = idle[j] => i = j
    /\ \A s, t \in Threads : held[s] = held[t] /\ held[s] # 0 => s = t
    /\ \A t \in Threads : held[t] # 0 => held[t] \notin ToSet(idle)
    /\ open = (ToSet(idle) \cup {held[t] : t \in Threads}) \ {0}

\* Every connection of the pool is accounted for, in its place and in its count.
Accounted == Counted /\ Exclusive

\* While threads wait, every idle connection has a thread that was told of it or
\* is about to be told: no connection lies idle over a sleeping borrower.
NoneStranded ==
    Stage({"waiting"}) # {} =>
        Len(idle) <= Cardinality(Stage({"notify", "woken", "expired"}))

-----------------------------------------------------------------------------
(* The inductive invariant.                                                  *)

Stages == {"out", "creating", "waiting", "woken", "expired", "null", "using",
           "healthy", "closing", "notify"}

TypeOK ==
    /\ idle \in Seq(Handles)
    /\ active \in Int
    /\ open \subseteq Handles
    /\ pc \in [Threads -> Stages]
    /\ held \in [Threads -> Handles \cup {0}]
    /\ destroyed \in BOOLEAN

\* A thread has a handle exactly while it uses the connection or is about to
\* push it back.
HoldsHandle == \A t \in Threads : held[t] # 0 <=> pc[t] \in {"using", "healthy"}

IInv == TypeOK /\ HoldsHandle /\ Accounted /\ NoneStranded

=============================================================================
