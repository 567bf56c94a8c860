------------------------------ MODULE EventLoop ------------------------------
(***************************************************************************)
(* One sub-reactor: an EventLoop, the EventLoopThread that owns it and the *)
(* threads that post functors to it.  The loop thread blocks in epoll_wait *)
(* and is woken through an eventfd; pendingFunctors_ is shared under a     *)
(* mutex, quit_ and callingPendingFunctors_ are atomics.  A step is what a *)
(* thread does between two accesses to shared state.                        *)
(*                                                                         *)
(* A functor is named by the thread that posts it and a serial number.     *)
(***************************************************************************)
EXTENDS Naturals, Sequences

CONSTANTS
    Threads,    \* threads other than the loop thread that post functors
    Loop,       \* the loop thread, which may post to itself
    MaxPosts    \* bound: functors one thread posts

ASSUME LoopAssumption == Loop \notin Threads
ASSUME MaxPostsAssumption == MaxPosts \in Nat

VARIABLES
    phase,      \* where the loop thread stands
    quit,       \* quit_
    calling,    \* callingPendingFunctors_
    pending,    \* pendingFunctors_
    batch,      \* the local vector of doPendingFunctors
    readable,   \* the counter of wakeupFd_ is not zero
    reported,   \* the wakeup channel is among the activeChannels_ to handle
    waking,     \* threads between their push and their wakeup()
    posted,     \* how many functors each thread has posted
    done,       \* the functors executed so far, in order
    owner       \* where the owner of the EventLoopThread stands

vars == <<phase, quit, calling, pending, batch, readable, reported, waking,
          posted, done, owner>>

Posters == Threads \cup {Loop}
Functors == Posters \X Nat

\* "unborn": the thread has not published its loop; "created": it has, and is
\* about to enter loop(); "check" .. "run" are the positions in loop() and
\* doPendingFunctors; "exited": loop() has returned.
Phases == {"unborn", "created", "check", "poll", "events", "swap", "run", "exited"}
OwnerStages == {"waiting", "using", "waking", "joining", "joined"}

Init ==
    /\ phase = "unborn"
    /\ quit = FALSE
    /\ calling = FALSE
    /\ pending = <<>>
    /\ batch = <<>>
    /\ readable = FALSE
    /\ reported = FALSE
    /\ waking = {}
    /\ posted = [p \in Posters |-> 0]
    /\ done = <<>>
    /\ owner = "waiting"

-----------------------------------------------------------------------------
(* Posting.                                                                  *)

\* Mutant: the newest functor is put in front.
Push_Front(p) ==
    /\ posted[p] < MaxPosts
    /\ posted' = [posted EXCEPT ![p] = @ + 1]
    /\ pending' = <<<<p, posted[p] + 1>>>> \o pending

\* pendingFunctors_.emplace_back under the mutex.
Push(p) ==
    /\ posted[p] < MaxPosts
    /\ posted' = [posted EXCEPT ![p] = @ + 1]
    /\ pending' = Append(pending, <<p, posted[p] + 1>>)

\* queueInLoop (and runInLoop) from another thread: push, unlock, then wakeup.
\* The other threads learn of the loop from startLoop; the EventLoop is a local
\* variable of threadFunc, so that there is nothing to post to after its exit.
queueInLoop(p) ==
    /\ owner # "waiting"
    /\ phase # "exited"
    /\ p \notin waking
    /\ Push(p)
    /\ waking' = waking \cup {p}
    /\ UNCHANGED <<phase, quit, calling, batch, readable, reported, done, owner>>

wakeup(p) ==
    /\ p \in waking
    /\ waking' = waking \ {p}
    /\ readable' = TRUE
    /\ UNCHANGED <<phase, quit, calling, pending, batch, reported, posted, done, owner>>

\* Mutant: the loop thread never wakes itself.
queueFromLoop_NoWakeup ==
    /\ phase = "events" \/ (phase = "run" /\ batch # <<>>)
    /\ Push(Loop)
    /\ UNCHANGED <<phase, quit, calling, batch, readable, reported, waking, done, owner>>

\* queueInLoop from the loop thread itself: from a channel's handler, or from
\* a functor; only the latter wakes the loop.
queueFromLoop ==
    /\ phase = "events" \/ (phase = "run" /\ batch # <<>>)
    /\ Push(Loop)
    /\ readable' = (readable \/ calling)
    /\ UNCHANGED <<phase, quit, calling, batch, reported, waking, done, owner>>

-----------------------------------------------------------------------------
(* EventLoopThread.                                                          *)

\* threadFunc: the EventLoop is constructed and loop_ published.
Publish ==
    /\ phase = "unborn"
    /\ phase' = "created"
    /\ UNCHANGED <<quit, calling, pending, batch, readable, reported, waking, posted, done, owner>>

\* startLoop returns once loop_ is not null.
startLoop ==
    /\ owner = "waiting"
    /\ phase # "unborn"
    /\ owner' = "using"
    /\ UNCHANGED <<phase, quit, calling, pending, batch, readable, reported, waking, posted, done>>

\* ~EventLoopThread calls quit(): the flag first, then the wakeup, then join.
quitLoop ==
    /\ owner = "using"
    /\ owner' = "waking"
    /\ quit' = TRUE
    /\ UNCHANGED <<phase, calling, pending, batch, readable, reported, waking, posted, done>>

\* Mutant: quit() does not wake the loop up.
wakeForQuit_Silent ==
    /\ owner = "waking"
    /\ owner' = "joining"
    /\ UNCHANGED <<phase, quit, calling, pending, batch, readable, reported, waking, posted, done>>

wakeForQuit ==
    /\ owner = "waking"
    /\ owner' = "joining"
    /\ readable' = TRUE
    /\ UNCHANGED <<phase, quit, calling, pending, batch, reported, waking, posted, done>>

join ==
    /\ owner = "joining"
    /\ phase = "exited"
    /\ owner' = "joined"
    /\ UNCHANGED <<phase, quit, calling, pending, batch, readable, reported, waking, posted, done>>

-----------------------------------------------------------------------------
(* EventLoop::loop.                                                          *)

\* loop() starts by clearing quit_, whatever it was.
loop ==
    /\ phase = "created"
    /\ quit' = FALSE
    /\ phase' = "check"
    /\ UNCHANGED <<calling, pending, batch, readable, reported, waking, posted, done, owner>>

\* while (!quit_)
Check ==
    /\ phase = "check"
    /\ phase' = IF quit THEN "exited" ELSE "poll"
    /\ UNCHANGED <<quit, calling, pending, batch, readable, reported, waking, posted, done, owner>>

\* epoll_wait returns because the eventfd is readable.
PollWoken ==
    /\ phase = "poll"
    /\ readable
    /\ phase' = "events"
    /\ reported' = TRUE
    /\ UNCHANGED <<quit, calling, pending, batch, readable, waking, posted, done, owner>>

\* epoll_wait returns for another channel, a signal or the 10 s timeout.
PollOther ==
    /\ phase = "poll"
    /\ ~readable
    /\ phase' = "events"
    /\ UNCHANGED <<quit, calling, pending, batch, readable, reported, waking, posted, done, owner>>

\* The wakeup channel's handler drains the eventfd.
handleRead ==
    /\ phase = "events"
    /\ reported
    /\ reported' = FALSE
    /\ readable' = FALSE
    /\ UNCHANGED <<phase, quit, calling, pending, batch, waking, posted, done, owner>>

\* The active channels are handled: doPendingFunctors raises its flag.
BeginFunctors ==
    /\ phase = "events"
    /\ ~reported
    /\ calling' = TRUE
    /\ phase' = "swap"
    /\ UNCHANGED <<quit, pending, batch, readable, reported, waking, posted, done, owner>>

\* functors.swap(pendingFunctors_) under the mutex.
Swap ==
    /\ phase = "swap"
    /\ batch' = pending
    /\ pending' = <<>>
    /\ phase' = "run"
    /\ UNCHANGED <<quit, calling, readable, reported, waking, posted, done, owner>>

RunFunctor ==
    /\ phase = "run"
    /\ batch # <<>>
    /\ done' = Append(done, Head(batch))
    /\ batch' = Tail(batch)
    /\ UNCHANGED <<phase, quit, calling, pending, readable, reported, waking, posted, owner>>

\* All functors have run: the flag is lowered and the iteration ends.
EndFunctors ==
    /\ phase = "run"
    /\ batch = <<>>
    /\ calling' = FALSE
    /\ phase' = "check"
    /\ UNCHANGED <<quit, pending, batch, readable, reported, waking, posted, done, owner>>

-----------------------------------------------------------------------------
\* What the loop thread does on its own; PollOther depends on the environment.
LoopStep ==
    \/ Publish \/ loop \/ Check \/ PollWoken \/ handleRead
    \/ BeginFunctors \/ Swap \/ RunFunctor \/ EndFunctors

OwnerStep == startLoop \/ wakeForQuit \/ join

\* The thread was joined: nothing is left to do.
Finished == owner = "joined" /\ UNCHANGED vars

Next ==
    \/ LoopStep \/ PollOther \/ queueFromLoop
    \/ OwnerStep \/ quitLoop \/ Finished
    \/ \E p \in Threads : queueInLoop(p) \/ wakeup(p)

Spec == Init /\ [][Next]_vars

\* Threads that can run do run.  Nothing makes the environment produce an event,
\* and the 10 s poll timeout is not relied upon.
FairSpec ==
    /\ Spec
    /\ WF_vars(LoopStep)
    /\ WF_vars(OwnerStep)
    /\ \A p \in Threads : WF_vars(wakeup(p))

-----------------------------------------------------------------------------
(* Properties.                                                               *)

\* Types; callingPendingFunctors_ is up, functors are in the local vector and
\* the wakeup channel waits for its handler only in the phases that own them.
TypeOK ==
    /\ phase \in Phases
    /\ quit \in BOOLEAN
    /\ calling \in BOOLEAN
    /\ pending \in Seq(Functors)
    /\ batch \in Seq(Functors)
    /\ readable \in BOOLEAN
    /\ reported \in BOOLEAN
    /\ waking \subseteq Threads
    /\ posted \in [Posters -> Nat]
    /\ done \in Seq(Functors)
    /\ owner \in OwnerStages
    /\ calling <=> phase \in {"swap", "run"}
    /\ batch # <<>> => phase = "run"
    /\ reported => phase = "events"

\* A wakeup of the loop is under way or has arrived.
WakeupComing == readable \/ waking # {}

\* The loop never blocks in epoll_wait over a non-empty queue without a wakeup
\* in sight: eventfd, the flag callingPendingFunctors_ and the swap together
\* lose no wakeup, whoever posts and whenever.
NoLostWakeup == phase = "poll" /\ pending # <<>> => WakeupComing

\* NoLostWakeup, made inductive: except between the return of epoll_wait and
\* the swap, what is queued has been announced, by a thread on its way to
\* wakeup() or by the eventfd.
Announced ==
    phase \notin {"events", "swap", "exited"} /\ pending # <<>> => WakeupComing

\* All functors in the order in which they were or will be executed.
Issued == done \o batch \o pending

\* What was executed, is in the running batch or is queued is what was posted,
\* each functor once and those of one thread in the order in which it posted
\* them: nothing is lost, executed twice or overtaken.
ExecutedInOrder ==
    /\ \A i \in 1..Len(Issued) : Issued[i][2] \in 1..posted[Issued[i][1]]
    /\ \A p \in Posters : \A n \in 1..posted[p] : \E i \in 1..Len(Issued) : Issued[i] = <<p, n>>
    /\ \A i, j \in 1..Len(Issued) :
         i < j /\ Issued[i][1] = Issued[j][1] => Issued[i][2] < Issued[j][2]

\* A functor posted by p and not yet executed.
Outstanding(p) == \E i \in 1..Len(batch \o pending) : (batch \o pending)[i][1] = p

\* Every posted functor is executed, unless the loop is told to quit.
FunctorsRun == \A p \in Posters : Outstanding(p) ~> (~Outstanding(p) \/ quit)

\* A loop that has entered loop() and is then told to quit leaves it, wherever
\* it was, so that the join of ~EventLoopThread ends.
QuitJoins ==
    owner = "joining" /\ quit /\ phase # "created" ~> owner = "joined"

\* Neither the posted functors nor the owner of a loop that quits wait for ever:
\* a loop asleep in epoll_wait is woken for both.
LoopProgress == FunctorsRun /\ QuitJoins

=============================================================================
