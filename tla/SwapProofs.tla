------------------------------ MODULE SwapProofs ------------------------------
(***************************************************************************)
(* The two threads that take a whole queue under a lock and work on it      *)
(* outside: an event loop, which swaps its pending functors, and the        *)
(* logging thread, which swaps the filled buffers.                          *)
(*                                                                         *)
(* No wakeup of an event loop is lost, and no functor is lost, repeated or *)
(* overtaken, for any number of threads that post to it.  The invariant    *)
(* for the wakeups has to speak of the whole time between the swap and the *)
(* next epoll_wait, not only of the blocked loop: Announced.               *)
(*                                                                         *)
(* No line of the log is lost, repeated or overtaken, and the logging       *)
(* thread never runs out of buffers.  The invariant has to say where a       *)
(* missing spare buffer went (Spares), and that the lines in the buffers go *)
(* on exactly where those that the file was handed end (Consecutive).       *)
(***************************************************************************)
EXTENDS EventLoop, AsyncLogging, SequenceTheorems, TLAPS

EInv == TypeOK /\ Announced

\* The initial state satisfies the invariant.
LEMMA InitEInv == Init => EInv
<1> SUFFICES ASSUME Init PROVE EInv
  OBVIOUS
<1>1. posted \in [Posters -> Nat]
  BY DEF Init
<1>2. /\ pending \in Seq(Functors)
      /\ batch \in Seq(Functors)
      /\ done \in Seq(Functors)
  BY DEF Init
<1>3. Announced
  BY DEF Init, Announced
<1> QED
  BY <1>1, <1>2, <1>3 DEF Init, EInv, TypeOK, Phases, OwnerStages

\* A push appends a functor of the thread that posts.
LEMMA PushTypes ==
  ASSUME TypeOK, NEW p \in Posters, Push(p)
  PROVE  /\ pending' \in Seq(Functors)
         /\ posted' \in [Posters -> Nat]
<1>1. posted[p] \in Nat /\ <<p, posted[p] + 1>> \in Functors
  BY DEF TypeOK, Functors
<1>2. pending' \in Seq(Functors)
  BY <1>1 DEF Push, TypeOK
<1> QED
  BY <1>1, <1>2 DEF Push, TypeOK

\* Every step of the loop thread, of its owner and of the posting threads keeps
\* the invariant.
LEMMA EInvStep == EInv /\ [Next]_vars => EInv'
<1> SUFFICES ASSUME EInv, [Next]_vars PROVE EInv'
  OBVIOUS
<1> USE DEF EInv, TypeOK, Announced, WakeupComing, Phases, OwnerStages
<1>1. CASE Publish
  BY <1>1 DEF Publish
<1>2. CASE loop
  BY <1>2 DEF loop
<1>3. CASE Check
  BY <1>3 DEF Check
<1>4. CASE PollWoken
  BY <1>4 DEF PollWoken
<1>5. CASE PollOther
  BY <1>5 DEF PollOther
<1>6. CASE handleRead
  BY <1>6 DEF handleRead
<1>7. CASE BeginFunctors
  BY <1>7 DEF BeginFunctors
<1>8. CASE Swap
  BY <1>8 DEF Swap
<1>9. CASE RunFunctor
  <2>1. Head(batch) \in Functors /\ Tail(batch) \in Seq(Functors)
    BY <1>9 DEF RunFunctor
  <2> QED
    BY <1>9, <2>1 DEF RunFunctor
<1>10. CASE EndFunctors
  BY <1>10 DEF EndFunctors
<1>11. CASE queueFromLoop
  <2>1. pending' \in Seq(Functors) /\ posted' \in [Posters -> Nat]
    BY <1>11, PushTypes DEF queueFromLoop, Posters
  <2> QED
    BY <1>11, <2>1 DEF queueFromLoop
<1>12. ASSUME NEW p \in Threads, queueInLoop(p) PROVE EInv'
  <2>1. pending' \in Seq(Functors) /\ posted' \in [Posters -> Nat]
    BY <1>12, PushTypes DEF queueInLoop, Posters
  <2> QED
    BY <1>12, <2>1 DEF queueInLoop
<1>13. ASSUME NEW p \in Threads, wakeup(p) PROVE EInv'
  BY <1>13 DEF wakeup
<1>14. CASE startLoop
  BY <1>14 DEF startLoop
<1>15. CASE quitLoop
  BY <1>15 DEF quitLoop
<1>16. CASE wakeForQuit
  BY <1>16 DEF wakeForQuit
<1>17. CASE join
  BY <1>17 DEF join
<1>18. CASE UNCHANGED vars
  BY <1>18 DEF vars
<1> QED
  BY <1>1, <1>2, <1>3, <1>4, <1>5, <1>6, <1>7, <1>8, <1>9, <1>10, <1>11, <1>12,
     <1>13, <1>14, <1>15, <1>16, <1>17, <1>18
  DEF Next, LoopStep, OwnerStep, Finished

\* Type correctness of the event loop and its owner.
THEOREM EventLoopTypes == Spec => []TypeOK
<1>1. EInv => TypeOK
  BY DEF EInv
<1> QED
  BY InitEInv, EInvStep, <1>1, PTL DEF Spec

\* EventLoop never blocks in epoll_wait over functors nobody will wake it for.
THEOREM WakeupsNotLost == Spec => []NoLostWakeup
<1>1. EInv => NoLostWakeup
  BY DEF EInv, Announced, NoLostWakeup
<1> QED
  BY InitEInv, EInvStep, <1>1, PTL DEF Spec

\* The swap and the running of a functor move functors along and leave the order as it
\* is; a push puts the next functor of its thread at the end.
LEMMA IssuedMoves ==
  ASSUME TypeOK, [Next]_vars
  PROVE  \/ Issued' = Issued /\ posted' = posted
         \/ \E p \in Posters : /\ posted' = [posted EXCEPT ![p] = @ + 1]
                               /\ Issued' = Append(Issued, <<p, posted[p] + 1>>)
<1>1. /\ done \in Seq(Functors) /\ batch \in Seq(Functors) /\ pending \in Seq(Functors)
      /\ done \o batch \in Seq(Functors)
  <2>1. done \in Seq(Functors) /\ batch \in Seq(Functors) /\ pending \in Seq(Functors)
    BY DEF TypeOK
  <2> QED
    BY <2>1, ConcatProperties
<1>2. ASSUME NEW p \in Posters, Push(p), done' = done, batch' = batch
      PROVE  /\ posted' = [posted EXCEPT ![p] = @ + 1]
             /\ Issued' = Append(Issued, <<p, posted[p] + 1>>)
  <2> DEFINE f == <<p, posted[p] + 1>>
             d == done \o batch
  <2>1. f \in Functors
    BY DEF TypeOK, Functors
  <2>2. posted' = [posted EXCEPT ![p] = @ + 1] /\ pending' = Append(pending, f)
    BY <1>2 DEF Push
  <2>3. Issued' = d \o Append(pending, f)
    BY <1>2, <2>2 DEF Issued
  <2> HIDE DEF f, d
  <2>4. <<f>> \in Seq(Functors) /\ d \in Seq(Functors)
    BY <1>1, <2>1 DEF d
  <2>5. Append(pending, f) = pending \o <<f>>
    BY <1>1, <2>1, AppendIsConcat
  <2>6. d \o (pending \o <<f>>) = (d \o pending) \o <<f>>
    BY <1>1, <2>4, ConcatAssociative
  <2>7. d \o pending \in Seq(Functors)
    BY <1>1, <2>4, ConcatProperties
  <2>8. (d \o pending) \o <<f>> = Append(d \o pending, f)
    BY <2>1, <2>7, AppendIsConcat
  <2>9. Issued = d \o pending
    BY DEF Issued, d
  <2> QED
    BY <2>2, <2>3, <2>5, <2>6, <2>8, <2>9 DEF f
<1>3. CASE Swap
  <2>1. batch = <<>> /\ batch' = pending /\ pending' = <<>> /\ done' = done /\ posted' = posted
    BY <1>3 DEF Swap, TypeOK
  <2>2. done \o <<>> = done /\ (done \o pending) \o <<>> = done \o pending
    BY <1>1, ConcatProperties, ConcatEmptySeq
  <2> QED
    BY <2>1, <2>2 DEF Issued
<1>4. CASE RunFunctor
  <2> DEFINE h == Head(batch)
             t == Tail(batch)
  <2>1. /\ done' = Append(done, h) /\ batch' = t /\ pending' = pending /\ posted' = posted
        /\ batch # <<>>
    BY <1>4 DEF RunFunctor
  <2>2. h \in Functors /\ t \in Seq(Functors) /\ batch = <<h>> \o t
    <3>1. h \in Functors /\ t \in Seq(Functors) /\ Len(t) = Len(batch) - 1
          /\ \A i \in 1..Len(t) : t[i] = batch[i + 1]
      BY <1>1, <2>1, HeadTailProperties
    <3>2. h = batch[1] /\ Len(batch) \in Nat \ {0}
      BY <1>1, <2>1, EmptySeq
    <3> HIDE DEF h, t
    <3>3. /\ <<h>> \in Seq(Functors) /\ Len(<<h>>) = 1 /\ <<h>>[1] = h
      BY <3>1
    <3>4. /\ <<h>> \o t \in Seq(Functors) /\ Len(<<h>> \o t) = Len(batch)
          /\ \A i \in 1..Len(batch) : (<<h>> \o t)[i] = IF i <= 1 THEN <<h>>[i] ELSE t[i - 1]
      BY <3>1, <3>2, <3>3, ConcatProperties
    <3>5. \A i \in 1..Len(batch) : (<<h>> \o t)[i] = batch[i]
      BY <3>1, <3>2, <3>3, <3>4
    <3>6. batch = <<h>> \o t
      BY <1>1, <3>4, <3>5, SeqEqual
    <3> QED
      BY <3>1, <3>6
  <2> HIDE DEF h, t
  <2>3. <<h>> \in Seq(Functors)
    BY <2>2
  <2>4. Append(done, h) \o t = done \o batch
    <3>1. Append(done, h) = done \o <<h>>
      BY <1>1, <2>2, AppendIsConcat
    <3>2. (done \o <<h>>) \o t = done \o (<<h>> \o t)
      BY <1>1, <2>2, <2>3, ConcatAssociative
    <3> QED
      BY <2>2, <3>1, <3>2
  <2> QED
    BY <2>1, <2>4 DEF Issued
<1>5. CASE queueFromLoop
  BY <1>2, <1>5 DEF queueFromLoop, Posters
<1>6. ASSUME NEW p \in Threads, queueInLoop(p)
      PROVE  \E q \in Posters : /\ posted' = [posted EXCEPT ![q] = @ + 1]
                                /\ Issued' = Append(Issued, <<q, posted[q] + 1>>)
  BY <1>2, <1>6 DEF queueInLoop, Posters
<1>7. CASE /\ UNCHANGED <<done, batch, pending, posted>>
  BY <1>7 DEF Issued
<1> QED
  BY <1>3, <1>4, <1>5, <1>6, <1>7
  DEF Next, LoopStep, OwnerStep, Finished, vars, Publish, loop, Check, PollWoken, PollOther,
      handleRead, BeginFunctors, EndFunctors, wakeup, startLoop, quitLoop, wakeForQuit, join

\* A functor with the next number of its thread may come last.
LEMMA NextLast ==
  ASSUME NEW s \in Seq(Functors), s = Issued, posted \in [Posters -> Nat], ExecutedInOrder,
         NEW p \in Posters, posted' = [posted EXCEPT ![p] = @ + 1],
         Issued' = Append(s, <<p, posted[p] + 1>>)
  PROVE  ExecutedInOrder'
<1> DEFINE n == Len(s)
           t == Issued'
           x == posted[p] + 1
<1>1. /\ n \in Nat /\ x \in Nat /\ Len(t) = n + 1 /\ t[n + 1] = <<p, x>>
      /\ \A i \in 1..n : t[i] = s[i] /\ s[i][1] \in Posters /\ s[i][2] \in Nat
  <2>1. posted[p] \in Nat /\ <<p, x>> \in Functors
    BY DEF Functors
  <2>2. \A i \in 1..n : s[i] \in Functors
    BY ElementOfSeq
  <2>3. \A i \in 1..n : s[i][1] \in Posters /\ s[i][2] \in Nat
    BY <2>2 DEF Functors
  <2>4. n \in Nat /\ x \in Nat
    BY <2>1
  <2> HIDE DEF x, n
  <2>5. Len(t) = Len(s) + 1 /\ (\A i \in 1..Len(s) : t[i] = s[i]) /\ t[Len(s) + 1] = <<p, x>>
    BY <2>1, AppendProperties DEF x
  <2> QED
    BY <2>3, <2>4, <2>5 DEF n
<1>2. \A q \in Posters : posted'[q] = IF q = p THEN x ELSE posted[q]
  OBVIOUS
<1>3. \A q \in Posters : posted[q] \in Nat
  OBVIOUS
<1>4. x = posted[p] + 1
  OBVIOUS
<1>5. /\ \A i \in 1..n : s[i][2] \in 1..posted[s[i][1]]
      /\ \A q \in Posters : \A k \in 1..posted[q] : \E i \in 1..n : s[i] = <<q, k>>
      /\ \A i, j \in 1..n : i < j /\ s[i][1] = s[j][1] => s[i][2] < s[j][2]
  BY DEF ExecutedInOrder
<1> HIDE DEF n, t, x
<1>6. ASSUME NEW i \in 1..Len(t) PROVE t[i][2] \in 1..posted'[t[i][1]]
  <2>1. CASE i = n + 1
    BY <1>1, <1>2, <1>3, <1>4, <2>1
  <2>2. CASE i \in 1..n
    <3>1. t[i] = s[i] /\ s[i][1] \in Posters /\ s[i][2] \in 1..posted[s[i][1]]
      BY <1>1, <1>5, <2>2
    <3>2. posted[s[i][1]] \in Nat /\ posted'[s[i][1]] \in Nat
          /\ posted[s[i][1]] <= posted'[s[i][1]]
      BY <1>1, <1>2, <1>3, <1>4, <3>1
    <3> QED
      BY <3>1, <3>2
  <2> QED
    BY <1>1, <2>1, <2>2
<1>7. ASSUME NEW q \in Posters, NEW k \in 1..posted'[q]
      PROVE  \E i \in 1..Len(t) : t[i] = <<q, k>>
  <2>1. CASE q = p /\ k = x
    <3>1. n + 1 \in 1..Len(t) /\ t[n + 1] = <<q, k>>
      BY <1>1, <2>1
    <3> QED
      BY <3>1, Zenon
  <2>2. CASE ~(q = p /\ k = x)
    <3>1. k \in 1..posted[q]
      BY <1>2, <1>3, <1>4, <2>2
    <3>2. PICK i \in 1..n : s[i] = <<q, k>>
      BY <1>5, <3>1
    <3>3. i \in 1..Len(t) /\ t[i] = <<q, k>>
      BY <1>1, <3>2
    <3> QED
      BY <3>3, Zenon
  <2> QED
    BY <2>1, <2>2
<1>8. ASSUME NEW i \in 1..Len(t), NEW j \in 1..Len(t), i < j, t[i][1] = t[j][1]
      PROVE  t[i][2] < t[j][2]
  <2>1. i \in 1..n
    BY <1>1, <1>8
  <2>2. CASE j = n + 1
    BY <1>1, <1>3, <1>4, <1>5, <1>8, <2>1, <2>2
  <2>3. CASE j \in 1..n
    BY <1>1, <1>5, <1>8, <2>1, <2>3
  <2> QED
    BY <1>1, <2>2, <2>3
<1> QED
  BY <1>6, <1>7, <1>8 DEF ExecutedInOrder, t

\* doPendingFunctors, the swap under the mutex and queueInLoop together execute every
\* functor at most once and those of one thread in the order in which it posted them;
\* what is not yet executed is in the batch or queued.
THEOREM FunctorsInOrder == Spec => []ExecutedInOrder
<1> DEFINE QInv == EInv /\ ExecutedInOrder
<1>1. Init => ExecutedInOrder
  <2> SUFFICES ASSUME Init PROVE ExecutedInOrder
    OBVIOUS
  <2>1. Issued = <<>> /\ \A p \in Posters : posted[p] = 0
    BY DEF Init, Issued
  <2> QED
    BY <2>1 DEF ExecutedInOrder
<1>2. QInv /\ [Next]_vars => ExecutedInOrder'
  <2> SUFFICES ASSUME EInv, ExecutedInOrder, [Next]_vars PROVE ExecutedInOrder'
    OBVIOUS
  <2>1. TypeOK
    BY DEF EInv
  <2>2. CASE Issued' = Issued /\ posted' = posted
    BY <2>2 DEF ExecutedInOrder
  <2>3. ASSUME NEW p \in Posters, posted' = [posted EXCEPT ![p] = @ + 1],
               Issued' = Append(Issued, <<p, posted[p] + 1>>)
        PROVE  ExecutedInOrder'
    <3>1. Issued \in Seq(Functors) /\ posted \in [Posters -> Nat]
      BY <2>1, ConcatProperties DEF TypeOK, Issued
    <3> QED
      BY <2>3, <3>1, NextLast
  <2> QED
    BY <2>1, <2>2, <2>3, IssuedMoves
<1> QED
  BY InitEInv, EInvStep, <1>1, <1>2, PTL DEF Spec

-----------------------------------------------------------------------------
(* The logging thread: lines, the log file, and the buffers.                 *)

Line == [n : Nat, len : Nat]

\* The numbers of a sequence of lines rise.
Rising(lines) == \A i, j \in DOMAIN lines : i < j => lines[i].n < lines[j].n

\* Every number of the first set is lower than those of the second.
Lower(S, T) == \A a \in S, b \in T : a < b

\* What the log file was handed: it is in the file, in the buffer of stdio or lost.
Whole(o) == o.disk \o o.stdio
Handed(o) == Numbers(Whole(o)) \cup o.lost

\* The LogFile has its fields; those that hold lines have their types.
FileShape(o) ==
    /\ o = [disk |-> o.disk, stdio |-> o.stdio, lost |-> o.lost, bytes |-> o.bytes,
            count |-> o.count, lastRoll |-> o.lastRoll, lastFlush |-> o.lastFlush,
            period |-> o.period]
    /\ o.disk \in Seq(Line) /\ o.stdio \in Seq(Line)
    /\ o.lost \in SUBSET Nat

\* No line is in the file twice, or both there and lost.
FileOK(o) ==
    /\ FileShape(o)
    /\ Rising(Whole(o))
    /\ Numbers(Whole(o)) \cap o.lost = {}

\* Two states of the file that differ in no line.
SameLines(o, p) ==
    Whole(p) = Whole(o) /\ p.lost = o.lost

\* An operation on the file that hands it nothing new, and loses lines only if it fails.
Keeps(o, p, ok) ==
    /\ FileOK(p)
    /\ Handed(p) = Handed(o)
    /\ ok => p.lost = o.lost

\* The lines in the buffers follow those that the file was handed, in order, and
\* together they are all lines.
Consecutive(h, list, n) ==
    /\ InOrder(list)
    /\ \A i \in DOMAIN list : Lower(h, Numbers(list[i]))
    /\ h \cup UNION {Numbers(list[i]) : i \in DOMAIN list} = 1..n

\* Joining sequences of lines is associative.
LEMMA LinesJoin ==
  ASSUME NEW s \in Seq(Line), NEW t \in Seq(Line), NEW u \in Seq(Line)
  PROVE  (s \o t) \o u = s \o (t \o u)
BY ConcatAssociative

\* The numbers of two sequences of lines, one after the other.
LEMMA NumbersConcat ==
  ASSUME NEW s \in Seq(Line), NEW t \in Seq(Line)
  PROVE  Numbers(s \o t) = Numbers(s) \cup Numbers(t)
<1>1. /\ s \o t \in Seq(Line)
      /\ DOMAIN (s \o t) = 1..(Len(s) + Len(t))
      /\ DOMAIN s = 1..Len(s) /\ DOMAIN t = 1..Len(t)
      /\ Len(s) \in Nat /\ Len(t) \in Nat
  OBVIOUS
<1>2. \A i \in 1..Len(s) : (s \o t)[i] = s[i]
  OBVIOUS
<1>3. \A i \in 1..Len(t) : (s \o t)[Len(s) + i] = t[i] /\ Len(s) + i \in 1..(Len(s) + Len(t))
  OBVIOUS
<1>4. \A i \in 1..(Len(s) + Len(t)) :
        i \in 1..Len(s) \/ (i - Len(s) \in 1..Len(t) /\ (s \o t)[i] = t[i - Len(s)])
  OBVIOUS
<1>5. ASSUME NEW a \in Numbers(s \o t) PROVE a \in Numbers(s) \cup Numbers(t)
  <2>1. PICK i \in 1..(Len(s) + Len(t)) : a = (s \o t)[i].n
    BY <1>1, <1>5 DEF Numbers
  <2> QED
    BY <1>1, <1>2, <1>4, <2>1 DEF Numbers
<1>6. ASSUME NEW a \in Numbers(s) PROVE a \in Numbers(s \o t)
  <2>1. PICK i \in 1..Len(s) : a = s[i].n
    BY <1>1, <1>6 DEF Numbers
  <2>2. i \in 1..(Len(s) + Len(t))
    BY <1>1
  <2> QED
    BY <1>1, <1>2, <2>1, <2>2 DEF Numbers
<1>7. ASSUME NEW a \in Numbers(t) PROVE a \in Numbers(s \o t)
  <2>1. PICK i \in 1..Len(t) : a = t[i].n
    BY <1>1, <1>7 DEF Numbers
  <2> QED
    BY <1>1, <1>3, <2>1 DEF Numbers
<1> QED
  BY <1>5, <1>6, <1>7

\* Numbers are natural numbers.
LEMMA NumbersNat ==
  ASSUME NEW s \in Seq(Line)
  PROVE  Numbers(s) \in SUBSET Nat
<1>1. \A i \in DOMAIN s : s[i] \in Line
  OBVIOUS
<1> QED
  BY <1>1 DEF Numbers, Line

\* Rising sequences, the first lower than the second, one after the other.
LEMMA RisingConcat ==
  ASSUME NEW s \in Seq(Line), NEW t \in Seq(Line),
         Rising(s), Rising(t), Lower(Numbers(s), Numbers(t))
  PROVE  Rising(s \o t)
<1>1. /\ DOMAIN (s \o t) = 1..(Len(s) + Len(t))
      /\ DOMAIN s = 1..Len(s) /\ DOMAIN t = 1..Len(t)
      /\ Len(s) \in Nat /\ Len(t) \in Nat
  OBVIOUS
<1>2. \A i \in 1..Len(s) : (s \o t)[i] = s[i]
  OBVIOUS
<1>3. \A i \in 1..(Len(s) + Len(t)) :
        i \in 1..Len(s) \/ (i - Len(s) \in 1..Len(t) /\ (s \o t)[i] = t[i - Len(s)])
  OBVIOUS
<1>4. SUFFICES ASSUME NEW i \in 1..(Len(s) + Len(t)), NEW j \in 1..(Len(s) + Len(t)), i < j
               PROVE  (s \o t)[i].n < (s \o t)[j].n
  BY <1>1 DEF Rising
<1>5. CASE j \in 1..Len(s)
  <2>1. i \in 1..Len(s)
    BY <1>1, <1>4, <1>5
  <2> QED
    BY <1>1, <1>2, <1>4, <1>5, <2>1 DEF Rising
<1>6. CASE i \in 1..Len(s) /\ j \notin 1..Len(s)
  <2>1. s[i].n \in Numbers(s)
    BY <1>1, <1>6 DEF Numbers
  <2>2. t[j - Len(s)].n \in Numbers(t) /\ (s \o t)[j] = t[j - Len(s)]
    BY <1>1, <1>3, <1>6 DEF Numbers
  <2> QED
    BY <1>2, <1>6, <2>1, <2>2 DEF Lower
<1>7. CASE i \notin 1..Len(s)
  <2>1. j \notin 1..Len(s)
    BY <1>1, <1>4, <1>7
  <2>2. /\ i - Len(s) \in 1..Len(t) /\ (s \o t)[i] = t[i - Len(s)]
        /\ j - Len(s) \in 1..Len(t) /\ (s \o t)[j] = t[j - Len(s)]
    BY <1>3, <1>7, <2>1
  <2>3. i - Len(s) < j - Len(s)
    BY <1>1, <1>4
  <2> QED
    BY <1>1, <2>2, <2>3 DEF Rising
<1> QED
  BY <1>5, <1>6, <1>7

\* A sequence is its first m lines and the others.
LEMMA Split ==
  ASSUME NEW s \in Seq(Line), NEW m \in Nat, m <= Len(s)
  PROVE  /\ SubSeq(s, 1, m) \in Seq(Line) /\ SubSeq(s, m + 1, Len(s)) \in Seq(Line)
         /\ s = SubSeq(s, 1, m) \o SubSeq(s, m + 1, Len(s))
<1> DEFINE p == SubSeq(s, 1, m)
           q == SubSeq(s, m + 1, Len(s))
<1>1. /\ Len(s) \in Nat /\ DOMAIN s = 1..Len(s)
      /\ p \in Seq(Line) /\ Len(p) = m /\ DOMAIN p = 1..m
      /\ q \in Seq(Line) /\ Len(q) = Len(s) - m /\ DOMAIN q = 1..(Len(s) - m)
  OBVIOUS
<1>2. \A i \in 1..m : p[i] = s[i] /\ i \in 1..Len(s)
  OBVIOUS
<1>3. \A i \in 1..(Len(s) - m) : q[i] = s[m + i] /\ m + i \in 1..Len(s)
  OBVIOUS
<1> HIDE DEF p, q
<1>4. s = p \o q
  <2>0. p \o q \in Seq(Line) /\ Len(p \o q) = Len(p) + Len(q)
    BY <1>1, ConcatProperties
  <2>1. p \o q \in Seq(Line) /\ Len(p \o q) = Len(s)
    BY <1>1, <2>0
  <2>2. ASSUME NEW i \in 1..Len(s) PROVE (p \o q)[i] = s[i]
    <3>1. CASE i <= m
      BY <1>1, <1>2, <3>1
    <3>2. CASE i > m
      <4>1. i - m \in 1..(Len(s) - m) /\ m + (i - m) = i
        BY <1>1, <3>2
      <4>2. (p \o q)[i] = q[i - m]
        BY <1>1, <3>2
      <4> QED
        BY <1>3, <4>1, <4>2
    <3> QED
      BY <1>1, <3>1, <3>2
  <2> QED
    BY <2>1, <2>2, SeqEqual
<1> QED
  BY <1>1, <1>4 DEF p, q

\* The parts of a rising sequence.
LEMMA RisingParts ==
  ASSUME NEW s \in Seq(Line), NEW t \in Seq(Line), Rising(s \o t)
  PROVE  Rising(s) /\ Lower(Numbers(s), Numbers(t))
<1>1. /\ DOMAIN (s \o t) = 1..(Len(s) + Len(t))
      /\ DOMAIN s = 1..Len(s) /\ DOMAIN t = 1..Len(t)
      /\ Len(s) \in Nat /\ Len(t) \in Nat
  OBVIOUS
<1>2. \A i \in 1..Len(s) : (s \o t)[i] = s[i] /\ i \in 1..(Len(s) + Len(t))
  OBVIOUS
<1>3. \A i \in 1..Len(t) : (s \o t)[Len(s) + i] = t[i] /\ Len(s) + i \in 1..(Len(s) + Len(t))
  OBVIOUS
<1>4. Rising(s)
  BY <1>1, <1>2 DEF Rising
<1>5. Lower(Numbers(s), Numbers(t))
  <2>1. SUFFICES ASSUME NEW i \in 1..Len(s), NEW j \in 1..Len(t) PROVE s[i].n < t[j].n
    BY <1>1 DEF Lower, Numbers
  <2>2. i < Len(s) + j
    BY <1>1
  <2> QED
    BY <1>1, <1>2, <1>3, <2>2 DEF Rising
<1> QED
  BY <1>4, <1>5

-----------------------------------------------------------------------------
(* The log file.                                                             *)

\* What a file operation changes besides lines does not matter.
LEMMA Unaffected ==
  ASSUME NEW o, NEW p, FileOK(o), FileShape(p), SameLines(o, p)
  PROVE  FileOK(p) /\ Handed(p) = Handed(o)
BY DEF FileOK, SameLines, Handed

\* fflush moves lines to the file.
LEMMA FlushKeeps ==
  ASSUME NEW o, FileOK(o), NEW ok \in BOOLEAN
  PROVE  Keeps(o, Flush(o, ok), TRUE)
<1> DEFINE p == Flush(o, ok)
<1>1. CASE ~ok
  BY <1>1 DEF Flush, Keeps
<1>2. CASE ok
  <2>1. /\ p.disk = o.disk \o o.stdio /\ p.stdio = <<>> /\ p.lost = o.lost
        /\ p = [disk |-> p.disk, stdio |-> p.stdio, lost |-> p.lost, bytes |-> p.bytes,
                count |-> p.count, lastRoll |-> p.lastRoll, lastFlush |-> p.lastFlush,
                period |-> p.period]
    BY <1>2 DEF Flush, FileOK, FileShape
  <2> HIDE DEF p
  <2>2. o.disk \in Seq(Line) /\ o.stdio \in Seq(Line) /\ o.lost \in SUBSET Nat
    BY DEF FileOK, FileShape
  <2>3. p.disk \in Seq(Line) /\ p.disk \o p.stdio = p.disk /\ p.stdio \in Seq(Line)
    BY <2>1, <2>2, ConcatProperties, ConcatEmptySeq
  <2>4. FileShape(p) /\ SameLines(o, p)
    BY <2>1, <2>2, <2>3 DEF FileShape, SameLines, Whole
  <2>5. Keeps(o, p, TRUE)
    BY <2>1, <2>4, Unaffected DEF Keeps
  <2> QED
    BY <2>5 DEF p
<1> QED
  BY <1>1, <1>2

\* fclose loses what it cannot write.
LEMMA CloseKeeps ==
  ASSUME NEW o, FileOK(o), NEW ok \in BOOLEAN
  PROVE  Keeps(o, Close(o, ok), ok) /\ Close(o, ok).stdio = <<>>
<1> DEFINE p == Close(o, ok)
           q == Flush(o, ok)
<1>1. FileOK(q) /\ Handed(q) = Handed(o) /\ q.lost = o.lost
  BY FlushKeeps DEF Keeps
<1>2. /\ q.disk = IF ok THEN o.disk \o o.stdio ELSE o.disk
      /\ q.stdio = IF ok THEN <<>> ELSE o.stdio
  BY DEF Flush, FileOK, FileShape
<1>3. /\ p.disk = q.disk /\ p.stdio = <<>>
      /\ p.lost = IF ok THEN q.lost ELSE q.lost \cup Numbers(o.stdio)
      /\ p = [disk |-> p.disk, stdio |-> p.stdio, lost |-> p.lost, bytes |-> p.bytes,
              count |-> p.count, lastRoll |-> p.lastRoll, lastFlush |-> p.lastFlush,
              period |-> p.period]
  <2> HIDE DEF q
  <2>1. p = [q EXCEPT !.stdio = <<>>, !.lost = IF ok THEN @ ELSE @ \cup Numbers(o.stdio)]
    BY DEF Close, q
  <2> QED
    BY <1>1, <2>1 DEF FileOK, FileShape
<1>4. p.stdio = <<>>
  BY <1>3
<1> HIDE DEF p, q
<1>5. /\ o.disk \in Seq(Line) /\ o.stdio \in Seq(Line) /\ o.lost \in SUBSET Nat
      /\ Numbers(o.stdio) \in SUBSET Nat
  BY NumbersNat DEF FileOK, FileShape
<1>6. CASE ok
  <2>1. /\ p.disk = o.disk \o o.stdio /\ p.lost = o.lost /\ p.stdio = <<>>
    BY <1>1, <1>2, <1>3, <1>6
  <2>2. p.disk \in Seq(Line) /\ p.disk \o p.stdio = p.disk /\ p.stdio \in Seq(Line)
    BY <2>1, <1>5, ConcatProperties, ConcatEmptySeq
  <2>3. FileShape(p) /\ SameLines(o, p)
    BY <1>3, <1>5, <2>1, <2>2 DEF FileShape, SameLines, Whole
  <2>4. Keeps(o, p, ok)
    BY <2>1, <2>3, Unaffected DEF Keeps
  <2> QED
    BY <1>4, <2>4 DEF p
<1>7. CASE ~ok
  <2>1. /\ p.disk = o.disk /\ p.lost = o.lost \cup Numbers(o.stdio) /\ p.stdio = <<>>
    BY <1>1, <1>2, <1>3, <1>7
  <2>2. Whole(p) = o.disk /\ p.stdio \in Seq(Line)
    BY <2>1, <1>5, ConcatEmptySeq DEF Whole
  <2>3. FileShape(p)
    BY <1>3, <1>5, <2>1, <2>2 DEF FileShape
  <2>4. Numbers(Whole(o)) = Numbers(o.disk) \cup Numbers(o.stdio)
    BY <1>5, NumbersConcat DEF Whole
  <2>5. Handed(p) = Handed(o)
    BY <2>1, <2>2, <2>4 DEF Handed
  <2>6. Rising(o.disk) /\ Lower(Numbers(o.disk), Numbers(o.stdio))
    BY <1>5, RisingParts DEF FileOK, Whole
  <2>7. Numbers(o.disk) \cap Numbers(o.stdio) = {}
    BY <1>5, <2>6, NumbersNat DEF Lower
  <2>8. FileOK(p)
    BY <2>1, <2>2, <2>3, <2>4, <2>6, <2>7 DEF FileOK
  <2> QED
    BY <1>4, <1>7, <2>5, <2>8 DEF p, Keeps
<1> QED
  BY <1>6, <1>7


\* A roll closes the file, if it opens another.
LEMMA RollKeeps ==
  ASSUME NEW o, FileOK(o), NEW ok \in BOOLEAN
  PROVE  Keeps(o, rollFile(o, ok), ok)
<1> DEFINE q == Close(o, ok)
           p == rollFile(o, ok)
<1>1. CASE clock <= o.lastRoll
  BY <1>1 DEF rollFile, Keeps
<1>2. CASE ~(clock <= o.lastRoll)
  <2>1. Keeps(o, q, ok)
    BY CloseKeeps
  <2> HIDE DEF q
  <2>2. p = [q EXCEPT !.bytes = 0, !.lastFlush = clock, !.lastRoll = clock,
                      !.period = clock \div Day]
    BY <1>2 DEF rollFile, q
  <2>3. FileShape(p) /\ p.disk = q.disk /\ p.stdio = q.stdio /\ p.lost = q.lost
    <3> HIDE DEF p
    <3> QED BY <2>1, <2>2 DEF Keeps, FileOK, FileShape
  <2> HIDE DEF p
  <2>4. Keeps(o, p, ok)
    BY <2>1, <2>3, Unaffected DEF Keeps, SameLines, Whole
  <2> QED
    BY <2>4 DEF p
<1> QED
  BY <1>1, <1>2

\* So does the decision whether to roll.
LEMMA CheckRollKeeps ==
  ASSUME NEW o, FileOK(o), NEW ok \in BOOLEAN
  PROVE  Keeps(o, CheckRoll(o, ok), ok)
<1>1. ASSUME NEW c PROVE LET p == [o EXCEPT !.count = c] IN
                         Keeps(o, p, TRUE) /\ Keeps(o, rollFile(p, ok), ok)
  <2> DEFINE p == [o EXCEPT !.count = c]
  <2>1. FileShape(p) /\ p.disk = o.disk /\ p.stdio = o.stdio /\ p.lost = o.lost
    BY DEF FileOK, FileShape
  <2> HIDE DEF p
  <2>2. Keeps(o, p, TRUE)
    BY <2>1, Unaffected DEF Keeps, SameLines, Whole
  <2>3. Keeps(p, rollFile(p, ok), ok)
    BY <2>2, RollKeeps DEF Keeps
  <2>4. Keeps(o, rollFile(p, ok), ok)
    BY <2>2, <2>3 DEF Keeps
  <2> QED
    BY <2>2, <2>4 DEF p
<1>2. CASE o.bytes > RollSize
  BY <1>1, <1>2 DEF CheckRoll
<1>3. CASE ~(o.bytes > RollSize) /\ o.count + 1 < CheckEveryN
  <2>1. CheckRoll(o, ok) = [o EXCEPT !.count = o.count + 1]
    BY <1>3 DEF CheckRoll
  <2> QED
    BY <1>1, <2>1 DEF Keeps
<1>4. CASE ~(o.bytes > RollSize) /\ ~(o.count + 1 < CheckEveryN)
  <2>1. \/ CheckRoll(o, ok) = [o EXCEPT !.count = 0]
        \/ CheckRoll(o, ok) = rollFile([o EXCEPT !.count = 0], ok)
    BY <1>4 DEF CheckRoll
  <2> QED
    BY <1>1, <2>1 DEF Keeps
<1> QED
  BY <1>2, <1>3, <1>4

\* fwrite: the lines that it took follow those that are there, the others are lost.
LEMMA AppendHands ==
  ASSUME NEW o, FileOK(o), NEW data \in Seq(Line), Rising(data),
         Lower(Handed(o), Numbers(data)),
         NEW taken \in 0..Len(data), NEW spilled \in 0..(Len(o.stdio) + taken)
  PROVE  LET p == fileAppend(o, data, taken, spilled) IN
         /\ FileOK(p)
         /\ Handed(p) = Handed(o) \cup Numbers(data)
         /\ taken = Len(data) => p.lost = o.lost
<1> DEFINE p == fileAppend(o, data, taken, spilled)
           first == SubSeq(data, 1, taken)
           rest == SubSeq(data, taken + 1, Len(data))
           queued == o.stdio \o first
           spill == SubSeq(queued, 1, spilled)
           kept == SubSeq(queued, spilled + 1, Len(queued))
<1>1. /\ p.disk = o.disk \o spill /\ p.stdio = kept /\ p.lost = o.lost \cup Numbers(rest)
      /\ p = [disk |-> p.disk, stdio |-> p.stdio, lost |-> p.lost, bytes |-> p.bytes,
              count |-> p.count, lastRoll |-> p.lastRoll, lastFlush |-> p.lastFlush,
              period |-> p.period]
  <2> HIDE DEF first, rest, spill, kept
  <2>1. p = [o EXCEPT !.disk = @ \o spill, !.stdio = kept, !.lost = @ \cup Numbers(rest),
                      !.bytes = @ + Size(first)]
    BY DEF fileAppend, first, rest, spill, kept
  <2> HIDE DEF p
  <2> QED
    BY <2>1 DEF FileOK, FileShape
<1> HIDE DEF p
<1>2. /\ o.disk \in Seq(Line) /\ o.stdio \in Seq(Line) /\ o.lost \in SUBSET Nat
  BY DEF FileOK, FileShape
<1>3. /\ first \in Seq(Line) /\ rest \in Seq(Line) /\ data = first \o rest
      /\ Len(first) = taken
  <2>1. taken \in Nat /\ taken <= Len(data)
    OBVIOUS
  <2>2. Len(first) = taken
    BY <2>1
  <2> QED
    BY <2>1, <2>2, Split
<1>4. taken = Len(data) => rest = <<>>
  OBVIOUS
<1> HIDE DEF first, rest
<1>5. queued \in Seq(Line) /\ Len(queued) = Len(o.stdio) + taken
  BY <1>2, <1>3, ConcatProperties
<1> HIDE DEF queued
<1>6. spill \in Seq(Line) /\ kept \in Seq(Line) /\ queued = spill \o kept
  <2>1. spilled \in Nat /\ spilled <= Len(queued)
    BY <1>2, <1>5
  <2> QED
    BY <1>5, <2>1, Split
<1> HIDE DEF spill, kept
<1>7. Whole(p) = Whole(o) \o first /\ Whole(o) \in Seq(Line)
  <2>1. (o.disk \o spill) \o kept = o.disk \o queued
    <3>1. (o.disk \o spill) \o kept = o.disk \o (spill \o kept)
      BY <1>2, <1>6, LinesJoin
    <3> QED
      BY <1>6, <3>1
  <2>2. o.disk \o queued = (o.disk \o o.stdio) \o first
    BY <1>2, <1>3, LinesJoin DEF queued
  <2> QED
    BY <1>1, <1>2, <2>1, <2>2, ConcatProperties DEF Whole
<1>8. /\ Numbers(data) = Numbers(first) \cup Numbers(rest)
      /\ Numbers(Whole(p)) = Numbers(Whole(o)) \cup Numbers(first)
      /\ Numbers(rest) \in SUBSET Nat /\ Numbers(first) \in SUBSET Nat
      /\ Numbers(Whole(o)) \in SUBSET Nat
  BY <1>3, <1>7, NumbersConcat, NumbersNat
<1>9. Rising(first) /\ Lower(Numbers(first), Numbers(rest))
  BY <1>3, RisingParts
<1>10. FileShape(p)
  BY <1>1, <1>2, <1>6, <1>8, ConcatProperties DEF FileShape
<1>11. Rising(Whole(p))
  <2>1. Rising(Whole(o)) /\ Lower(Numbers(Whole(o)), Numbers(first))
    BY <1>8 DEF FileOK, Lower, Handed
  <2> QED
    BY <1>3, <1>7, <1>9, <2>1, RisingConcat
<1>12. Numbers(Whole(p)) \cap p.lost = {}
  <2>1. Numbers(Whole(o)) \cap o.lost = {}
    BY DEF FileOK
  <2>2. \A a \in Numbers(first) : a \notin o.lost /\ a \notin Numbers(rest)
    BY <1>2, <1>8, <1>9 DEF Lower, Handed
  <2>3. \A a \in Numbers(Whole(o)) : a \notin Numbers(rest)
    BY <1>8 DEF Lower, Handed
  <2> QED
    BY <1>1, <1>8, <2>1, <2>2, <2>3
<1>13. Handed(p) = Handed(o) \cup Numbers(data)
  BY <1>1, <1>8 DEF Handed
<1>14. taken = Len(data) => p.lost = o.lost
  BY <1>1, <1>4 DEF Numbers
<1> QED
  BY <1>10, <1>11, <1>12, <1>13, <1>14 DEF p, FileOK

\* LogFile::append_inlock hands the file a buffer.
LEMMA AppendInlockHands ==
  ASSUME NEW o, FileOK(o), NEW data \in Seq(Line), Rising(data),
         Lower(Handed(o), Numbers(data)), NEW ok \in BOOLEAN,
         NEW taken \in 0..Len(data), NEW spilled \in 0..(Len(o.stdio) + taken)
  PROVE  LET p == appendInlock(o, data, taken, spilled, ok) IN
         /\ FileOK(p)
         /\ Handed(p) = Handed(o) \cup Numbers(data)
         /\ taken = Len(data) /\ ok => p.lost = o.lost
<1> DEFINE q == fileAppend(o, data, taken, spilled)
           r == CheckRoll(q, ok)
           s == Flush(r, ok)
           t == [s EXCEPT !.lastFlush = clock]
<1>1. /\ FileOK(q)
      /\ Handed(q) = Handed(o) \cup Numbers(data)
      /\ taken = Len(data) => q.lost = o.lost
  BY AppendHands
<1> HIDE DEF q
<1>2. Keeps(q, r, ok)
  BY <1>1, CheckRollKeeps
<1> HIDE DEF r
<1>3. Keeps(r, s, TRUE)
  BY <1>2, FlushKeeps DEF Keeps
<1> HIDE DEF s
<1>4. FileShape(t) /\ t.disk = s.disk /\ t.stdio = s.stdio /\ t.lost = s.lost
  <2>1. t = [s EXCEPT !.lastFlush = clock]
    OBVIOUS
  <2> HIDE DEF t
  <2> QED
    BY <1>3, <2>1 DEF Keeps, FileOK, FileShape
<1> HIDE DEF t
<1>5. Keeps(s, t, TRUE)
  BY <1>3, <1>4, Unaffected DEF Keeps, SameLines, Whole
<1>6. appendInlock(o, data, taken, spilled, ok) \in {r, t}
  BY DEF appendInlock, q, r, s, t
<1> QED
  BY <1>1, <1>2, <1>3, <1>5, <1>6 DEF Keeps


-----------------------------------------------------------------------------
(* The buffers that are not written.                                         *)

Buffers == Seq(Seq(Line))

\* An empty buffer behind the others adds nothing.
LEMMA AddBuffer ==
  ASSUME NEW h, NEW list \in Buffers, NEW n \in Nat, Consecutive(h, list, n)
  PROVE  Consecutive(h, Append(list, <<>>), n)
<1> DEFINE l == Append(list, <<>>)
           k == Len(list) + 1
<1>1. /\ Len(list) \in Nat /\ DOMAIN list = 1..Len(list) /\ DOMAIN l = 1..k
      /\ l[k] = <<>> /\ \A i \in 1..Len(list) : l[i] = list[i] /\ i \in 1..k
  BY DEF Buffers
<1>2. \A i \in 1..k : i = k \/ i \in 1..Len(list)
  BY <1>1
<1>3. Numbers(l[k]) = {} /\ k \in 1..k
  BY <1>1 DEF Numbers
<1>4. \A i \in 1..k : \A x \in DOMAIN l[i] : i \in DOMAIN list /\ l[i] = list[i]
  <2>1. \A x \in DOMAIN l[k] : FALSE
    BY <1>1
  <2> QED
    BY <1>1, <1>2, <2>1
<1> HIDE DEF l, k
<1>5. InOrder(l)
  <2>1. SUFFICES ASSUME NEW i \in DOMAIN l, NEW j \in DOMAIN l,
                        NEW x \in DOMAIN l[i], NEW y \in DOMAIN l[j],
                        i < j \/ (i = j /\ x < y)
                 PROVE  l[i][x].n < l[j][y].n
    BY DEF InOrder
  <2>2. i \in DOMAIN list /\ j \in DOMAIN list /\ l[i] = list[i] /\ l[j] = list[j]
    BY <1>1, <1>4
  <2>3. x \in DOMAIN list[i] /\ y \in DOMAIN list[j]
    BY <2>2
  <2>4. list[i][x].n < list[j][y].n
    BY <2>1, <2>2, <2>3 DEF Consecutive, InOrder
  <2> QED
    BY <2>2, <2>4
<1>6. \A i \in DOMAIN l : Lower(h, Numbers(l[i]))
  <2>1. Lower(h, Numbers(l[k]))
    BY <1>3 DEF Lower
  <2> QED
    BY <1>1, <1>2, <2>1 DEF Consecutive
<1>7. UNION {Numbers(l[i]) : i \in DOMAIN l} = UNION {Numbers(list[i]) : i \in DOMAIN list}
  <2>1. ASSUME NEW a \in UNION {Numbers(l[i]) : i \in DOMAIN l}
        PROVE  a \in UNION {Numbers(list[i]) : i \in DOMAIN list}
    <3>1. PICK i \in 1..k : a \in Numbers(l[i])
      BY <1>1, <2>1
    <3> QED
      BY <1>1, <1>2, <1>3, <3>1
  <2>2. ASSUME NEW a \in UNION {Numbers(list[i]) : i \in DOMAIN list}
        PROVE  a \in UNION {Numbers(l[i]) : i \in DOMAIN l}
    <3>1. PICK i \in 1..Len(list) : a \in Numbers(list[i])
      BY <1>1, <2>2
    <3> QED
      BY <1>1, <3>1
  <2> QED
    BY <2>1, <2>2
<1>8. Consecutive(h, l, n)
  BY <1>5, <1>6, <1>7 DEF Consecutive
<1> QED
  BY <1>8 DEF l

\* The next line goes to the last buffer.
LEMMA AddLine ==
  ASSUME NEW h \in SUBSET Nat, NEW p \in Buffers, NEW c \in Seq(Line), NEW n \in Nat,
         NEW line \in Line, line.n = n + 1, Consecutive(h, Append(p, c), n)
  PROVE  Consecutive(h, Append(p, Append(c, line)), n + 1)
<1> DEFINE d == Append(c, line)
           l == Append(p, c)
           m == Append(p, d)
           k == Len(p) + 1
           e == Len(c) + 1
<1>1. /\ d \in Seq(Line) /\ Len(c) \in Nat /\ DOMAIN c = 1..Len(c) /\ DOMAIN d = 1..e
      /\ d[e] = line /\ \A x \in 1..Len(c) : d[x] = c[x]
      /\ \A x \in 1..e : x = e \/ x \in 1..Len(c)
      /\ \A x \in 1..Len(c) : x \in 1..e /\ x < e
      /\ e \in 1..e
  OBVIOUS
<1> HIDE DEF d, e
<1>2. /\ Len(p) \in Nat /\ DOMAIN l = 1..k /\ DOMAIN m = 1..k
      /\ l[k] = c /\ m[k] = d
      /\ \A i \in 1..Len(p) : l[i] = p[i] /\ m[i] = p[i]
      /\ \A i \in 1..k : i = k \/ (i \in 1..Len(p) /\ i < k)
      /\ k \in 1..k
  BY <1>1 DEF Buffers
<1> HIDE DEF l, m, k
<1>3. Numbers(d) = Numbers(c) \cup {n + 1}
  <2>1. ASSUME NEW a \in Numbers(d) PROVE a \in Numbers(c) \cup {n + 1}
    BY <1>1, <2>1 DEF Numbers
  <2>2. ASSUME NEW a \in Numbers(c) PROVE a \in Numbers(d)
    BY <1>1, <2>2 DEF Numbers
  <2>3. n + 1 \in Numbers(d)
    BY <1>1 DEF Numbers
  <2> QED
    BY <2>1, <2>2, <2>3
<1>4. \A i \in 1..k : Numbers(l[i]) \subseteq 1..n
  BY <1>2 DEF Consecutive, l
<1>5. h \subseteq 1..n
  BY DEF Consecutive
<1>6. \A i \in 1..k : \A x \in DOMAIN l[i] : l[i][x].n \in 1..n
  BY <1>4 DEF Numbers
<1>7. ASSUME NEW i \in 1..k, NEW x \in DOMAIN m[i]
      PROVE  \/ x \in DOMAIN l[i] /\ m[i][x] = l[i][x]
             \/ i = k /\ x = e /\ m[i][x].n = n + 1
  <2>1. CASE i \in 1..Len(p)
    BY <1>2, <1>7, <2>1
  <2>2. CASE i = k
    BY <1>1, <1>2, <1>7, <2>2
  <2> QED
    BY <1>2, <2>1, <2>2
<1>8. InOrder(l)
  BY DEF Consecutive, l
<1>9. InOrder(m)
  <2>1. SUFFICES ASSUME NEW i \in 1..k, NEW j \in 1..k,
                        NEW x \in DOMAIN m[i], NEW y \in DOMAIN m[j],
                        i < j \/ (i = j /\ x < y)
                 PROVE  m[i][x].n < m[j][y].n
    BY <1>2 DEF InOrder
  <2>2. CASE x \in DOMAIN l[i] /\ m[i][x] = l[i][x] /\ y \in DOMAIN l[j] /\ m[j][y] = l[j][y]
    <3>1. l[i][x].n < l[j][y].n
      BY <1>2, <1>8, <2>1, <2>2 DEF InOrder
    <3> QED
      BY <2>2, <3>1
  <2>3. CASE x \in DOMAIN l[i] /\ m[i][x] = l[i][x] /\ j = k /\ y = e /\ m[j][y].n = n + 1
    <3>1. l[i][x].n \in 1..n
      BY <1>6, <2>3
    <3> QED
      BY <2>3, <3>1
  <2>4. CASE i = k /\ x = e
    <3>1. j = k /\ e < y
      BY <1>2, <2>1, <2>4
    <3>2. y \in 1..e
      BY <1>1, <1>2, <3>1
    <3> QED
      BY <1>1, <3>1, <3>2 DEF e
  <2> QED
    BY <1>7, <2>2, <2>3, <2>4
<1>10. \A i \in DOMAIN m : Lower(h, Numbers(m[i]))
  <2>1. Lower(h, Numbers(c))
    BY <1>2 DEF Consecutive, l
  <2>2. Lower(h, Numbers(d))
    <3>1. \A a \in h : a < n + 1
      BY <1>5
    <3> QED
      BY <1>3, <2>1, <3>1 DEF Lower
  <2>3. \A i \in 1..k : i = k \/ m[i] = l[i]
    BY <1>2
  <2> QED
    BY <1>2, <2>2, <2>3 DEF Consecutive, l
<1>11. h \cup UNION {Numbers(m[i]) : i \in DOMAIN m} = 1..(n + 1)
  <2>1. h \cup UNION {Numbers(l[i]) : i \in DOMAIN l} = 1..n
    BY DEF Consecutive, l
  <2>2. \A i \in 1..k : Numbers(m[i]) = IF i = k THEN Numbers(l[i]) \cup {n + 1} ELSE Numbers(l[i])
    BY <1>2, <1>3
  <2>3. ASSUME NEW a \in h \cup UNION {Numbers(m[i]) : i \in DOMAIN m} PROVE a \in 1..n \/ a = n + 1
    <3>1. CASE a \in h
      BY <2>1, <3>1
    <3>2. CASE \E i \in 1..k : a \in Numbers(m[i])
      <4>1. PICK i \in 1..k : a \in Numbers(m[i])
        BY <3>2
      <4>2. a \in Numbers(l[i]) \/ a = n + 1
        <5>1. Numbers(m[i]) = Numbers(l[i]) \cup {n + 1} \/ Numbers(m[i]) = Numbers(l[i])
          BY <2>2
        <5> QED
          BY <4>1, <5>1
      <4> QED
        BY <1>4, <4>2
    <3> QED
      BY <1>2, <2>3, <3>1, <3>2
  <2>4. ASSUME NEW a \in 1..n PROVE a \in h \cup UNION {Numbers(m[i]) : i \in DOMAIN m}
    <3>1. CASE a \in h
      BY <3>1
    <3>2. CASE a \notin h
      <4>1. PICK i \in 1..k : a \in Numbers(l[i])
        BY <1>2, <2>1, <2>4, <3>2
      <4> QED
        BY <1>2, <2>2, <4>1
    <3> QED
      BY <3>1, <3>2
  <2>5. n + 1 \in UNION {Numbers(m[i]) : i \in DOMAIN m}
    BY <1>2, <2>2
  <2>6. 1..(n + 1) = (1..n) \cup {n + 1}
    OBVIOUS
  <2> QED
    BY <2>3, <2>4, <2>5, <2>6
<1>12. Consecutive(h, m, n + 1)
  BY <1>9, <1>10, <1>11 DEF Consecutive
<1> QED
  BY <1>12 DEF m, d

\* The first buffer is handed over.
LEMMA TakeFirst ==
  ASSUME NEW h, NEW data \in Seq(Line), NEW list \in Buffers, NEW n \in Nat,
         Consecutive(h, <<data>> \o list, n)
  PROVE  /\ Rising(data) /\ Lower(h, Numbers(data))
         /\ Consecutive(h \cup Numbers(data), list, n)
<1> DEFINE l == <<data>> \o list
<1>1. /\ Len(list) \in Nat /\ DOMAIN list = 1..Len(list) /\ DOMAIN l = 1..(Len(list) + 1)
      /\ l[1] = data /\ 1 \in DOMAIN l
      /\ \A i \in 1..Len(list) : l[i + 1] = list[i] /\ i + 1 \in 1..(Len(list) + 1)
      /\ \A i \in 1..(Len(list) + 1) : i = 1 \/ (i - 1 \in 1..Len(list) /\ l[i] = list[i - 1])
  BY DEF Buffers
<1>2. Consecutive(h, l, n)
  OBVIOUS
<1> HIDE DEF l
<1>3. Rising(data)
  BY <1>1, <1>2 DEF Rising, Consecutive, InOrder
<1>4. Lower(h, Numbers(data))
  BY <1>1, <1>2 DEF Consecutive
<1>5. InOrder(list)
  <2>1. SUFFICES ASSUME NEW i \in 1..Len(list), NEW j \in 1..Len(list),
                        NEW x \in DOMAIN list[i], NEW y \in DOMAIN list[j],
                        i < j \/ (i = j /\ x < y)
                 PROVE  list[i][x].n < list[j][y].n
    BY <1>1 DEF InOrder
  <2>2. /\ i + 1 \in DOMAIN l /\ j + 1 \in DOMAIN l /\ l[i + 1] = list[i] /\ l[j + 1] = list[j]
        /\ i + 1 < j + 1 \/ (i + 1 = j + 1 /\ x < y)
    BY <1>1, <2>1
  <2>3. l[i + 1][x].n < l[j + 1][y].n
    BY <1>2, <2>2 DEF Consecutive, InOrder
  <2> QED
    BY <2>2, <2>3
<1>6. \A i \in DOMAIN list : Lower(h \cup Numbers(data), Numbers(list[i]))
  <2>1. SUFFICES ASSUME NEW i \in 1..Len(list) PROVE Lower(h \cup Numbers(data), Numbers(list[i]))
    BY <1>1
  <2>2. i + 1 \in DOMAIN l /\ l[i + 1] = list[i] /\ 1 < i + 1
    BY <1>1
  <2>3. Lower(h, Numbers(list[i]))
    BY <1>2, <2>2 DEF Consecutive
  <2>4. Lower(Numbers(data), Numbers(list[i]))
    <3>1. SUFFICES ASSUME NEW x \in DOMAIN data, NEW y \in DOMAIN list[i]
                   PROVE  data[x].n < list[i][y].n
      BY DEF Lower, Numbers
    <3>2. l[1][x].n < l[i + 1][y].n
      BY <1>1, <1>2, <2>2 DEF Consecutive, InOrder
    <3> QED
      BY <1>1, <2>2, <3>2
  <2> QED
    BY <2>3, <2>4 DEF Lower
<1>7. UNION {Numbers(l[i]) : i \in DOMAIN l}
        = Numbers(data) \cup UNION {Numbers(list[i]) : i \in DOMAIN list}
  <2>1. ASSUME NEW a \in UNION {Numbers(l[i]) : i \in DOMAIN l}
        PROVE  a \in Numbers(data) \cup UNION {Numbers(list[i]) : i \in DOMAIN list}
    <3>1. PICK i \in 1..(Len(list) + 1) : a \in Numbers(l[i])
      BY <1>1, <2>1
    <3> QED
      BY <1>1, <3>1
  <2>2. ASSUME NEW a \in UNION {Numbers(list[i]) : i \in DOMAIN list}
        PROVE  a \in UNION {Numbers(l[i]) : i \in DOMAIN l}
    <3>1. PICK i \in 1..Len(list) : a \in Numbers(list[i])
      BY <1>1, <2>2
    <3> QED
      BY <1>1, <3>1
  <2>3. Numbers(data) \subseteq UNION {Numbers(l[i]) : i \in DOMAIN l}
    BY <1>1
  <2> QED
    BY <2>1, <2>2, <2>3
<1>8. (h \cup Numbers(data)) \cup UNION {Numbers(list[i]) : i \in DOMAIN list} = 1..n
  BY <1>2, <1>7 DEF Consecutive
<1> QED
  BY <1>3, <1>4, <1>5, <1>6, <1>8 DEF Consecutive


-----------------------------------------------------------------------------
(* The invariant.                                                            *)

LogTypes ==
    /\ current \in Seq(Line)
    /\ buffers \in Buffers /\ toWrite \in Buffers
    /\ written \in 0..Len(toWrite)
    /\ appended \in Nat /\ errors \in Nat
    /\ {next, newbuffer1, newbuffer2} \subseteq {<<>>, NoBuffer}

\* A spare buffer that is missing was used for another one, which will come back:
\* nextBuffer_ is missing only while a filled buffer is in buffers_, and the back
\* end misses its second one only if it took two.
Spares ==
    /\ next = NoBuffer => buffers # <<>>
    /\ pc # "write" => /\ toWrite = <<>>
                       /\ newbuffer1 = <<>> /\ newbuffer2 = <<>>
    /\ pc = "write" => Len(toWrite) >= (IF newbuffer2 = NoBuffer THEN 2 ELSE 1)

\* The lines handed to the file and those in the buffers.
Lines ==
    /\ FileOK(out)
    /\ Consecutive(Handed(out), Unwritten, appended)
    /\ errors = 0 => out.lost = {}
    /\ pc = "ended" => out.stdio = <<>>

LogInv == LogTypes /\ Spares /\ Lines

\* A null pointer is not an empty buffer.
LEMMA BufferPointers ==
  /\ NoBuffer # <<>>
  /\ <<>> \in Seq(Line) /\ <<>> \in Buffers
BY DEF NoBuffer, Buffers

\* Unwritten as a list that ends with the current buffer.
LEMMA UnwrittenEnds ==
  LogTypes => /\ Waiting \in Buffers /\ Waiting \o buffers \in Buffers
              /\ Unwritten = Append(Waiting \o buffers, current)
              /\ Unwritten \in Buffers
<1> SUFFICES ASSUME LogTypes
             PROVE  /\ Waiting \in Buffers /\ Waiting \o buffers \in Buffers
                    /\ Unwritten = Append(Waiting \o buffers, current)
                    /\ Unwritten \in Buffers
  OBVIOUS
<1>1. Waiting \in Buffers
  BY DEF LogTypes, Waiting, Buffers
<1>2. Waiting \o buffers \in Buffers
  BY <1>1 DEF LogTypes, Buffers
<1>3. Unwritten = Append(Waiting \o buffers, current)
  BY <1>2, AppendIsConcat DEF LogTypes, Unwritten, Buffers
<1>4. Append(Waiting \o buffers, current) \in Buffers
  BY <1>2 DEF LogTypes, Buffers
<1> QED
  BY <1>1, <1>2, <1>3, <1>4

\* The same in the next state.
LEMMA UnwrittenEndsNext ==
  LogTypes' => /\ Waiting' \in Buffers
               /\ Unwritten' = Append(Waiting' \o buffers', current')
<1> DEFINE E == /\ Waiting \in Buffers
                /\ Unwritten = Append(Waiting \o buffers, current)
<1>1. LogTypes => E
  BY UnwrittenEnds
<1> HIDE DEF E
<1>2. LogTypes' => E'
  BY <1>1, PTL
<1> QED
  BY <1>2 DEF E

\* Nothing is appended yet.
LEMMA InitLogInv == LogInit => LogInv
<1> SUFFICES ASSUME LogInit PROVE LogInv
  OBVIOUS
<1>1. LogTypes
  BY BufferPointers DEF LogInit, LogTypes
<1>2. Spares
  BY BufferPointers DEF LogInit, Spares
<1>3. PICK c \in 0..CheckEveryN :
         out = [disk |-> <<>>, stdio |-> <<>>, lost |-> {}, bytes |-> 0, count |-> c,
                lastRoll |-> clock, lastFlush |-> clock, period |-> clock \div Day]
  BY DEF LogInit
<1>4. Whole(out) = <<>>
  BY <1>3 DEF Whole
<1>5. FileOK(out) /\ Handed(out) = {}
  <2>1. Rising(<<>>) /\ Numbers(<<>>) = {}
    BY DEF Rising, Numbers
  <2>2. FileShape(out) /\ out.lost = {}
    BY <1>3 DEF FileShape
  <2> QED
    BY <1>4, <2>1, <2>2 DEF FileOK, Handed
<1>6. Consecutive({}, Unwritten, 0)
  <2>1. Unwritten = Append(<<>>, <<>>)
    <3>1. Waiting = <<>>
      BY DEF LogInit, Waiting
    <3> QED
      BY <3>1 DEF LogInit, Unwritten
  <2>2. Consecutive({}, <<>>, 0)
    BY DEF Consecutive, InOrder
  <2> QED
    BY <2>1, <2>2, AddBuffer, BufferPointers
<1>7. Lines
  BY <1>3, <1>5, <1>6 DEF Lines, LogInit
<1> QED
  BY <1>1, <1>2, <1>7 DEF LogInv


\* append puts a line into the current buffer, or into a new one behind it.
LEMMA AppendStep ==
  ASSUME LogInv, append
  PROVE  LogInv'
<1> USE DEF LogInv
<1>1. PICK len \in Lengths :
        LET line == [n |-> appended + 1, len |-> len] IN
        IF avail(current) > len
        THEN current' = Append(current, line) /\ UNCHANGED <<next, buffers, pc>>
        ELSE /\ buffers' = Append(buffers, current)
             /\ current' = IF next # NoBuffer THEN Append(next, line) ELSE <<line>>
             /\ next' = NoBuffer
             /\ pc' = Notified
  BY DEF append
<1> DEFINE line == [n |-> appended + 1, len |-> len]
           list == Waiting \o buffers
<1>2. line \in Line /\ line.n = appended + 1 /\ appended \in Nat
  BY LinesFit DEF Line, LogTypes
<1>3. /\ appended' = appended + 1
      /\ UNCHANGED <<newbuffer1, newbuffer2, toWrite, written, out, errors>>
      /\ Waiting' = Waiting
  BY DEF append, back, env, Waiting
<1>4. /\ list \in Buffers /\ Waiting \in Buffers /\ Unwritten = Append(list, current)
      /\ Unwritten \in Buffers
      /\ current \in Seq(Line) /\ buffers \in Buffers
  BY UnwrittenEnds DEF LogTypes
<1>5. Handed(out) \in SUBSET Nat
  <2>1. Whole(out) \in Seq(Line)
    BY ConcatProperties DEF Lines, FileOK, FileShape, Whole
  <2> QED
    BY <2>1, NumbersNat DEF Lines, FileOK, FileShape, Handed
<1>6. CASE avail(current) > len
  <2>1. current' = Append(current, line) /\ UNCHANGED <<next, buffers, pc>>
    BY <1>1, <1>6
  <2> HIDE DEF line
  <2>2. current' \in Seq(Line)
    BY <1>2, <1>4, <2>1
  <2>3. LogTypes'
    BY <1>2, <1>3, <2>1, <2>2 DEF LogTypes
  <2>4. Spares'
    BY <1>3, <2>1 DEF Spares
  <2>5. Unwritten' = Append(list, current')
    BY <2>3, <1>3, <2>1, UnwrittenEndsNext
  <2>6. Consecutive(Handed(out), Unwritten', appended + 1)
    <3> HIDE DEF list
    <3> QED BY <1>2, <1>4, <1>5, <2>1, <2>5, AddLine DEF Lines
  <2>7. Lines'
    BY <1>3, <2>1, <2>6 DEF Lines
  <2> QED
    BY <2>3, <2>4, <2>7
<1>7. CASE ~(avail(current) > len)
  <2>1. /\ buffers' = Append(buffers, current)
        /\ current' = Append(<<>>, line)
        /\ next' = NoBuffer
        /\ pc' = Notified
    <3>1. <<line>> = Append(<<>>, line)
      OBVIOUS
    <3>2. next = <<>> \/ next = NoBuffer
      BY DEF LogTypes
    <3> QED
      BY <1>1, <1>7, <3>1, <3>2
  <2> HIDE DEF line
  <2>2. current' \in Seq(Line) /\ buffers' \in Buffers /\ buffers' # <<>>
    <3>1. current' \in Seq(Line)
      BY <1>2, <2>1
    <3>2. buffers' \in Buffers /\ Len(buffers') = Len(buffers) + 1 /\ Len(buffers) \in Nat
      BY <1>4, <2>1 DEF Buffers
    <3> QED
      BY <3>1, <3>2
  <2>3. LogTypes'
    BY <1>2, <1>3, <2>1, <2>2 DEF LogTypes
  <2>4. pc' = "write" <=> pc = "write"
    BY <2>1 DEF Notified
  <2>5. Spares'
    BY <1>3, <2>1, <2>2, <2>4 DEF Spares
  <2>6. Unwritten' = Append(Unwritten, current')
    <3>1. Unwritten' = Append(Waiting \o buffers', current')
      BY <2>3, <1>3, UnwrittenEndsNext
    <3>2. Waiting \o Append(buffers, current) = Append(Waiting \o buffers, current)
      BY <1>4 DEF Buffers
    <3> QED
      BY <1>4, <2>1, <3>1, <3>2
  <2>7. Consecutive(Handed(out), Append(Unwritten, <<>>), appended)
    BY <1>2, <1>4, AddBuffer DEF Lines
  <2>8. Consecutive(Handed(out), Unwritten', appended + 1)
    BY <1>2, <1>4, <1>5, <2>1, <2>6, <2>7, BufferPointers, AddLine
  <2>9. Lines'
    BY <1>3, <2>1, <2>8 DEF Lines, Notified
  <2> QED
    BY <2>3, <2>5, <2>9
<1> QED
  BY <1>6, <1>7

\* The swap leaves an empty buffer behind those that it takes.
LEMMA SwapStep ==
  ASSUME LogInv, SwapBuffers
  PROVE  LogInv'
<1> USE DEF LogInv
<1>1. /\ pc \in {"swap", "check"} /\ pc # "write"
      /\ toWrite = <<>> /\ newbuffer1 = <<>> /\ newbuffer2 = <<>>
  BY DEF SwapBuffers, Spares
<1>2. /\ toWrite' = Append(buffers, current) /\ buffers' = <<>> /\ current' = <<>>
      /\ newbuffer1' = NoBuffer /\ written' = 0 /\ pc' = "write"
      /\ UNCHANGED <<appended, out, errors>>
  BY <1>1 DEF SwapBuffers, env
<1>3. /\ next = NoBuffer => next' = <<>> /\ newbuffer2' = NoBuffer
      /\ next # NoBuffer => next' = next /\ newbuffer2' = newbuffer2
  BY <1>1 DEF SwapBuffers
<1>4. /\ current \in Seq(Line) /\ buffers \in Buffers /\ Len(buffers) \in Nat
      /\ toWrite' \in Buffers /\ Len(toWrite') = Len(buffers) + 1
  BY <1>2 DEF LogTypes, Buffers
<1>5. LogTypes'
  BY <1>1, <1>2, <1>3, <1>4, BufferPointers DEF LogTypes
<1>6. Spares'
  <2>1. next' # NoBuffer
    BY <1>3, BufferPointers
  <2>2. newbuffer2' = NoBuffer => Len(buffers) >= 1
    <3>1. newbuffer2' = NoBuffer => buffers # <<>>
      BY <1>1, <1>3, BufferPointers DEF Spares
    <3> QED
      BY <1>4, <3>1 DEF Buffers
  <2> QED
    BY <1>2, <1>4, <2>1, <2>2 DEF Spares
<1>7. Unwritten' = Append(Unwritten, <<>>)
  <2>1. Waiting = <<>>
    BY <1>1 DEF Waiting, LogTypes
  <2>2. Unwritten = Append(buffers, current)
    BY <1>4, <2>1, UnwrittenEnds DEF Buffers
  <2>3. Waiting' = toWrite'
    BY <1>2, <1>4, SubSeqFull DEF Waiting, Buffers
  <2>4. Unwritten' = Append(Waiting' \o <<>>, <<>>)
    BY <1>2, <1>5, UnwrittenEndsNext
  <2> QED
    BY <1>2, <1>4, <2>2, <2>3, <2>4, ConcatEmptySeq DEF Buffers
<1>8. Lines'
  <2>1. Consecutive(Handed(out), Append(Unwritten, <<>>), appended)
    BY UnwrittenEnds, AddBuffer DEF Lines, LogTypes
  <2> QED
    BY <1>2, <1>7, <2>1 DEF Lines
<1> QED
  BY <1>5, <1>6, <1>8


\* The thread hands the first of its buffers to the file.
LEMMA WriteStep ==
  ASSUME LogInv, WriteBuffer
  PROVE  LogInv'
<1> USE DEF LogInv
<1> DEFINE data == toWrite[written + 1]
<1>1. PICK taken \in 0..Len(data), ok \in BOOLEAN :
        /\ Fails(taken < Len(data) \/ ~ok)
        /\ \E spilled \in 0..(Len(out.stdio) + taken) :
             out' = appendInlock(out, data, taken, spilled, ok)
  BY DEF WriteBuffer
<1>2. PICK spilled \in 0..(Len(out.stdio) + taken) :
        out' = appendInlock(out, data, taken, spilled, ok)
  BY <1>1
<1>3. /\ pc = "write" /\ written < Len(toWrite) /\ written' = written + 1
      /\ UNCHANGED <<current, next, buffers, appended, pc, newbuffer1, newbuffer2, toWrite>>
  BY DEF WriteBuffer, front
<1>4. /\ toWrite \in Buffers /\ Len(toWrite) \in Nat /\ written \in Nat
      /\ written + 1 \in 1..Len(toWrite) /\ written' \in 0..Len(toWrite)
      /\ data \in Seq(Line)
      /\ errors \in Nat
  BY <1>3 DEF LogTypes, Buffers
<1>5. /\ (taken < Len(data) \/ ~ok) => errors' = errors + 1
      /\ ~(taken < Len(data) \/ ~ok) => errors' = errors
      /\ errors' \in Nat
  BY <1>1, <1>4 DEF Fails
<1>6. LogTypes'
  BY <1>3, <1>4, <1>5 DEF LogTypes
<1>7. Spares'
  BY <1>3 DEF Spares
<1>8. Unwritten = <<data>> \o Unwritten' /\ Unwritten' \in Buffers
  <2>1. Waiting' \in Buffers /\ Waiting' \o buffers \in Buffers
    BY <1>3, <1>4, <1>6, UnwrittenEndsNext DEF LogTypes, Buffers
  <2>2. Waiting = <<data>> \o Waiting'
    <3>1. Waiting' = SubSeq(toWrite, (written + 1) + 1, Len(toWrite))
      BY <1>3, <1>4 DEF Waiting
    <3>2. Len(toWrite) \in (written + 1)..Len(toWrite)
      BY <1>4
    <3>3. SubSeq(toWrite, written + 1, Len(toWrite))
            = <<toWrite[written + 1]>> \o SubSeq(toWrite, (written + 1) + 1, Len(toWrite))
      BY <1>4, <3>2, SubSeqRecursiveFirst DEF Buffers
    <3> QED
      BY <3>1, <3>3 DEF Waiting
  <2> HIDE DEF data
  <2>3. <<data>> \in Buffers /\ <<current>> \in Buffers /\ buffers \in Buffers
    BY <1>4 DEF LogTypes, Buffers
  <2>4. (<<data>> \o Waiting') \o buffers = <<data>> \o (Waiting' \o buffers)
    BY <2>1, <2>3, ConcatAssociative DEF Buffers
  <2>5. (<<data>> \o (Waiting' \o buffers)) \o <<current>>
          = <<data>> \o ((Waiting' \o buffers) \o <<current>>)
    BY <2>1, <2>3, ConcatAssociative DEF Buffers
  <2>6. Unwritten' = (Waiting' \o buffers) \o <<current>>
    BY <1>3 DEF Unwritten
  <2>7. (Waiting' \o buffers) \o <<current>> \in Buffers
    BY <2>1, <2>3, ConcatProperties DEF Buffers
  <2> QED
    BY <2>2, <2>4, <2>5, <2>6, <2>7 DEF Unwritten
<1> HIDE DEF data
<1>9. /\ Rising(data) /\ Lower(Handed(out), Numbers(data))
      /\ Consecutive(Handed(out) \cup Numbers(data), Unwritten', appended)
  BY <1>4, <1>8, TakeFirst DEF Lines, LogTypes
<1>10. /\ FileOK(out')
       /\ Handed(out') = Handed(out) \cup Numbers(data)
       /\ taken = Len(data) /\ ok => out'.lost = out.lost
  BY <1>2, <1>4, <1>9, AppendInlockHands DEF Lines
<1>11. errors' = 0 => out'.lost = {}
  <2>1. errors' = 0 => errors = 0 /\ taken = Len(data) /\ ok
    BY <1>4, <1>5
  <2> QED
    BY <1>10, <2>1 DEF Lines
<1>12. Lines'
  BY <1>3, <1>9, <1>10, <1>11 DEF Lines
<1> QED
  BY <1>6, <1>7, <1>12

\* A step that leaves the buffers and what the thread took alone, or drops what it wrote.
LEMMA BuffersKept ==
  ASSUME LogInv, LogTypes', Spares', FileOK(out'), Handed(out') = Handed(out),
         errors' = 0 => errors = 0 /\ out'.lost = out.lost,
         pc' = "ended" => (out').stdio = <<>>,
         UNCHANGED <<current, buffers, appended>>, Waiting' = Waiting
  PROVE  LogInv'
<1>1. Unwritten' = Unwritten
  BY DEF Unwritten
<1> QED
  BY <1>1 DEF LogInv, Lines

\* The thread gives buffers back.
LEMMA RecycleStep ==
  ASSUME LogInv, Recycle
  PROVE  LogInv'
<1> USE DEF LogInv
<1>1. /\ newbuffer1' = <<>> /\ newbuffer2' = <<>> /\ toWrite' = <<>> /\ written' = 0
      /\ pc' = "flush" /\ written = Len(toWrite)
      /\ UNCHANGED <<current, next, buffers, appended, out, errors>>
  BY DEF Recycle, reset, LogTypes, front, env
<1>2. LogTypes' /\ Spares'
  BY <1>1, BufferPointers DEF LogTypes, Spares
<1>3. Waiting' = Waiting
  BY <1>1 DEF Waiting, LogTypes, Buffers
<1>4. FileOK(out)
  BY DEF Lines
<1> QED
  BY <1>1, <1>2, <1>3, <1>4, BuffersKept

\* The thread flushes.
LEMMA FlushStep ==
  ASSUME LogInv, FlushFile
  PROVE  LogInv'
<1> USE DEF LogInv
<1>1. PICK ok \in BOOLEAN : Fails(~ok) /\ out' = Flush(out, ok)
  BY DEF FlushFile
<1>2. /\ pc = "flush" /\ pc' = "test"
      /\ UNCHANGED <<current, next, buffers, appended, newbuffer1, newbuffer2, toWrite, written>>
  BY DEF FlushFile, front, back
<1>3. Keeps(out, out', TRUE)
  BY <1>1, FlushKeeps DEF Lines
<1>4. errors' \in Nat /\ (errors' = 0 => errors = 0)
  BY <1>1 DEF Fails, LogTypes
<1>5. LogTypes' /\ Spares' /\ Waiting' = Waiting
  BY <1>2, <1>4 DEF LogTypes, Spares, Waiting
<1> QED
  BY <1>2, <1>3, <1>4, <1>5, BuffersKept DEF Keeps

\* The thread goes on, or ends and closes the file.
LEMMA TestStep ==
  ASSUME LogInv, Test
  PROVE  LogInv'
<1> USE DEF LogInv
<1>1. /\ pc = "test" /\ UNCHANGED <<current, next, buffers, appended, newbuffer1, newbuffer2,
                                    toWrite, written>>
  BY DEF Test, front, back
<1>2. CASE running
  <2>1. pc' = "check" /\ out' = out /\ errors' = errors
    BY <1>2 DEF Test, env
  <2>2. LogTypes' /\ Spares' /\ Waiting' = Waiting /\ FileOK(out)
    BY <1>1, <2>1 DEF LogTypes, Spares, Waiting, Lines
  <2> QED
    BY <1>1, <2>1, <2>2, BuffersKept
<1>3. CASE ~running
  <2>1. PICK ok \in BOOLEAN : Fails(~ok) /\ out' = Close(Flush(out, ok), ok)
    BY <1>3 DEF Test
  <2>2. pc' = "ended"
    BY <1>3 DEF Test
  <2>3. Keeps(out, Flush(out, ok), TRUE)
    BY FlushKeeps DEF Lines
  <2>4. Keeps(Flush(out, ok), out', ok) /\ (out').stdio = <<>>
    BY <2>1, <2>3, CloseKeeps DEF Keeps
  <2>5. errors' \in Nat /\ (errors' = 0 => errors = 0 /\ ok)
    BY <2>1 DEF Fails, LogTypes
  <2>6. LogTypes' /\ Spares' /\ Waiting' = Waiting
    BY <1>1, <2>2, <2>5 DEF LogTypes, Spares, Waiting
  <2> QED
    BY <1>1, <2>3, <2>4, <2>5, <2>6, BuffersKept DEF Keeps
<1> QED
  BY <1>2, <1>3

\* The other steps touch neither buffers nor file.
LEMMA OtherStep ==
  ASSUME LogInv, UNCHANGED <<front, back, out, errors>>,
         pc' # pc => pc # "write" /\ pc' # "write" /\ pc' # "ended"
  PROVE  LogInv'
<1> USE DEF LogInv
<1>1. UNCHANGED <<current, next, buffers, appended, newbuffer1, newbuffer2, toWrite, written,
                  out, errors>>
  BY DEF front, back
<1>2. LogTypes' /\ Waiting' = Waiting /\ FileOK(out)
  BY <1>1 DEF LogTypes, Waiting, Lines
<1>3. Spares' /\ (pc' = "ended" => out.stdio = <<>>)
  BY <1>1 DEF Spares, Lines
<1> QED
  BY <1>1, <1>2, <1>3, BuffersKept

\* Every step of the threads keeps the invariant.
LEMMA LogInvStep == LogInv /\ [LogNext]_logVars => LogInv'
<1> SUFFICES ASSUME LogInv, [LogNext]_logVars PROVE LogInv'
  OBVIOUS
<1>1. CASE append
  BY <1>1, AppendStep
<1>2. CASE stop
  BY <1>2, OtherStep DEF stop, StopRunning, StopNotify, Join, Notified, env
<1>3. CASE Wait \/ WaitEnds
  BY <1>3, OtherStep DEF Wait, WaitEnds, env
<1>4. CASE SwapBuffers
  BY <1>4, SwapStep
<1>5. CASE WriteBuffer
  BY <1>5, WriteStep
<1>6. CASE Recycle
  BY <1>6, RecycleStep
<1>7. CASE FlushFile
  BY <1>7, FlushStep
<1>8. CASE Test
  BY <1>8, TestStep
<1>9. CASE Tick
  BY <1>9, OtherStep DEF Tick
<1>10. CASE UNCHANGED logVars
  BY <1>10, OtherStep DEF logVars, env
<1> QED
  BY <1>1, <1>2, <1>3, <1>4, <1>5, <1>6, <1>7, <1>8, <1>9, <1>10
  DEF LogNext, threadFunc


\* The invariant holds in every reachable state.
LEMMA LogInvariance == LogSpec => []LogInv
<1>1. LogInit => LogInv
  BY InitLogInv
<1>2. LogInv /\ [LogNext]_logVars => LogInv'
  BY LogInvStep
<1> QED
  BY <1>1, <1>2, PTL DEF LogSpec

\* The logging thread always has the buffers it takes with back(), and both spare
\* buffers when it swaps, for every size of buffer and every length of line.
THEOREM BuffersSuffice == LogSpec => []SpareBuffers
<1>1. LogInv => SpareBuffers
  <2> SUFFICES ASSUME LogInv PROVE SpareBuffers
    OBVIOUS
  <2>1. toWrite \in Buffers /\ Len(toWrite) \in Nat
    BY DEF LogInv, LogTypes, Buffers
  <2>2. Len(Kept) = IF Len(toWrite) > 2 THEN 2 ELSE Len(toWrite)
    BY <2>1 DEF Kept, Buffers
  <2>3. pc = "write" => Len(Kept) >= (IF newbuffer2 = NoBuffer THEN 2 ELSE 1)
    BY <2>1, <2>2 DEF LogInv, Spares
  <2>4. pc \in {"check", "wait", "swap"} => newbuffer1 = <<>> /\ newbuffer2 = <<>>
    BY DEF LogInv, Spares
  <2> QED
    BY <2>3, <2>4, BufferPointers DEF SpareBuffers
<1> QED
  BY <1>1, LogInvariance, PTL

\* No line is duplicated, reordered or dropped between append and the file, for any
\* sizes, lengths, clock and number of failing file operations; only a failure loses
\* lines, and those are accounted for.
THEOREM LogComplete == LogSpec => []LogIntact
<1>1. LogInv => LogIntact
  <2> SUFFICES ASSUME LogInv PROVE LogIntact
    OBVIOUS
  <2> DEFINE u == Unwritten
             d == out.disk
             s == out.stdio
             lst == <<d, s>> \o u
  <2>1. /\ d \in Seq(Line) /\ s \in Seq(Line) /\ out.lost \in SUBSET Nat
        /\ Rising(d \o s) /\ Numbers(d \o s) \cap out.lost = {}
    BY DEF LogInv, Lines, FileOK, FileShape, Whole
  <2>2. /\ u \in Buffers /\ Consecutive(Numbers(d \o s) \cup out.lost, u, appended)
    BY UnwrittenEnds DEF LogInv, Lines, Handed, Whole
  <2>3. Log = lst
    BY DEF Log
  <2> HIDE DEF u, d, s
  <2>4. /\ Len(u) \in Nat /\ DOMAIN u = 1..Len(u) /\ DOMAIN lst = 1..(Len(u) + 2)
        /\ lst[1] = d /\ lst[2] = s /\ 1 \in DOMAIN lst /\ 2 \in DOMAIN lst
        /\ \A i \in 1..Len(u) : lst[i + 2] = u[i] /\ i + 2 \in 1..(Len(u) + 2)
        /\ \A i \in 1..(Len(u) + 2) :
             i = 1 \/ i = 2 \/ (2 < i /\ i - 2 \in 1..Len(u) /\ lst[i] = u[i - 2])
    <3>1. u \in Seq(Seq(Line)) /\ <<d, s>> \in Seq(Seq(Line)) /\ Len(<<d, s>>) = 2
      BY <2>1, <2>2 DEF Buffers
    <3> QED
      BY <3>1
  <2> HIDE DEF lst
  <2>5. /\ Rising(d) /\ Lower(Numbers(d), Numbers(s)) /\ Rising(s)
        /\ Numbers(d \o s) = Numbers(d) \cup Numbers(s)
    <3>1. \A i \in 1..Len(s) : (d \o s)[Len(d) + i] = s[i] /\ Len(d) + i \in DOMAIN (d \o s)
      BY <2>1
    <3>2. Rising(s)
      <4>1. SUFFICES ASSUME NEW i \in 1..Len(s), NEW j \in 1..Len(s), i < j
                     PROVE  s[i].n < s[j].n
        BY <2>1 DEF Rising
      <4>2. Len(d) + i < Len(d) + j
        BY <2>1, <4>1
      <4> QED
        BY <2>1, <3>1, <4>2 DEF Rising
    <3> QED
      BY <2>1, <3>2, RisingParts, NumbersConcat
  <2>6. \A i \in 1..Len(u) : /\ Lower(Numbers(d), Numbers(u[i]))
                             /\ Lower(Numbers(s), Numbers(u[i]))
                             /\ Numbers(u[i]) \cap out.lost = {}
    <3>1. \A i \in 1..Len(u) : Lower(Numbers(d) \cup Numbers(s) \cup out.lost, Numbers(u[i]))
      BY <2>2, <2>4, <2>5 DEF Consecutive
    <3>2. ASSUME NEW i \in 1..Len(u)
          PROVE  Lower(Numbers(d), Numbers(u[i])) /\ Lower(Numbers(s), Numbers(u[i]))
      BY <3>1 DEF Lower
    <3>3. ASSUME NEW i \in 1..Len(u), NEW a \in Numbers(u[i]), a \in out.lost PROVE FALSE
      <4>1. a < a /\ a \in Nat
        BY <2>1, <3>1, <3>3 DEF Lower
      <4> QED
        BY <4>1
    <3> QED
      BY <3>2, <3>3
  <2>7. ASSUME NEW i \in 1..(Len(u) + 2), NEW j \in 1..(Len(u) + 2), i < j
        PROVE  Lower(Numbers(lst[i]), Numbers(lst[j]))
    <3>1. CASE i = 1 /\ j = 2
      BY <2>4, <2>5, <3>1
    <3>2. CASE i \in {1, 2} /\ 2 < j
      <4>1. j - 2 \in 1..Len(u) /\ lst[j] = u[j - 2]
        BY <2>4, <3>2
      <4>2. lst[i] = d \/ lst[i] = s
        BY <2>4, <3>2
      <4> QED
        BY <2>6, <4>1, <4>2
    <3>3. CASE 2 < i
      <4>1. /\ i - 2 \in 1..Len(u) /\ lst[i] = u[i - 2] /\ j - 2 \in 1..Len(u) /\ lst[j] = u[j - 2]
            /\ i - 2 < j - 2
        BY <2>4, <2>7, <3>3
      <4>2. \A x \in DOMAIN u[i - 2], y \in DOMAIN u[j - 2] : u[i - 2][x].n < u[j - 2][y].n
        BY <2>2, <2>4, <4>1 DEF Consecutive, InOrder
      <4> QED
        BY <4>1, <4>2 DEF Lower, Numbers
    <3> QED
      BY <2>4, <2>7, <3>1, <3>2, <3>3
  <2>8. ASSUME NEW i \in 1..(Len(u) + 2) PROVE Rising(lst[i])
    <3>1. CASE 2 < i
      <4>1. i - 2 \in 1..Len(u) /\ lst[i] = u[i - 2]
        BY <2>4, <3>1
      <4>2. Rising(u[i - 2])
        BY <2>2, <2>4, <4>1 DEF Consecutive, InOrder, Rising
      <4> QED
        BY <4>1, <4>2
    <3> QED
      BY <2>4, <2>5, <3>1
  <2>9. InOrder(lst)
    <3>1. SUFFICES ASSUME NEW i \in 1..(Len(u) + 2), NEW j \in 1..(Len(u) + 2),
                          NEW x \in DOMAIN lst[i], NEW y \in DOMAIN lst[j],
                          i < j \/ (i = j /\ x < y)
                   PROVE  lst[i][x].n < lst[j][y].n
      BY <2>4 DEF InOrder
    <3>2. CASE i < j
      BY <2>7, <3>2 DEF Lower, Numbers
    <3>3. CASE i = j /\ x < y
      BY <2>8, <3>3 DEF Rising
    <3> QED
      BY <3>1, <3>2, <3>3
  <2>10. UNION {Numbers(lst[i]) : i \in DOMAIN lst} = (1..appended) \ out.lost
    <3> DEFINE U == UNION {Numbers(u[i]) : i \in DOMAIN u}
    <3>1. Numbers(d) \cup Numbers(s) \cup out.lost \cup U = 1..appended
      BY <2>2, <2>5 DEF Consecutive
    <3>2. U \cap out.lost = {}
      BY <2>4, <2>6
    <3>3. ASSUME NEW a \in UNION {Numbers(lst[i]) : i \in DOMAIN lst}
          PROVE  a \in Numbers(d) \cup Numbers(s) \cup U
      <4>1. PICK i \in 1..(Len(u) + 2) : a \in Numbers(lst[i])
        BY <2>4, <3>3
      <4> QED
        BY <2>4, <4>1
    <3>4. ASSUME NEW a \in U PROVE a \in UNION {Numbers(lst[i]) : i \in DOMAIN lst}
      <4>1. PICK i \in 1..Len(u) : a \in Numbers(u[i])
        BY <2>4, <3>4
      <4> QED
        BY <2>4, <4>1
    <3>5. Numbers(d) \cup Numbers(s) \subseteq UNION {Numbers(lst[i]) : i \in DOMAIN lst}
      BY <2>4
    <3> HIDE DEF U
    <3> QED
      BY <2>1, <2>5, <3>1, <3>2, <3>3, <3>4, <3>5
  <2>11. /\ errors = 0 => out.lost = {}
         /\ pc = "ended" => out.stdio = <<>> /\ toWrite = <<>>
    BY DEF LogInv, Lines, Spares
  <2> QED
    BY <2>3, <2>9, <2>10, <2>11 DEF LogIntact
<1> QED
  BY <1>1, LogInvariance, PTL
=============================================================================
