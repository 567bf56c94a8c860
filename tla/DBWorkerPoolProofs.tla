------------------------- MODULE DBWorkerPoolProofs -------------------------
(***************************************************************************)
(* Proofs about the connection pool and about the database workers that use  *)
(* it, for any number of threads, connections and tasks.                      *)
(*                                                                         *)
(* The first part is about ConnectionPool by itself: its IInv is inductive. The *)
(* second is about DBWorkerPool: its steps are steps of the pool or leave it    *)
(* alone, so that what holds of the pool holds here, and every accepted task is *)
(* executed before the destructor returns.                                    *)
(***************************************************************************)
EXTENDS DBWorkerPool, FiniteSetTheorems, TLAPS

-----------------------------------------------------------------------------
(* Threads and their stages.                                                 *)

\* The threads at some stages are finitely many, and their number is a number.
LEMMA StageFinite ==
  ASSUME NEW W
  PROVE  /\ IsFiniteSet(Stage(W)) /\ Cardinality(Stage(W)) \in Nat
         /\ Cardinality(Stage(W)') \in Nat
<1>1. /\ IsFiniteSet(Threads)
      /\ Stage(W) \in SUBSET Threads /\ Stage(W)' \in SUBSET Threads
  BY ThreadsAssumption DEF Stage
<1> QED
  BY <1>1, FS_Subset, FS_CardinalityType

\* How many threads are at some stages.
Num(W) == Cardinality(Stage(W))

\* How that number changes with the stage of one thread.
LEMMA StageMoves ==
  ASSUME TypeOK, NEW t \in Threads, NEW to, Goto(t, to), NEW W
  PROVE  /\ Num(W) \in Nat
         /\ pc[t] \in W /\ to \in W => Num(W)' = Num(W)
         /\ pc[t] \notin W /\ to \in W => Num(W)' = Num(W) + 1
         /\ pc[t] \in W /\ to \notin W => Num(W)' = Num(W) - 1
         /\ pc[t] \notin W /\ to \notin W => Num(W)' = Num(W)
<1> DEFINE rest == Stage(W) \ {t}
<1>1. /\ Num(W) \in Nat /\ IsFiniteSet(rest) /\ Cardinality(rest) \in Nat
      /\ pc[t] \in W => Cardinality(rest) = Num(W) - 1
      /\ pc[t] \notin W => Cardinality(rest) = Num(W)
  <2>1. t \in Stage(W) <=> pc[t] \in W
    BY DEF Stage
  <2>2. IsFiniteSet(Stage(W)) /\ Cardinality(Stage(W)) \in Nat
    BY StageFinite
  <2> QED
    BY <2>1, <2>2, FS_RemoveElement, FS_CardinalityType DEF Num
<1>2. CASE to \in W
  <2>1. Stage(W)' = rest \cup {t} /\ t \notin rest
    BY <1>2 DEF Goto, Stage, TypeOK
  <2>2. Cardinality(rest \cup {t}) = Cardinality(rest) + 1
    BY <1>1, <2>1, FS_AddElement
  <2>3. Num(W)' = Cardinality(rest) + 1
    BY <2>1, <2>2 DEF Num
  <2> QED
    BY <1>1, <1>2, <2>3
<1>3. CASE to \notin W
  <2>1. Stage(W)' = rest
    BY <1>3 DEF Goto, Stage, TypeOK
  <2>2. Num(W)' = Cardinality(rest)
    BY <2>1 DEF Num
  <2> QED
    BY <1>1, <1>3, <2>2
<1> QED
  BY <1>2, <1>3

-----------------------------------------------------------------------------
(* The queue of idle connections.                                            *)

\* pop() takes the first handle of the queue.
LEMMA IdlePop ==
  ASSUME NEW S, NEW s \in Seq(S), s # <<>>
  PROVE  /\ Tail(s) \in Seq(S) /\ Head(s) \in S
         /\ Len(s) \in Nat \ {0} /\ Len(Tail(s)) = Len(s) - 1
         /\ Head(s) = s[1] /\ \A i \in 1..Len(Tail(s)) : Tail(s)[i] = s[i + 1]
         /\ ToSet(s) = ToSet(Tail(s)) \cup {Head(s)}
<1>1. /\ Tail(s) \in Seq(S) /\ Head(s) \in S
      /\ Len(s) \in Nat \ {0} /\ Len(Tail(s)) = Len(s) - 1
      /\ Head(s) = s[1] /\ \A i \in 1..Len(Tail(s)) : Tail(s)[i] = s[i + 1]
  OBVIOUS
<1>2. DOMAIN s = 1..Len(s) /\ DOMAIN Tail(s) = 1..Len(Tail(s))
  BY <1>1
<1>3. \A x \in ToSet(s) : x \in ToSet(Tail(s)) \cup {Head(s)}
  <2> TAKE x \in ToSet(s)
  <2>1. PICK i \in 1..Len(s) : x = s[i]
    BY <1>2 DEF ToSet
  <2>2. CASE i = 1
    BY <1>1, <2>1, <2>2
  <2>3. CASE i # 1
    <3>1. i - 1 \in 1..Len(Tail(s)) /\ Tail(s)[i - 1] = x
      BY <1>1, <2>1, <2>3
    <3> QED
      BY <1>2, <3>1 DEF ToSet
  <2> QED
    BY <2>2, <2>3
<1>4. \A x \in ToSet(Tail(s)) \cup {Head(s)} : x \in ToSet(s)
  <2> TAKE x \in ToSet(Tail(s)) \cup {Head(s)}
  <2>1. CASE x = Head(s)
    <3>1. 1 \in 1..Len(s) /\ x = s[1]
      BY <1>1, <2>1
    <3> QED
      BY <1>2, <3>1 DEF ToSet
  <2>2. CASE x \in ToSet(Tail(s))
    <3>1. PICK i \in 1..Len(Tail(s)) : x = Tail(s)[i]
      BY <1>2, <2>2 DEF ToSet
    <3>2. i + 1 \in 1..Len(s) /\ x = s[i + 1]
      BY <1>1, <3>1
    <3> QED
      BY <1>2, <3>2 DEF ToSet
  <2> QED
    BY <2>1, <2>2
<1> QED
  BY <1>1, <1>3, <1>4

\* push() adds a handle at the end.
LEMMA IdlePush ==
  ASSUME NEW S, NEW s \in Seq(S), NEW e \in S
  PROVE  /\ Append(s, e) \in Seq(S)
         /\ Len(s) \in Nat /\ Len(Append(s, e)) = Len(s) + 1
         /\ \A i \in 1..Len(s) : Append(s, e)[i] = s[i]
         /\ Append(s, e)[Len(s) + 1] = e
         /\ ToSet(Append(s, e)) = ToSet(s) \cup {e}
<1>1. /\ Append(s, e) \in Seq(S)
      /\ Len(s) \in Nat /\ Len(Append(s, e)) = Len(s) + 1
      /\ \A i \in 1..Len(s) : Append(s, e)[i] = s[i]
      /\ Append(s, e)[Len(s) + 1] = e
  OBVIOUS
<1>2. DOMAIN s = 1..Len(s) /\ DOMAIN Append(s, e) = 1..(Len(s) + 1)
  BY <1>1
<1>3. \A x \in ToSet(Append(s, e)) : x \in ToSet(s) \cup {e}
  BY <1>1, <1>2 DEF ToSet
<1>4. \A x \in ToSet(s) \cup {e} : x \in ToSet(Append(s, e))
  <2> TAKE x \in ToSet(s) \cup {e}
  <2>1. CASE x \in ToSet(s)
    BY <1>1, <1>2, <2>1 DEF ToSet
  <2>2. CASE x = e
    <3>1. Len(s) + 1 \in 1..(Len(s) + 1)
      BY <1>1
    <3> QED
      BY <1>1, <1>2, <2>2, <3>1 DEF ToSet
  <2> QED
    BY <2>1, <2>2
<1> QED
  BY <1>1, <1>3, <1>4

\* A queue of n elements has n places.
LEMMA Upto ==
  ASSUME NEW n \in Nat
  PROVE  IsFiniteSet(1..n) /\ Cardinality(1..n) = n
<1>1. IsFiniteSet(1..n) /\ Cardinality(1..n) = IF 1 > n THEN 0 ELSE n - 1 + 1
  BY FS_Interval
<1> QED
  BY <1>1

\* The sizes of two parts of a set add up.
LEMMA Parts ==
  ASSUME NEW A, NEW B, IsFiniteSet(A), IsFiniteSet(B), A \cap B = {}
  PROVE  Cardinality(A \cup B) = Cardinality(A) + Cardinality(B)
<1>1. Cardinality(A \cup B) = Cardinality(A) + Cardinality(B) - Cardinality(A \cap B)
  BY FS_Union
<1>2. Cardinality(A) \in Nat /\ Cardinality(B) \in Nat /\ Cardinality(A \cap B) = 0
  BY FS_EmptySet, FS_CardinalityType
<1> QED
  BY <1>1, <1>2

\* Survivors lists what is not dropped, once and in order: if no element of s is
\* there twice, the number of survivors is what is left.
LEMMA SurvivorsLeft ==
  ASSUME NEW S, NEW s \in Seq(S), \A i, j \in 1..Len(s) : s[i] = s[j] => i = j,
         NEW drop \in SUBSET ToSet(s), NEW left \in Survivors(s, drop)
  PROVE  /\ left \in Seq(S)
         /\ ToSet(left) = ToSet(s) \ drop
         /\ \A i, j \in 1..Len(left) : left[i] = left[j] => i = j
         /\ IsFiniteSet(drop) /\ Cardinality(drop) \in Nat
         /\ Len(left) = Len(s) - Cardinality(drop)
<1> DEFINE kept == Kept(s, drop)
           gone == {i \in 1..Len(s) : s[i] \in drop}
           n == Cardinality(kept)
<1>1. Len(s) \in Nat /\ DOMAIN s = 1..Len(s) /\ \A i \in 1..Len(s) : s[i] \in S
  OBVIOUS
<1>2. IsFiniteSet(1..Len(s)) /\ Cardinality(1..Len(s)) = Len(s)
  BY <1>1, Upto
<1>3. /\ kept \in SUBSET (1..Len(s)) /\ gone \in SUBSET (1..Len(s))
      /\ kept \cup gone = 1..Len(s) /\ kept \cap gone = {}
  BY DEF Kept
<1>4. /\ \A i \in kept : s[i] \notin drop
      /\ \A i \in 1..Len(s) : s[i] \notin drop => i \in kept
      /\ \A i \in gone : s[i] \in drop
      /\ \A i \in 1..Len(s) : s[i] \in drop => i \in gone
  BY DEF Kept
<1>0. PICK place \in Places(s, drop) : left = [i \in DOMAIN place |-> s[place[i]]]
  BY DEF Survivors
<1>5. /\ place \in [1..n -> kept]
      /\ \A i, j \in 1..n : i < j => place[i] < place[j]
  BY DEF Places
<1> HIDE DEF kept, gone
<1>6. IsFiniteSet(kept) /\ IsFiniteSet(gone) /\ n \in Nat /\ Cardinality(gone) \in Nat
  BY <1>2, <1>3, FS_Subset, FS_CardinalityType
<1>7. n + Cardinality(gone) = Len(s)
  BY <1>2, <1>3, <1>6, Parts
<1>8. IsFiniteSet(drop) /\ Cardinality(drop) = Cardinality(gone)
  <2> DEFINE f == [i \in gone |-> s[i]]
  <2>1. f \in [gone -> drop]
    BY <1>4
  <2>2. \A i, j \in gone : f[i] = f[j] => i = j
    BY <1>3
  <2>3. \A x \in drop : \E i \in gone : f[i] = x
    BY <1>1, <1>4 DEF ToSet
  <2> HIDE DEF f
  <2>4. f \in Surjection(gone, drop) /\ f \in Injection(gone, drop)
    BY <2>1, <2>2, <2>3 DEF Surjection, Injection, IsInjective
  <2> QED
    BY <1>6, <2>4, FS_Surjection
<1>9. place \in Injection(1..n, kept) /\ place \in Surjection(1..n, kept)
  <2>1. \A i, j \in 1..n : place[i] = place[j] => i = j
    <3> SUFFICES ASSUME NEW i \in 1..n, NEW j \in 1..n, place[i] = place[j], i # j
                 PROVE  FALSE
      OBVIOUS
    <3>1. i < j \/ j < i
      BY <1>6
    <3>2. place[i] \in Nat /\ place[j] \in Nat
      BY <1>1, <1>3, <1>5
    <3> QED
      BY <1>5, <3>1, <3>2
  <2>2. place \in Injection(1..n, kept)
    BY <1>5, <2>1 DEF Injection, IsInjective
  <2>3. IsFiniteSet(1..n) /\ Cardinality(1..n) = n
    BY <1>6, Upto
  <2> QED
    BY <1>6, <2>2, <2>3, FS_Injection
<1>10. left \in Seq(S) /\ Len(left) = n /\ DOMAIN left = 1..n
  <2>1. left \in [1..n -> S]
    BY <1>0, <1>1, <1>3, <1>5
  <2> QED
    BY <1>6, <2>1
<1>11. \A i \in 1..n : place[i] \in 1..Len(s) /\ left[i] = s[place[i]] /\ s[place[i]] \notin drop
  BY <1>0, <1>3, <1>4, <1>5
<1>12. \A i, j \in 1..n : left[i] = left[j] => i = j
  <2>1. \A i, j \in 1..n : place[i] = place[j] => i = j
    BY <1>5, <1>9 DEF Injection, IsInjective
  <2>2. ASSUME NEW i \in 1..n, NEW j \in 1..n, left[i] = left[j] PROVE i = j
    <3>1. s[place[i]] = s[place[j]] /\ place[i] \in 1..Len(s) /\ place[j] \in 1..Len(s)
      BY <1>11, <2>2
    <3> QED
      BY <2>1, <3>1
  <2> QED
    BY <2>2
<1>13. ToSet(left) = ToSet(s) \ drop
  <2>1. \A x \in ToSet(left) : x \in ToSet(s) \ drop
    BY <1>1, <1>10, <1>11 DEF ToSet
  <2>2. ASSUME NEW x \in ToSet(s) \ drop PROVE x \in ToSet(left)
    <3>1. PICK i \in kept : x = s[i]
      BY <1>1, <1>4 DEF ToSet
    <3>2. PICK j \in 1..n : place[j] = i
      BY <1>9 DEF Surjection
    <3> QED
      BY <1>10, <1>11, <3>1, <3>2 DEF ToSet
  <2> QED
    BY <2>1, <2>2
<1> HIDE DEF n
<1> QED
  BY <1>6, <1>7, <1>8, <1>10, <1>12, <1>13

-----------------------------------------------------------------------------
(* The connection pool.                                                      *)

\* The keep-alive function drops some idle connections, and each from the count.
LEMMA KeepAliveDrops ==
  ASSUME IInv, KeepAlive
  PROVE  \E dead \in SUBSET ToSet(idle) :
            /\ Cardinality(dead) \in Nat
            /\ idle' \in Seq(Handles)
            /\ ToSet(idle') = ToSet(idle) \ dead
            /\ \A i, j \in 1..Len(idle') : idle'[i] = idle'[j] => i = j
            /\ Len(idle') = Len(idle) - Cardinality(dead)
            /\ active' = active - Cardinality(dead)
            /\ open' = open \ dead
            /\ UNCHANGED <<pc, held, destroyed>>
<1>1. PICK dead \in SUBSET ToSet(idle) :
        /\ idle' \in Survivors(idle, dead)
        /\ active' = active - Cardinality(dead)
        /\ open' = open \ dead
  BY DEF KeepAlive
<1>3. idle \in Seq(Handles) /\ \A i, j \in 1..Len(idle) : idle[i] = idle[j] => i = j
  BY DEF IInv, TypeOK, Accounted, Exclusive
<1>4. /\ idle' \in Seq(Handles)
      /\ ToSet(idle') = ToSet(idle) \ dead
      /\ \A i, j \in 1..Len(idle') : idle'[i] = idle'[j] => i = j
      /\ Cardinality(dead) \in Nat
      /\ Len(idle') = Len(idle) - Cardinality(dead)
  BY <1>1, <1>3, SurvivorsLeft
<1>5. UNCHANGED <<pc, held, destroyed>>
  BY DEF KeepAlive
<1> QED
  BY <1>1, <1>4, <1>5

\* What a thread does changes its own stage; notify_one also that of one waiter.
LEMMA PoolTypeStep ==
  ASSUME IInv, [Next]_vars
  PROVE  TypeOK' /\ HoldsHandle'
<1> USE DEF IInv, TypeOK, HoldsHandle, Stages, Goto
<1>0. 0 \notin Handles /\ Handles \subseteq Nat
  BY MaxPoolAssumption DEF Handles
<1>1. ASSUME NEW t \in Threads, TakeIdle(t), pc[t] \in {"out", "woken", "expired"},
             UNCHANGED <<active, open, destroyed>>
      PROVE  TypeOK' /\ HoldsHandle'
  <2>1. Head(idle) \in Handles /\ Tail(idle) \in Seq(Handles)
    BY <1>1, IdlePop DEF TakeIdle
  <2> QED
    BY <1>0, <1>1, <2>1 DEF TakeIdle
<1>2. ASSUME NEW t \in Threads, borrow(t) PROVE TypeOK' /\ HoldsHandle'
  BY <1>1, <1>2 DEF borrow
<1>3. ASSUME NEW t \in Threads, createConnection(t)
      PROVE  TypeOK' /\ HoldsHandle'
  BY <1>0, <1>3 DEF createConnection
<1>4. ASSUME NEW t \in Threads, createFails(t) PROVE TypeOK' /\ HoldsHandle'
  BY <1>4 DEF createFails
<1>5. ASSUME NEW t \in Threads,
             SpuriousWakeup(t) \/ WaitExpires(t) \/ Degraded(t)
      PROVE  TypeOK' /\ HoldsHandle'
  BY <1>5 DEF SpuriousWakeup, WaitExpires, Degraded
<1>6. ASSUME NEW t \in Threads, Recheck(t) PROVE TypeOK' /\ HoldsHandle'
  BY <1>1, <1>6 DEF Recheck
<1>7. ASSUME NEW t \in Threads, RecycleDead(t) PROVE TypeOK' /\ HoldsHandle'
  BY <1>7 DEF RecycleDead
<1>8. ASSUME NEW t \in Threads, Uncount(t) \/ RecyclePing(t)
      PROVE  TypeOK' /\ HoldsHandle'
  <2>1. CASE Uncount(t)
    BY <2>1 DEF Uncount
  <2>2. CASE RecyclePing(t)
    BY <2>2 DEF RecyclePing
  <2> QED
    BY <1>8, <2>1, <2>2
<1>9. ASSUME NEW t \in Threads, RecyclePush(t) PROVE TypeOK' /\ HoldsHandle'
  <2>1. Append(idle, held[t]) \in Seq(Handles)
    BY <1>9, IdlePush DEF RecyclePush
  <2> QED
    BY <1>9, <2>1 DEF RecyclePush
<1>10. ASSUME NEW t \in Threads, RecycleNotify(t)
       PROVE  TypeOK' /\ HoldsHandle'
  BY <1>10 DEF RecycleNotify, Stage
<1>11. CASE KeepAlive
  BY <1>11, KeepAliveDrops
<1>12. CASE Destructor
  <2>1. idle' \in Seq(Handles) /\ active' \in Int
    BY <1>12 DEF Destructor
  <2> QED
    BY <1>12, <2>1 DEF Destructor
<1>13. CASE (\E c \in Handles : ConnectionLost(c)) \/ UNCHANGED vars
  BY <1>13 DEF ConnectionLost, vars
<1> QED
  BY <1>2, <1>3, <1>4, <1>5, <1>6, <1>7, <1>8, <1>9, <1>10, <1>11, <1>12, <1>13
  DEF Next, BorrowStep, ReturnStep, Terminated

\* A step counts the connections it takes, opens, closes or gives up.
LEMMA CountedStep ==
  ASSUME IInv, [Next]_vars, TypeOK'
  PROVE  Counted'
<1> DEFINE Busy == {"using", "healthy", "creating", "closing"}
           n == Num(Busy)
<1>1. /\ n \in Nat /\ active = Len(idle) + n /\ active <= MaxPool
      /\ MaxPool \in Nat /\ Len(idle) \in Nat /\ TypeOK /\ idle \in Seq(Handles)
      /\ pc \in [Threads -> Stages]
  BY StageFinite, MaxPoolAssumption
  DEF Num, IInv, TypeOK, Accounted, Counted
<1>2. SUFFICES active' <= MaxPool /\ active' = Len(idle') + n'
  BY DEF Num, Counted
<1>3. ASSUME NEW t \in Threads, NEW to, Goto(t, to)
      PROVE  /\ pc[t] \in Busy /\ to \in Busy => n' = n
             /\ pc[t] \notin Busy /\ to \in Busy => n' = n + 1
             /\ pc[t] \in Busy /\ to \notin Busy => n' = n - 1
             /\ pc[t] \notin Busy /\ to \notin Busy => n' = n
  BY <1>1, <1>3, StageMoves
<1>4. UNCHANGED pc => n' = n
  BY DEF Num, Stage
<1> HIDE DEF n
<1> USE <1>1
<1>5. ASSUME NEW t \in Threads, TakeIdle(t), pc[t] \in {"out", "woken", "expired"},
             UNCHANGED active
      PROVE  active' <= MaxPool /\ active' = Len(idle') + n'
  <2>1. n' = n + 1
    BY <1>3, <1>5 DEF TakeIdle
  <2>2. Len(idle') = Len(idle) - 1
    BY <1>5, IdlePop DEF TakeIdle
  <2> QED
    BY <1>5, <2>1, <2>2
<1>6. ASSUME NEW t \in Threads, borrow(t)
      PROVE  active' <= MaxPool /\ active' = Len(idle') + n'
  BY <1>3, <1>5, <1>6 DEF borrow
<1>7. ASSUME NEW t \in Threads, createConnection(t)
      PROVE  active' <= MaxPool /\ active' = Len(idle') + n'
  BY <1>3, <1>7 DEF createConnection
<1>8. ASSUME NEW t \in Threads, createFails(t)
      PROVE  active' <= MaxPool /\ active' = Len(idle') + n'
  <2>1. n' = n - 1
    BY <1>3, <1>8 DEF createFails
  <2> QED
    BY <1>8, <2>1 DEF createFails
<1>9. ASSUME NEW t \in Threads,
             SpuriousWakeup(t) \/ WaitExpires(t) \/ Degraded(t)
      PROVE  active' <= MaxPool /\ active' = Len(idle') + n'
  BY <1>3, <1>9 DEF SpuriousWakeup, WaitExpires, Degraded
<1>10. ASSUME NEW t \in Threads, Recheck(t)
       PROVE  active' <= MaxPool /\ active' = Len(idle') + n'
  BY <1>3, <1>5, <1>10 DEF Recheck
<1>11. ASSUME NEW t \in Threads, RecycleDead(t)
       PROVE  active' <= MaxPool /\ active' = Len(idle') + n'
  BY <1>3, <1>11 DEF RecycleDead
<1>12. ASSUME NEW t \in Threads, Uncount(t)
       PROVE  active' <= MaxPool /\ active' = Len(idle') + n'
  <2>1. n' = n - 1
    BY <1>3, <1>12 DEF Uncount
  <2> QED
    BY <1>12, <2>1 DEF Uncount
<1>13. ASSUME NEW t \in Threads, RecyclePing(t)
       PROVE  active' <= MaxPool /\ active' = Len(idle') + n'
  BY <1>3, <1>13 DEF RecyclePing
<1>14. ASSUME NEW t \in Threads, RecyclePush(t)
       PROVE  active' <= MaxPool /\ active' = Len(idle') + n'
  <2>1. n' = n - 1
    BY <1>3, <1>14 DEF RecyclePush
  <2>2. Len(idle') = Len(idle) + 1
    BY <1>14, IdlePush DEF RecyclePush, IInv, TypeOK, HoldsHandle
  <2> QED
    BY <1>14, <2>1, <2>2 DEF RecyclePush
<1>15. ASSUME NEW t \in Threads, RecycleNotify(t)
       PROVE  active' <= MaxPool /\ active' = Len(idle') + n'
  <2>1. Stage(Busy)' = Stage(Busy)
    BY <1>15 DEF RecycleNotify, Goto, Stage
  <2> QED
    BY <1>15, <2>1 DEF RecycleNotify, n, Num
<1>16. CASE KeepAlive
  BY <1>4, <1>16, KeepAliveDrops
<1>17. CASE Destructor
  <2>1. Stage(Busy) = {}
    BY <1>17 DEF Destructor, Stage
  <2>2. n = 0
    BY <2>1, FS_EmptySet DEF n, Num
  <2>3. Len(idle') = 0
    BY <1>17 DEF Destructor
  <2> QED
    BY <1>4, <1>17, <2>2, <2>3 DEF Destructor
<1>18. CASE (\E c \in Handles : ConnectionLost(c)) \/ UNCHANGED vars
  BY <1>4, <1>18 DEF ConnectionLost, vars
<1> QED
  BY <1>6, <1>7, <1>8, <1>9, <1>10, <1>11, <1>12, <1>13, <1>14, <1>15, <1>16, <1>17, <1>18
  DEF Next, BorrowStep, ReturnStep, Terminated

\* A connection that becomes idle has a thread that tells of it, and one that was
\* told and finds none goes back to waiting only over an empty queue.
LEMMA StrandedStep ==
  ASSUME IInv, [Next]_vars, TypeOK'
  PROVE  NoneStranded'
<1> DEFINE Told == {"notify", "woken", "expired"}
           n == Num(Told)
           sleepy == Stage({"waiting"}) # {}
<1>1. /\ n \in Nat /\ n' \in Nat
      /\ sleepy => Len(idle) <= n
      /\ Len(idle) \in Nat /\ TypeOK /\ idle \in Seq(Handles)
      /\ pc \in [Threads -> Stages]
  BY StageFinite DEF Num, IInv, TypeOK, NoneStranded
<1>2. SUFFICES sleepy' => Len(idle') <= n'
  BY DEF Num, NoneStranded
<1>3. ASSUME NEW t \in Threads, NEW to, Goto(t, to)
      PROVE  /\ pc[t] \in Told /\ to \in Told => n' = n
             /\ pc[t] \notin Told /\ to \in Told => n' = n + 1
             /\ pc[t] \in Told /\ to \notin Told => n' = n - 1
             /\ pc[t] \notin Told /\ to \notin Told => n' = n
             /\ sleepy' /\ to # "waiting" => sleepy
  <2>1. /\ pc[t] \in Told /\ to \in Told => n' = n
        /\ pc[t] \notin Told /\ to \in Told => n' = n + 1
        /\ pc[t] \in Told /\ to \notin Told => n' = n - 1
        /\ pc[t] \notin Told /\ to \notin Told => n' = n
    BY <1>1, <1>3, StageMoves
  <2>2. sleepy' /\ to # "waiting" => sleepy
    BY <1>1, <1>3 DEF Goto, Stage
  <2> QED
    BY <2>1, <2>2
<1>4. UNCHANGED pc => n' = n /\ (sleepy' <=> sleepy)
  BY DEF Num, Stage
<1> HIDE DEF n, sleepy
<1> USE <1>1
<1>6. idle' = <<>> => Len(idle') <= n'
  OBVIOUS
<1>7. ASSUME NEW t \in Threads, TakeIdle(t), pc[t] \in {"out", "woken", "expired"}
      PROVE  sleepy' => Len(idle') <= n'
  <2>1. Len(idle') = Len(idle) - 1
    BY <1>7, IdlePop DEF TakeIdle
  <2>2. n' >= n - 1 /\ (sleepy' => sleepy)
    BY <1>3, <1>7 DEF TakeIdle
  <2> QED
    BY <2>1, <2>2
<1>8. ASSUME NEW t \in Threads, borrow(t) \/ Recheck(t)
      PROVE  sleepy' => Len(idle') <= n'
  BY <1>6, <1>7, <1>8 DEF borrow, Recheck
<1>9. ASSUME NEW t \in Threads,
             \/ createConnection(t) \/ createFails(t) \/ RecycleDead(t)
             \/ Uncount(t) \/ RecyclePing(t) \/ Degraded(t)
             \/ SpuriousWakeup(t) \/ WaitExpires(t)
      PROVE  sleepy' => Len(idle') <= n'
  <2>1. idle' = idle
    BY <1>9 DEF createConnection, createFails, RecycleDead, Uncount,
                RecyclePing, Degraded, SpuriousWakeup, WaitExpires
  <2>2. PICK to \in {"using", "null", "closing", "out", "healthy", "woken", "expired"} :
          Goto(t, to)
    BY <1>9 DEF createConnection, createFails, RecycleDead, Uncount,
                RecyclePing, Degraded, SpuriousWakeup, WaitExpires
  <2>3. pc[t] \notin Told
    BY <1>9 DEF createConnection, createFails, RecycleDead, Uncount,
                RecyclePing, Degraded, SpuriousWakeup, WaitExpires
  <2> QED
    BY <1>3, <2>1, <2>2, <2>3
<1>10. ASSUME NEW t \in Threads, RecyclePush(t)
       PROVE  sleepy' => Len(idle') <= n'
  <2>1. n' = n + 1 /\ (sleepy' => sleepy)
    BY <1>3, <1>10 DEF RecyclePush
  <2>2. Len(idle') = Len(idle) + 1
    BY <1>10, IdlePush DEF RecyclePush, IInv, TypeOK, HoldsHandle
  <2> QED
    BY <2>1, <2>2
<1>11. ASSUME NEW t \in Threads, RecycleNotify(t)
       PROVE  sleepy' => Len(idle') <= n'
  <2>1. CASE Stage({"waiting"}) = {}
    BY <1>3, <1>11, <2>1 DEF RecycleNotify, sleepy
  <2>2. CASE Stage({"waiting"}) # {}
    <3>1. PICK w \in Stage({"waiting"}) : pc' = [pc EXCEPT ![t] = "out", ![w] = "woken"]
      BY <1>11, <2>2 DEF RecycleNotify
    <3>2. w \in Threads /\ pc[w] = "waiting" /\ pc[t] = "notify"
      BY <1>11, <3>1 DEF RecycleNotify, Stage
    <3> DEFINE rest == Stage(Told) \ {t}
    <3>3. Stage(Told)' = rest \cup {w} /\ w \notin rest /\ t \in Stage(Told)
      BY <3>1, <3>2 DEF Stage
    <3>4. IsFiniteSet(rest) /\ Cardinality(rest) = n - 1
      BY <3>3, StageFinite, FS_RemoveElement DEF n, Num
    <3> HIDE DEF rest
    <3>5. n' = Cardinality(rest \cup {w})
      BY <3>3 DEF n, Num
    <3>6. Cardinality(rest \cup {w}) = Cardinality(rest) + 1
      BY <3>3, <3>4, FS_AddElement
    <3> QED
      BY <1>11, <2>2, <3>4, <3>5, <3>6 DEF RecycleNotify, sleepy
  <2> QED
    BY <2>1, <2>2
<1>12. CASE KeepAlive
  <2>1. UNCHANGED pc /\ Len(idle') <= Len(idle)
    BY <1>12, KeepAliveDrops
  <2>2. Len(idle') \in Nat
    BY DEF TypeOK
  <2> QED
    BY <1>4, <2>1, <2>2
<1>13. CASE Destructor
  BY <1>6, <1>13 DEF Destructor
<1>14. CASE (\E c \in Handles : ConnectionLost(c)) \/ UNCHANGED vars
  BY <1>4, <1>14 DEF ConnectionLost, vars
<1> QED
  BY <1>8, <1>9, <1>10, <1>11, <1>12, <1>13, <1>14
  DEF Next, BorrowStep, ReturnStep, Terminated

\* A handle moves between the queue and one thread, or is opened or closed.
LEMMA ExclusiveStep ==
  ASSUME IInv, [Next]_vars
  PROVE  Exclusive'
<1> DEFINE Owned == \A c : c \in open <=>
                         c # 0 /\ (c \in ToSet(idle) \/ \E t \in Threads : held[t] = c)
           Alone == /\ \A i, j \in 1..Len(idle) : idle[i] = idle[j] => i = j
                    /\ \A s, t \in Threads : held[s] = held[t] /\ held[s] # 0 => s = t
                    /\ \A t \in Threads : held[t] # 0 => held[t] \notin ToSet(idle)
<1>1. /\ idle \in Seq(Handles) /\ Len(idle) \in Nat
      /\ pc \in [Threads -> Stages] /\ held \in [Threads -> Handles \cup {0}]
      /\ \A t \in Threads : held[t] # 0 <=> pc[t] \in {"using", "healthy"}
      /\ 0 \notin Handles
  BY MaxPoolAssumption DEF IInv, TypeOK, HoldsHandle, Handles
<1>2. Owned /\ Alone
  BY DEF IInv, Accounted, Exclusive
<1>3. SUFFICES Owned' /\ Alone'
  BY DEF Exclusive
<1>4. UNCHANGED <<idle, held, open>> => Owned' /\ Alone'
  BY <1>2
<1>5. DOMAIN idle = 1..Len(idle)
  BY <1>1
<1>6. ASSUME NEW t \in Threads, TakeIdle(t), pc[t] \in {"out", "woken", "expired"},
             UNCHANGED open
      PROVE  Owned' /\ Alone'
  <2> DEFINE h == Head(idle)
             rest == ToSet(Tail(idle))
  <2>1. /\ Len(idle) \in Nat \ {0} /\ Len(idle') = Len(idle) - 1
        /\ h = idle[1] /\ \A i \in 1..Len(idle') : idle'[i] = idle[i + 1]
        /\ ToSet(idle) = rest \cup {h} /\ h \in Handles
        /\ idle' = Tail(idle) /\ idle' \in Seq(Handles)
    BY <1>1, <1>6, IdlePop DEF TakeIdle
  <2>2. h \notin rest
    <3> SUFFICES ASSUME h \in rest PROVE FALSE
      OBVIOUS
    <3>1. PICK i \in 1..Len(idle') : h = idle'[i]
      BY <2>1 DEF ToSet
    <3>2. i + 1 \in 1..Len(idle) /\ 1 \in 1..Len(idle) /\ idle[i + 1] = idle[1] /\ i + 1 # 1
      BY <2>1, <3>1
    <3> QED
      BY <1>2, <3>2
  <2>3. \A i, j \in 1..Len(idle') : idle'[i] = idle'[j] => i = j
    <3> SUFFICES ASSUME NEW i \in 1..Len(idle'), NEW j \in 1..Len(idle'), idle'[i] = idle'[j]
                 PROVE  i = j
      OBVIOUS
    <3>1. i + 1 \in 1..Len(idle) /\ j + 1 \in 1..Len(idle) /\ idle[i + 1] = idle[j + 1]
      BY <2>1
    <3>2. i + 1 = j + 1
      BY <1>2, <3>1
    <3> QED
      BY <3>2
  <2>4. held[t] = 0 /\ held' = [held EXCEPT ![t] = h]
    BY <1>1, <1>6 DEF TakeIdle
  <2>5. \A s \in Threads : held[s] # h
    BY <1>1, <1>2, <2>1
  <2> HIDE DEF h, rest
  <2>6. ToSet(idle') = rest
    BY <2>1 DEF rest
  <2>7. h # 0 /\ \A s \in Threads : held'[s] = IF s = t THEN h ELSE held[s]
    BY <1>1, <2>1, <2>4
  <2>8. Alone'
    BY <1>2, <2>1, <2>2, <2>3, <2>5, <2>6, <2>7
  <2>9. Owned'
    BY <1>2, <1>6, <2>1, <2>4, <2>6, <2>7
  <2> QED
    BY <2>8, <2>9
<1>7. ASSUME NEW t \in Threads, borrow(t) \/ Recheck(t)
      PROVE  Owned' /\ Alone'
  <2>1. CASE TakeIdle(t)
    BY <1>6, <1>7, <2>1 DEF borrow, Recheck
  <2>2. CASE ~TakeIdle(t)
    BY <1>4, <1>7, <2>2 DEF borrow, Recheck
  <2> QED
    BY <2>1, <2>2
<1>8. ASSUME NEW t \in Threads, createConnection(t)
      PROVE  Owned' /\ Alone'
  <2>1. PICK c \in Handles \ open :
          /\ open' = open \cup {c}
          /\ held' = [held EXCEPT ![t] = c]
          /\ idle' = idle
    BY <1>8 DEF createConnection
  <2>2. /\ held[t] = 0 /\ c # 0 /\ c \notin ToSet(idle)
        /\ \A s \in Threads : held[s] # c /\ held'[s] = IF s = t THEN c ELSE held[s]
    BY <1>1, <1>2, <1>8, <2>1 DEF createConnection
  <2>3. Alone'
    BY <1>2, <2>1, <2>2
  <2>4. Owned'
    BY <1>2, <2>1, <2>2
  <2> QED
    BY <2>3, <2>4
<1>9. ASSUME NEW t \in Threads, RecycleDead(t)
      PROVE  Owned' /\ Alone'
  <2>1. /\ open' = open \ {held[t]} /\ held[t] # 0 /\ idle' = idle
        /\ \A s \in Threads : held'[s] = IF s = t THEN 0 ELSE held[s]
    BY <1>1, <1>9 DEF RecycleDead
  <2>2. Alone'
    BY <1>2, <2>1
  <2>3. Owned'
    BY <1>2, <2>1
  <2> QED
    BY <2>2, <2>3
<1>10. ASSUME NEW t \in Threads, RecyclePush(t)
       PROVE  Owned' /\ Alone'
  <2>1. /\ open' = open /\ held[t] # 0 /\ held[t] \in Handles
        /\ \A s \in Threads : held'[s] = IF s = t THEN 0 ELSE held[s]
        /\ idle' = Append(idle, held[t])
    BY <1>1, <1>10 DEF RecyclePush
  <2>2. /\ Len(idle') = Len(idle) + 1
        /\ \A i \in 1..Len(idle) : idle'[i] = idle[i]
        /\ idle'[Len(idle) + 1] = held[t]
        /\ ToSet(idle') = ToSet(idle) \cup {held[t]}
    BY <1>1, <2>1, IdlePush
  <2>3. \A i \in 1..Len(idle) : idle[i] # held[t]
    BY <1>2, <1>5, <2>1 DEF ToSet
  <2>4. \A i \in 1..Len(idle') : i \in 1..Len(idle) \/ i = Len(idle) + 1
    BY <1>1, <2>2
  <2>5. \A i, j \in 1..Len(idle') : idle'[i] = idle'[j] => i = j
    BY <1>2, <2>2, <2>3, <2>4
  <2>6. Alone'
    BY <1>2, <2>1, <2>2, <2>5
  <2>7. Owned'
    BY <1>2, <2>1, <2>2
  <2> QED
    BY <2>6, <2>7
<1>11. CASE KeepAlive
  <2>1. PICK dead \in SUBSET ToSet(idle) :
          /\ ToSet(idle') = ToSet(idle) \ dead
          /\ \A i, j \in 1..Len(idle') : idle'[i] = idle'[j] => i = j
          /\ open' = open \ dead
          /\ held' = held
    BY <1>11, KeepAliveDrops
  <2>2. Alone'
    BY <1>2, <2>1
  <2>3. Owned'
    BY <1>2, <2>1
  <2> QED
    BY <2>2, <2>3
<1>12. CASE Destructor
  <2>1. /\ \A t \in Threads : held[t] = 0 /\ held'[t] = 0
        /\ idle' = <<>> /\ open' = open \ ToSet(idle)
    BY <1>1, <1>12 DEF Destructor
  <2>2. Len(idle') = 0 /\ ToSet(idle') = {}
    BY <2>1 DEF ToSet
  <2>3. Alone'
    BY <2>1, <2>2
  <2>4. Owned'
    BY <1>2, <2>1, <2>2
  <2> QED
    BY <2>3, <2>4
<1>13. CASE \/ \E t \in Threads :
                 \/ createFails(t) \/ SpuriousWakeup(t) \/ WaitExpires(t)
                 \/ Uncount(t) \/ RecyclePing(t) \/ RecycleNotify(t)
                 \/ Degraded(t)
            \/ \E c \in Handles : ConnectionLost(c)
            \/ UNCHANGED vars
  BY <1>4, <1>13
  DEF createFails, SpuriousWakeup, WaitExpires, Uncount, RecyclePing,
      RecycleNotify, Degraded, ConnectionLost, vars
<1> QED
  BY <1>7, <1>8, <1>9, <1>10, <1>11, <1>12, <1>13
  DEF Next, BorrowStep, ReturnStep, Terminated

\* The constructor leaves the connections it could open, each once.
LEMMA PoolInit ==
  ASSUME Init
  PROVE  IInv
<1>1. PICK n \in 0..MaxPool : idle = [i \in 1..n |-> i] /\ active = n /\ open = 1..n
  BY DEF Init
<1>2. n \in Nat /\ n <= MaxPool /\ 1..n \subseteq Handles
  BY MaxPoolAssumption DEF Handles
<1>3. idle \in Seq(Handles) /\ Len(idle) = n
  <2>1. idle \in [1..n -> Handles]
    BY <1>1, <1>2
  <2> QED
    BY <1>1, <1>2, <2>1
<1>4. ToSet(idle) = 1..n
  BY <1>1 DEF ToSet
<1>5. \A W : "out" \notin W => Stage(W) = {} /\ Cardinality(Stage(W)) = 0
  BY FS_EmptySet DEF Init, Stage
<1>6. TypeOK /\ HoldsHandle
  <2>1. 0 \notin Handles /\ active \in Int /\ open \subseteq Handles
    BY <1>1, <1>2 DEF Handles
  <2> QED
    BY <1>3, <2>1 DEF Init, TypeOK, HoldsHandle, Stages
<1>7. Counted
  BY <1>1, <1>2, <1>3, <1>5 DEF Counted
<1>8. Exclusive
  <2>1. {held[t] : t \in Threads} \subseteq {0}
    BY DEF Init
  <2>2. 0 \notin 1..n /\ \A i, j \in 1..n : idle[i] = idle[j] => i = j
    BY <1>1
  <2>3. \A t \in Threads : held[t] = 0
    BY DEF Init
  <2> QED
    BY <1>1, <1>3, <1>4, <2>1, <2>2, <2>3 DEF Exclusive
<1>9. NoneStranded
  BY <1>5 DEF NoneStranded
<1> QED
  BY <1>6, <1>7, <1>8, <1>9 DEF IInv, Accounted

\* IInv is inductive for the connection pool ...
LEMMA PoolStep ==
  ASSUME IInv, [Next]_vars
  PROVE  IInv'
<1>1. TypeOK' /\ HoldsHandle'
  BY PoolTypeStep
<1> QED
  BY <1>1, CountedStep, ExclusiveStep, StrandedStep DEF IInv, Accounted

\* ... and so holds of every behaviour of it.
LEMMA PoolInvariant == Spec => []IInv
  BY PoolInit, PoolStep, PTL DEF Spec

\* Every connection of the pool is accounted for, whatever the threads that borrow
\* from it do: the atomic count, changed outside of the lock by a failed creation or
\* a failed health check, is the number of connections and reserved places and never
\* above the maximum, and a connection is idle once or with one thread, never both.
THEOREM ConnectionsAccounted == Spec => []Accounted
<1>1. IInv => Accounted
  BY DEF IInv
<1> QED
  BY <1>1, PoolInvariant, PTL

\* As long as threads wait in borrow(), each idle connection has a thread that was
\* told of it or is about to notify: notify_one after the unlock, a wakeup that
\* finds the queue empty and a wait that expires leave no connection idle over a
\* sleeping borrower.
THEOREM NoConnectionStranded == Spec => []NoneStranded
<1>1. IInv => NoneStranded
  BY DEF IInv
<1> QED
  BY <1>1, PoolInvariant, PTL

-----------------------------------------------------------------------------
(* The workers use the pool.                                                 *)

\* A step of the workers is a step of the pool or leaves it alone.
LEMMA PoolSteps ==
  ASSUME [DBNext]_dbVars
  PROVE  [Next]_vars
<1>1. CASE \E w \in Threads : Borrow(w) \/ Return(w)
  BY <1>1 DEF Borrow, Return, Next
<1>2. CASE DestroyPool \/ Environment
  BY <1>2 DEF DestroyPool, Environment, Next
<1>3. CASE \/ \E t \in Tasks : submit(t) \/ submitRefused(t) \/ submitNotify(t)
           \/ \E w \in Threads : run(w) \/ Execute(w) \/ NextRound(w) \/ WorkerWakes(w)
           \/ StopRunning \/ WakeWorkers \/ JoinWorkers \/ Finished \/ UNCHANGED dbVars
  <2>1. UNCHANGED vars
    BY <1>3 DEF submit, submitRefused, submitNotify, run, Execute, NextRound, WorkerWakes,
                StopRunning, WakeWorkers, JoinWorkers, Finished, dbVars
  <2> QED
    BY <2>1 DEF vars, vars
<1> QED
  BY <1>1, <1>2, <1>3 DEF DBNext, WorkerStep

\* DBWorkerPool uses its MySQLConnectionPool as a borrower may: whatever its workers
\* and its destructor do is a behaviour of the connection pool.
THEOREM WorkersUsePool == DBSpec => UsesPool
<1>1. DBInit => Init
  BY DEF DBInit
<1> QED
  BY <1>1, PoolSteps, PTL DEF DBSpec, UsesPool, Spec

\* So the connections are accounted for in the composition too: no worker shares its
\* connection with another, and shutting the workers down loses none.
THEOREM WorkersShareNone == DBSpec => []Accounted
  BY WorkersUsePool, ConnectionsAccounted, PTL DEF UsesPool

-----------------------------------------------------------------------------
(* Every accepted task is executed, once.                                    *)

\* The set of queued tasks, as the lemmas on queues speak of it.
LEMMA QueueSet == ASSUME WorkersTypeOK PROVE Queued = ToSet(tasks)
  BY DEF WorkersTypeOK, Queued, ToSet

\* A step that neither takes nor ends a task keeps each in its place.
LEMMA OnceKept ==
  ASSUME Once, UNCHANGED <<tasks, result, done>>,
         \A w \in Threads : at'[w] = "borrow" <=> at[w] = "borrow",
         \A w \in Threads : at[w] = "borrow" => task'[w] = task[w]
  PROVE  Once'
<1>1. Queued' = Queued
  BY DEF Queued
<1>2. Begun' = Begun
  BY DEF Begun
<1> QED
  BY <1>1, <1>2 DEF Once

\* A thread outside of borrow() and recycle() is not drawn into them by others.
LEMMA OthersStayOut ==
  ASSUME IInv, NEW w \in Threads, BorrowStep(w) \/ ReturnStep(w),
         NEW v \in Threads, v # w, pc[v] = "out"
  PROVE  pc'[v] = "out"
<1>1. pc \in [Threads -> Stages]
  BY DEF IInv, TypeOK
<1>2. CASE RecycleNotify(w)
  BY <1>1, <1>2 DEF RecycleNotify, Goto, Stage
<1>3. CASE \E to : Goto(w, to)
  BY <1>1, <1>3 DEF Goto
<1>4. RecycleNotify(w) \/ \E to : Goto(w, to)
  BY DEF BorrowStep, ReturnStep, borrow, TakeIdle, createConnection,
         createFails, SpuriousWakeup, WaitExpires, Recheck,
         RecycleDead, Uncount, RecyclePing, RecyclePush, Degraded
<1> QED
  BY <1>2, <1>3, <1>4

\* At first nothing is queued and nobody is at a task.
LEMMA WorkersInit ==
  ASSUME DBInit
  PROVE  WorkersInv
<1>1. WorkersTypeOK
  BY DEF DBInit, WorkersTypeOK, Init, Stages
<1>2. Queued = {} /\ Begun = {}
  BY DEF DBInit, Queued, Begun
<1>3. Once
  BY <1>2 DEF DBInit, Once
<1>4. Leaving
  BY DEF DBInit, Leaving, Init
<1> QED
  BY <1>1, <1>3, <1>4 DEF WorkersInv

\* submit queues a task that is nowhere yet.
LEMMA SubmitStep ==
  ASSUME WorkersInv, NEW t \in Tasks, submit(t)
  PROVE  WorkersInv'
<1> USE DEF WorkersInv, submit
<1>1. /\ tasks' \in Seq(Tasks) /\ Len(tasks) \in Nat /\ Len(tasks') = Len(tasks) + 1
      /\ \A i \in 1..Len(tasks) : tasks'[i] = tasks[i]
      /\ tasks'[Len(tasks) + 1] = t
      /\ ToSet(tasks') = ToSet(tasks) \cup {t}
  BY IdlePush DEF WorkersTypeOK
<1>2. WorkersTypeOK'
  BY <1>1 DEF WorkersTypeOK, vars
<1>3. Queued' = Queued \cup {t} /\ Begun' = Begun
  BY <1>1, QueueSet, DOMAIN tasks' = 1..Len(tasks') DEF Begun, WorkersTypeOK, Queued, ToSet
<1>4. t \notin Queued /\ t \notin Begun /\ done[t] = 0
  BY DEF Once, WorkersTypeOK
<1>5. \A i \in 1..Len(tasks) : tasks[i] # t
  BY <1>4 DEF Queued
<1>6. \A i \in 1..Len(tasks') : i \in 1..Len(tasks) \/ i = Len(tasks) + 1
  BY <1>1
<1>7. \A i, j \in 1..Len(tasks') : tasks'[i] = tasks'[j] => i = j
  BY <1>1, <1>5, <1>6 DEF Once
<1>8. \A s \in Tasks : result'[s] = IF s = t THEN "accepted" ELSE result[s]
  BY DEF WorkersTypeOK
<1>9. Once'
  BY <1>3, <1>4, <1>7, <1>8 DEF Once
<1>10. Leaving'
  BY DEF Leaving, vars
<1> QED
  BY <1>2, <1>9, <1>10

\* run() takes the oldest task from the queue, waits or leaves.
LEMMA RunStep ==
  ASSUME WorkersInv, NEW w \in Threads, run(w)
  PROVE  WorkersInv'
<1> USE DEF WorkersInv
<1>1. CASE tasks = <<>>
  <2>1. PICK to \in {"waiting", "exited"} :
          /\ at' = [at EXCEPT ![w] = to] /\ at[w] = "check"
          /\ to = "exited" => ~running
          /\ UNCHANGED <<tasks, task, running, result, notifying, done, stage, vars>>
    BY <1>1 DEF run
  <2>2. WorkersTypeOK'
    BY <2>1 DEF WorkersTypeOK, vars
  <2>3. Once'
    BY <2>1, OnceKept DEF WorkersTypeOK
  <2>4. Leaving'
    BY <1>1, <2>1 DEF WorkersTypeOK, Leaving, vars
  <2> QED
    BY <2>2, <2>3, <2>4
<1>2. CASE tasks # <<>>
  <2> DEFINE t == Head(tasks)
  <2>1. /\ at' = [at EXCEPT ![w] = "borrow"] /\ at[w] = "check"
        /\ task' = [task EXCEPT ![w] = t] /\ tasks' = Tail(tasks)
        /\ UNCHANGED <<running, result, notifying, done, stage, vars>>
    BY <1>2 DEF run
  <2>2. /\ tasks' \in Seq(Tasks) /\ t \in Tasks
        /\ Len(tasks) \in Nat \ {0} /\ Len(tasks') = Len(tasks) - 1
        /\ t = tasks[1] /\ \A i \in 1..Len(tasks') : tasks'[i] = tasks[i + 1]
        /\ ToSet(tasks) = ToSet(tasks') \cup {t}
    BY <1>2, <2>1, IdlePop DEF WorkersTypeOK
  <2> HIDE DEF t
  <2>3. WorkersTypeOK'
    BY <2>1, <2>2 DEF WorkersTypeOK, vars
  <2>4. t \notin Queued'
    <3> SUFFICES ASSUME NEW i \in 1..Len(tasks'), t = tasks'[i] PROVE FALSE
      BY DEF Queued
    <3>1. i + 1 \in 1..Len(tasks) /\ 1 \in 1..Len(tasks) /\ i + 1 # 1
      BY <2>2
    <3>2. tasks[i + 1] = tasks[1]
      BY <2>2
    <3> QED
      BY <3>1, <3>2 DEF Once
  <2>5. Queued = Queued' \cup {t}
    BY <2>2, QueueSet, DOMAIN tasks' = 1..Len(tasks') DEF Queued, ToSet
  <2>6. Begun' = Begun \cup {t}
    BY <2>1 DEF Begun, WorkersTypeOK
  <2>7. \A i, j \in 1..Len(tasks') : tasks'[i] = tasks'[j] => i = j
    <3> SUFFICES ASSUME NEW i \in 1..Len(tasks'), NEW j \in 1..Len(tasks'), tasks'[i] = tasks'[j]
                 PROVE  i = j
      OBVIOUS
    <3>1. i + 1 \in 1..Len(tasks) /\ j + 1 \in 1..Len(tasks) /\ tasks[i + 1] = tasks[j + 1]
      BY <2>2
    <3>2. i + 1 = j + 1
      BY <3>1 DEF Once
    <3> QED
      BY <3>2
  <2>8. \A u, v \in Threads :
          at'[u] = "borrow" /\ at'[v] = "borrow" /\ task'[u] = task'[v] => u = v
    <3>1. t \notin Begun
      BY <2>5 DEF Once
    <3>2. \A v \in Threads : at[v] = "borrow" => task[v] # t
      BY <3>1 DEF Begun
    <3> QED
      BY <2>1, <3>2 DEF Once, WorkersTypeOK
  <2>9. Once'
    BY <2>1, <2>2, <2>4, <2>5, <2>6, <2>7, <2>8 DEF Once
  <2>10. Leaving'
    BY <1>2, <2>1 DEF WorkersTypeOK, Leaving, vars
  <2> QED
    BY <2>3, <2>9, <2>10
<1> QED
  BY <1>1, <1>2

\* A task that is executed is begun no more.
LEMMA ExecuteStep ==
  ASSUME WorkersInv, NEW w \in Threads, Execute(w)
  PROVE  WorkersInv'
<1> USE DEF WorkersInv
<1> DEFINE t == task[w]
<1>1. at[w] = "borrow" /\ t \in Begun /\ t \in Tasks /\ done[t] = 0 /\ t \notin Queued
  BY DEF Execute, Once, Begun, WorkersTypeOK
<1>2. /\ \A s \in Tasks : done'[s] = IF s = t THEN 1 ELSE done[s]
      /\ done' \in [Tasks -> {0, 1}]
      /\ at' = [at EXCEPT ![w] = "return"]
      /\ UNCHANGED <<running, tasks, task, result, notifying, stage, vars>>
  BY <1>1 DEF Execute, WorkersTypeOK
<1>3. WorkersTypeOK'
  BY <1>2 DEF WorkersTypeOK, vars
<1>4. Queued' = Queued
  BY <1>2 DEF Queued
<1>5. Begun' = Begun \ {t}
  <2>1. \A v \in Threads : at'[v] = "borrow" <=> at[v] = "borrow" /\ v # w
    BY <1>2 DEF WorkersTypeOK
  <2>2. \A v \in Threads : at[v] = "borrow" /\ task[v] = t => v = w
    BY <1>1 DEF Once
  <2> QED
    BY <1>1, <1>2, <2>1, <2>2 DEF Begun
<1>6. \A u, v \in Threads :
        at'[u] = "borrow" /\ at'[v] = "borrow" /\ task'[u] = task'[v] => u = v
  BY <1>2 DEF Once, WorkersTypeOK
<1> HIDE DEF t
<1>7. Once'
  BY <1>1, <1>2, <1>4, <1>5, <1>6 DEF Once
<1>8. Leaving'
  BY <1>1, <1>2 DEF Leaving, WorkersTypeOK, vars
<1> QED
  BY <1>3, <1>7, <1>8

\* WorkersInv is inductive for the workers, given that of the pool ...
LEMMA WorkersStep ==
  ASSUME WorkersInv, IInv, [DBNext]_dbVars
  PROVE  WorkersInv'
<1> USE DEF WorkersInv
<1>1. pc' \in [Threads -> Stages]
  BY PoolSteps, PoolStep DEF IInv, TypeOK
<1>2. ASSUME NEW t \in Tasks, submit(t) PROVE WorkersInv'
  BY <1>2, SubmitStep
<1>3. ASSUME NEW t \in Tasks, submitRefused(t) PROVE WorkersInv'
  <2>1. WorkersTypeOK'
    BY <1>1, <1>3 DEF submitRefused, WorkersTypeOK
  <2>2. Queued' = Queued /\ Begun' = Begun
    BY <1>3 DEF submitRefused, Queued, Begun
  <2>3. \A s \in Tasks : result'[s] = IF s = t THEN "refused" ELSE result[s]
    BY <1>3 DEF submitRefused, WorkersTypeOK
  <2>4. Once'
    BY <1>3, <2>2, <2>3 DEF submitRefused, Once
  <2>5. Leaving'
    BY <1>3 DEF submitRefused, Leaving, vars
  <2> QED
    BY <2>1, <2>4, <2>5
<1>4. ASSUME NEW t \in Tasks, submitNotify(t) PROVE WorkersInv'
  <2>1. /\ UNCHANGED <<running, tasks, task, result, done, stage, vars>>
        /\ \A w \in Threads : at'[w] = at[w] \/ (at[w] = "waiting" /\ at'[w] = "check")
        /\ at' \in [Threads -> {"check", "waiting", "borrow", "return", "exited"}]
    <3>1. CASE Waiting = {}
      BY <1>4, <3>1 DEF submitNotify, NotifyOne, WorkersTypeOK
    <3>2. CASE Waiting # {}
      <4>1. PICK v \in Waiting : at' = [at EXCEPT ![v] = "check"]
        BY <1>4, <3>2 DEF submitNotify, NotifyOne
      <4> QED
        BY <1>4, <4>1 DEF submitNotify, Waiting, WorkersTypeOK
    <3> QED
      BY <3>1, <3>2
  <2>2. WorkersTypeOK'
    BY <1>1, <2>1 DEF WorkersTypeOK
  <2>3. Once'
    BY <2>1, OnceKept
  <2>4. Leaving'
    BY <2>1 DEF Leaving, vars
  <2> QED
    BY <2>2, <2>3, <2>4
<1>5. ASSUME NEW w \in Threads, run(w) PROVE WorkersInv'
  BY <1>5, RunStep
<1>6. ASSUME NEW w \in Threads, WorkerWakes(w) PROVE WorkersInv'
  <2>1. WorkersTypeOK'
    BY <1>1, <1>6 DEF WorkerWakes, WorkersTypeOK
  <2>2. Once'
    BY <1>6, OnceKept DEF WorkerWakes, WorkersTypeOK
  <2>3. Leaving'
    BY <1>6 DEF WorkerWakes, WorkersTypeOK, Leaving, vars
  <2> QED
    BY <2>1, <2>2, <2>3
<1>7. ASSUME NEW w \in Threads, Borrow(w) \/ Return(w) PROVE WorkersInv'
  <2>1. /\ UNCHANGED <<running, tasks, at, task, result, notifying, done, stage>>
        /\ at[w] \in {"borrow", "return"}
        /\ BorrowStep(w) \/ ReturnStep(w)
    BY <1>7 DEF Borrow, Return
  <2>2. WorkersTypeOK'
    BY <1>1, <2>1 DEF WorkersTypeOK
  <2>3. Once'
    BY <2>1, OnceKept
  <2>4. \A v \in Threads : at[v] \notin {"borrow", "return"} => pc'[v] = "out"
    BY <2>1, <1>7, OthersStayOut DEF Leaving, Borrow, Return
  <2>5. Leaving'
    BY <2>1, <2>4 DEF Leaving
  <2> QED
    BY <2>2, <2>3, <2>5
<1>8. ASSUME NEW w \in Threads, Execute(w) PROVE WorkersInv'
  BY <1>8, ExecuteStep
<1>9. ASSUME NEW w \in Threads, NextRound(w) PROVE WorkersInv'
  <2>1. WorkersTypeOK'
    BY <1>1, <1>9 DEF NextRound, WorkersTypeOK
  <2>2. Once'
    BY <1>9, OnceKept DEF NextRound, WorkersTypeOK
  <2>3. Leaving'
    BY <1>9 DEF NextRound, WorkersTypeOK, Leaving, vars
  <2> QED
    BY <2>1, <2>2, <2>3
<1>10. CASE StopRunning
  <2>1. WorkersTypeOK'
    BY <1>1, <1>10 DEF StopRunning, WorkersTypeOK
  <2>2. Once'
    BY <1>10, OnceKept DEF StopRunning
  <2>3. Leaving'
    BY <1>10 DEF StopRunning, WorkersTypeOK, Leaving, vars
  <2> QED
    BY <2>1, <2>2, <2>3
<1>11. CASE WakeWorkers
  <2>1. WorkersTypeOK'
    BY <1>1, <1>11 DEF WakeWorkers, WorkersTypeOK
  <2>2. Once'
    BY <1>11, OnceKept DEF WakeWorkers
  <2>3. Leaving'
    BY <1>11 DEF WakeWorkers, WorkersTypeOK, Leaving, vars
  <2> QED
    BY <2>1, <2>2, <2>3
<1>12. CASE JoinWorkers
  <2>1. WorkersTypeOK'
    BY <1>1, <1>12 DEF JoinWorkers, WorkersTypeOK
  <2>2. Once'
    BY <1>12, OnceKept DEF JoinWorkers
  <2>3. Leaving'
    BY <1>12 DEF JoinWorkers, WorkersTypeOK, Leaving, vars
  <2> QED
    BY <2>1, <2>2, <2>3
<1>13. CASE DestroyPool \/ Environment \/ Finished \/ UNCHANGED dbVars
  <2>1. UNCHANGED <<running, tasks, at, task, result, done, stage, pc>>
    BY <1>13 DEF DestroyPool, Environment, Finished, dbVars, vars,
                 Destructor, ConnectionLost, KeepAlive
  <2>2. WorkersTypeOK'
    BY <2>1 DEF WorkersTypeOK
  <2>3. Once'
    BY <2>1, OnceKept
  <2>4. Leaving'
    BY <2>1 DEF Leaving
  <2> QED
    BY <2>2, <2>3, <2>4
<1> QED
  BY <1>2, <1>3, <1>4, <1>5, <1>6, <1>7, <1>8, <1>9, <1>10, <1>11, <1>12, <1>13
  DEF DBNext, WorkerStep

\* ... and so holds of every behaviour of them.
LEMMA WorkersInvariant == DBSpec => []WorkersInv
<1>1. DBSpec => []IInv
  BY WorkersUsePool, PoolInvariant, PTL DEF UsesPool
<1> QED
  BY <1>1, WorkersInit, WorkersStep, PTL DEF DBSpec

\* When the workers have left, nothing is queued or begun.
LEMMA NothingLeft ==
  ASSUME WorkersInv
  PROVE  Drained
<1> SUFFICES ASSUME stage = "returned"
             PROVE  /\ \A t \in Tasks : done[t] = IF result[t] = "accepted" THEN 1 ELSE 0
                    /\ \A w \in Threads : pc[w] = "out"
  BY DEF Drained
<1>1. \A w \in Threads : at[w] = "exited"
  BY DEF WorkersInv, Leaving
<1>2. \A w \in Threads : pc[w] = "out"
  BY <1>1 DEF WorkersInv, Leaving
<1>3. tasks = <<>>
  BY <1>1, WorkersAssumption DEF WorkersInv, Leaving
<1>4. Queued = {} /\ Begun = {}
  BY <1>1, <1>3 DEF Queued, Begun
<1>5. \A t \in Tasks : result[t] = "accepted" <=> done[t] = 1
  BY <1>4 DEF WorkersInv, Once
<1> QED
  BY <1>2, <1>5 DEF WorkersInv, WorkersTypeOK

\* The destructor of DBWorkerPool returns only when every task that submit accepted,
\* also one that was pushed just before running_ became false, was executed exactly
\* once, no refused one was, and every worker has given its connection back.
THEOREM WorkersDrain == DBSpec => []Drained
  BY WorkersInvariant, NothingLeft, PTL

=============================================================================
