-------------------------- MODULE StaticFilesProofs --------------------------
(***************************************************************************)
(* Proofs about the static files and their cache, for any number of threads, *)
(* keys, versions and requests.  What L1 does to its frequencies, and whom it *)
(* evicts, is not needed: only that put and get keep the entries of the keys   *)
(* that stay.                                                                  *)
(***************************************************************************)
EXTENDS StaticFiles, FiniteSetTheorems, TLAPS

-----------------------------------------------------------------------------
(* The operations of L1.                                                     *)

\* d has the entries of c.
Same(c, d) == IsCache(d) /\ Cached(d) = Cached(c) /\ d.value = c.value

\* The fields of a cache.
Rec(v, f, l, m, n) == [value |-> v, freq |-> f, lists |-> l, minFreq |-> m, total |-> n]

\* Replacing fields.
LEMMA Replaced ==
  ASSUME NEW c, IsCache(c), NEW v, NEW f, NEW l, NEW m
  PROVE  /\ [c EXCEPT !.value = v, !.freq = f] = Rec(v, f, c.lists, c.minFreq, c.total)
         /\ [c EXCEPT !.freq = f, !.lists = l] = Rec(c.value, f, l, c.minFreq, c.total)
         /\ [c EXCEPT !.minFreq = m] = Rec(c.value, c.freq, c.lists, m, c.total)
<1>1. PICK a1, a2, a3, a4, a5 : c = Rec(a1, a2, a3, a4, a5)
  BY DEF IsCache, Rec
<1>2. c.value = a1 /\ c.freq = a2 /\ c.lists = a3 /\ c.minFreq = a4 /\ c.total = a5
  BY <1>1 DEF Rec
<1>3. \A b1, b2, b3, b4, b5, x :
        /\ [Rec(b1, b2, b3, b4, b5) EXCEPT !.value = x] = Rec(x, b2, b3, b4, b5)
        /\ [Rec(b1, b2, b3, b4, b5) EXCEPT !.freq = x] = Rec(b1, x, b3, b4, b5)
        /\ [Rec(b1, b2, b3, b4, b5) EXCEPT !.lists = x] = Rec(b1, b2, x, b4, b5)
        /\ [Rec(b1, b2, b3, b4, b5) EXCEPT !.minFreq = x] = Rec(b1, b2, b3, x, b5)
  BY DEF Rec
<1> HIDE DEF Rec
<1>4. [c EXCEPT !.value = v] = Rec(v, a2, a3, a4, a5) /\ [c EXCEPT !.freq = f] = Rec(a1, f, a3, a4, a5)
  BY <1>1, <1>3
<1>5. [Rec(v, a2, a3, a4, a5) EXCEPT !.freq = f] = Rec(v, f, a3, a4, a5)
  BY <1>3
<1>6. [Rec(a1, f, a3, a4, a5) EXCEPT !.lists = l] = Rec(a1, f, l, a4, a5)
  BY <1>3
<1>7. [c EXCEPT !.minFreq = m] = Rec(a1, a2, a3, m, a5)
  BY <1>1, <1>3
<1> QED
  BY <1>2, <1>4, <1>5, <1>6, <1>7

\* Aging changes frequencies and lists.
LEMMA AgingKeeps ==
  ASSUME NEW c, IsCache(c), NEW d \in addFreqNum(c)
  PROVE  Same(c, d)
<1> DEFINE b == [c EXCEPT !.total = @ + 1]
<1>1. Same(c, b)
  BY DEF Same, IsCache, Cached
<1>2. d = b \/ d \in Aged(b)
  BY DEF addFreqNum
<1>3. ASSUME d \in Aged(b) PROVE Same(b, d)
  <2> HIDE DEF b
  <2> DEFINE lower(n) == IF n - MaxAverage \div 2 < 1 THEN 1 ELSE n - MaxAverage \div 2
             freq == [k \in Cached(b) |-> lower(b.freq[k])]
             levels == DOMAIN b.lists \cup {freq[k] : k \in Cached(b)}
  <2>1. PICK walk \in SetToSeqs(Cached(b)) :
          d = updateMinFreq([b EXCEPT !.freq = freq, !.lists = Filed(walk, freq, levels)])
    BY <1>3, Zenon DEF Aged
  <2>2. DOMAIN freq = Cached(b)
    OBVIOUS
  <2> HIDE DEF freq, levels
  <2> DEFINE a == [b EXCEPT !.freq = freq, !.lists = Filed(walk, freq, levels)]
  <2>3. Same(b, a)
    <3>1. a = Rec(b.value, freq, Filed(walk, freq, levels), b.minFreq, b.total)
      BY <1>1, Replaced DEF Same
    <3> HIDE DEF a
    <3> QED
      BY <1>1, <2>2, <3>1 DEF Same, IsCache, Cached, Rec
  <2>4. d = updateMinFreq(a)
    BY <2>1
  <2> HIDE DEF a
  <2>5. Same(a, updateMinFreq(a))
    <3>1. PICK least : updateMinFreq(a) = [a EXCEPT !.minFreq = least]
      BY Zenon DEF updateMinFreq
    <3>2. updateMinFreq(a) = Rec(a.value, a.freq, a.lists, least, a.total)
      BY <2>3, <3>1, Replaced DEF Same
    <3> QED
      BY <2>3, <3>2 DEF Same, IsCache, Cached, Rec
  <2> QED
    BY <2>3, <2>4, <2>5 DEF Same
<1> QED
  BY <1>1, <1>2, <1>3 DEF Same

\* Moving a key between the lists leaves the entries alone.
LEMMA ListsKeep ==
  ASSUME NEW c, IsCache(c), NEW k
  PROVE  Same(c, removeFromFreqList(c, k)) /\ Same(c, addToFreqList(c, k))
  BY DEF removeFromFreqList, addToFreqList, Same, IsCache, Cached

\* An access changes frequencies, lists and counts.
LEMMA AccessKeeps ==
  ASSUME NEW c, IsCache(c), NEW k \in Cached(c), NEW d \in getInternal(c, k)
  PROVE  Same(c, d)
<1> DEFINE r == removeFromFreqList(c, k)
           g == [r EXCEPT !.freq[k] = @ + 1]
           e == addToFreqList(g, k)
           f == IF e.freq[k] - 1 = e.minFreq /\ List(e, e.freq[k] - 1) = <<>>
                THEN [e EXCEPT !.minFreq = @ + 1] ELSE e
<1>1. d \in addFreqNum(f)
  BY Zenon DEF getInternal
<1>2. Same(c, r)
  BY ListsKeep
<1>3. Same(r, g)
  BY <1>2 DEF Same, IsCache, Cached
<1>4. Same(g, e)
  BY <1>3, ListsKeep DEF Same
<1> HIDE DEF e
<1>5. Same(e, f)
  BY <1>4 DEF Same, IsCache, Cached
<1> HIDE DEF f
<1>6. Same(f, d)
  BY <1>1, <1>5, AgingKeeps DEF Same
<1> QED
  BY <1>2, <1>3, <1>4, <1>5, <1>6 DEF Same

\* get keeps the entries.
LEMMA GetKeeps ==
  ASSUME NEW c, IsCache(c), NEW k, NEW d \in lfuGet(c, k)
  PROVE  Same(c, d)
  BY AccessKeeps DEF lfuGet, Same

\* put changes the entry of its key, and keeps the others that stay.
LEMMA PutKeeps ==
  ASSUME NEW c, IsCache(c), NEW k, NEW v, NEW d \in lfuPut(c, k, v)
  PROVE  /\ IsCache(d)
         /\ \A x \in Cached(d) :
              (x = k /\ d.value[x] = v) \/ (x \in Cached(c) /\ d.value[x] = c.value[x])
<1>1. CASE Capacity = 0
  BY <1>1 DEF lfuPut
<1>2. CASE Capacity # 0 /\ k \in Cached(c)
  <2> DEFINE b == [c EXCEPT !.value[k] = v]
  <2>1. IsCache(b) /\ Cached(b) = Cached(c) /\ k \in Cached(b)
    BY <1>2 DEF IsCache, Cached
  <2>2. \A x \in Cached(b) : b.value[x] = IF x = k THEN v ELSE c.value[x]
    BY <1>2 DEF IsCache, Cached
  <2>3. d \in getInternal(b, k)
    BY <1>2 DEF lfuPut
  <2> HIDE DEF b
  <2>4. Same(b, d)
    BY <2>1, <2>3, AccessKeeps
  <2> QED
    BY <2>1, <2>2, <2>4 DEF Same
<1>3. CASE Capacity # 0 /\ k \notin Cached(c)
  <2> DEFINE b == IF Cardinality(Cached(c)) = Capacity THEN kickOut(c) ELSE c
             n == [b EXCEPT !.value = With(@, k, v), !.freq = With(@, k, 1)]
             e == addToFreqList(n, k)
  <2>1. /\ IsCache(b) /\ Cached(b) \subseteq Cached(c)
        /\ \A x \in Cached(b) : b.value[x] = c.value[x]
    <3>1. CASE b = c
      BY <3>1
    <3>2. CASE b = [c EXCEPT !.total = @ - 1]
      BY <3>2 DEF IsCache, Cached
    <3>3. ASSUME NEW j, b = [removeFromFreqList(c, j) EXCEPT
                               !.value = Without(@, j), !.freq = Without(@, j),
                               !.total = @ - c.freq[j]]
          PROVE  /\ IsCache(b) /\ Cached(b) \subseteq Cached(c)
                 /\ \A x \in Cached(b) : b.value[x] = c.value[x]
      <4> DEFINE r == removeFromFreqList(c, j)
      <4>1. Same(c, r)
        BY ListsKeep
      <4>2. b = [value |-> Without(r.value, j), freq |-> Without(r.freq, j), lists |-> r.lists,
                 minFreq |-> r.minFreq, total |-> r.total - c.freq[j]]
        <5> HIDE DEF b, r
        <5> QED
          BY <3>3, <4>1 DEF Same, IsCache, r
      <4> HIDE DEF b, r
      <4>3. /\ DOMAIN Without(r.value, j) = Cached(c) \ {j}
            /\ DOMAIN Without(r.freq, j) = Cached(c) \ {j}
            /\ \A x \in Cached(c) \ {j} : Without(r.value, j)[x] = c.value[x]
        BY <4>1 DEF Same, IsCache, Cached, Without, Restrict
      <4> QED
        BY <4>2, <4>3 DEF IsCache, Cached
    <3> QED
      BY <3>1, <3>2, <3>3 DEF kickOut
  <2> HIDE DEF b
  <2>2. /\ IsCache(n) /\ Cached(n) = Cached(b) \cup {k}
        /\ \A x \in Cached(n) : n.value[x] = IF x = k THEN v ELSE b.value[x]
    <3>1. n = Rec(With(b.value, k, v), With(b.freq, k, 1), b.lists, b.minFreq, b.total)
      BY <2>1, Replaced
    <3>2. /\ DOMAIN With(b.value, k, v) = Cached(b) \cup {k}
          /\ DOMAIN With(b.freq, k, 1) = Cached(b) \cup {k}
          /\ \A x \in Cached(b) \cup {k} :
               With(b.value, k, v)[x] = IF x = k THEN v ELSE b.value[x]
      BY <2>1 DEF IsCache, Cached, With
    <3> HIDE DEF n
    <3> QED
      BY <3>1, <3>2 DEF IsCache, Cached, Rec
  <2> HIDE DEF n
  <2>3. Same(n, e)
    BY <2>2, ListsKeep
  <2> HIDE DEF e
  <2>4. PICK f \in addFreqNum(e) : d = [f EXCEPT !.minFreq = IF @ < 1 THEN @ ELSE 1]
    BY <1>3, Zenon DEF lfuPut, putInternal, e, n, b
  <2>5. Same(e, f)
    BY <2>3, <2>4, AgingKeeps DEF Same
  <2>6. Same(f, d)
    BY <2>4, <2>5 DEF Same, IsCache, Cached
  <2>7. IsCache(d) /\ Cached(d) = Cached(b) \cup {k} /\ d.value = n.value
    BY <2>2, <2>3, <2>5, <2>6 DEF Same
  <2> QED
    BY <2>1, <2>2, <2>7
<1> QED
  BY <1>1, <1>2, <1>3

-----------------------------------------------------------------------------
(* Locks.                                                                    *)

\* There is always a mutex that nobody refers to.
LEMMA FreshLockFree ==
  ASSUME TypeOK, NEW k \in Keys, locks[k] = 0
  PROVE  FreshLock \in Nat \ {0}
<1> DEFINE inMap == Range(locks)
           inUse == {th[t].lock : t \in Threads}
           used == inMap \cup inUse
           n == Cardinality(Keys) + Cardinality(Threads)
<1>1. /\ IsFiniteSet(inMap) /\ Cardinality(inMap) <= Cardinality(Keys)
      /\ Cardinality(inMap) \in Nat /\ Cardinality(Keys) \in Nat
  <2>1. locks \in Surjection(Keys, inMap)
    BY DEF TypeOK, Surjection, Range
  <2> QED
    BY <2>1, CacheFinite, FS_Surjection, FS_CardinalityType
<1>2. /\ IsFiniteSet(inUse) /\ Cardinality(inUse) <= Cardinality(Threads)
      /\ Cardinality(inUse) \in Nat /\ Cardinality(Threads) \in Nat
  <2> DEFINE f == [t \in Threads |-> th[t].lock]
  <2>1. f \in Surjection(Threads, inUse)
    BY DEF Surjection
  <2> HIDE DEF f
  <2> QED
    BY <2>1, CacheFinite, FS_Surjection, FS_CardinalityType
<1>3. 0 \in used
  <2>1. locks[k] \in Range(locks)
    BY DEF TypeOK, Range
  <2> QED
    BY <2>1
<1> HIDE DEF inMap, inUse
<1>4. IsFiniteSet(used) /\ Cardinality(used) \in Nat /\ Cardinality(used) <= n
  <2>1. /\ IsFiniteSet(used)
        /\ Cardinality(used) = Cardinality(inMap) + Cardinality(inUse) - Cardinality(inMap \cap inUse)
    BY <1>1, <1>2, FS_Union
  <2>2. IsFiniteSet(inMap \cap inUse)
    BY <1>1, FS_Intersection
  <2>3. Cardinality(inMap \cap inUse) \in Nat /\ Cardinality(used) \in Nat
    BY <2>1, <2>2, FS_CardinalityType
  <2> QED
    BY <1>1, <1>2, <2>1, <2>3
<1>5. n \in Nat
  BY <1>1, <1>2
<1> HIDE DEF n
<1>6. \E m \in 1..n : m \notin used
  <2> SUFFICES ASSUME \A m \in 1..n : m \in used PROVE FALSE
    OBVIOUS
  <2>1. IsFiniteSet(used \ {0}) /\ Cardinality(used \ {0}) = Cardinality(used) - 1
    BY <1>3, <1>4, FS_RemoveElement
  <2>2. 1..n \subseteq used \ {0}
    BY <1>5
  <2>3. Cardinality(1..n) = n
    <3>1. Cardinality(1..n) = IF 1 > n THEN 0 ELSE n - 1 + 1
      BY <1>5, FS_Interval
    <3> QED
      BY <1>5, <3>1
  <2>4. Cardinality(1..n) <= Cardinality(used \ {0})
    BY <2>1, <2>2, FS_Subset
  <2> QED
    BY <1>4, <1>5, <2>1, <2>3, <2>4
<1>7. FreshLock \in 1..n
  BY <1>6 DEF FreshLock, inMap, inUse, n
<1> QED
  BY <1>5, <1>7

-----------------------------------------------------------------------------
(* Plans.                                                                    *)

\* parseSingleRange selects the bytes that the range asks for, if there are any.
LEMMA RangeParsed ==
  ASSUME NEW first \in Int, NEW last \in Int, first >= -1, last >= -1, NEW size \in Nat
  PROVE  LET part == parseSingleRange(first, last, size)
             bytes == Wanted(<<first, last>>, size)
         IN  \/ part = Unsatisfiable /\ bytes = {}
             \/ /\ part.offset \in Nat /\ part.count \in Nat \ {0}
                /\ part.offset + part.count <= size
                /\ bytes = part.offset..(part.offset + part.count - 1)
<1>0. /\ <<first, last>> # <<>> /\ <<first, last>>[1] = first /\ <<first, last>>[2] = last
  OBVIOUS
<1>1. \A i : i \in Wanted(<<first, last>>, size) <=>
        /\ i \in 0..(size - 1)
        /\ \/ first = -1 /\ i >= size - last
           \/ first # -1 /\ first <= i /\ (last = -1 \/ i <= last)
  BY <1>0 DEF Wanted
<1> DEFINE bytes == Wanted(<<first, last>>, size)
<1> HIDE DEF bytes
<1>2. ASSUME NEW a \in Nat, NEW b \in Nat, a <= b, b < size, parseSingleRange(first, last, size) = Between(a, b),
             \A i \in Int : i \in bytes <=> a <= i /\ i <= b
      PROVE  /\ Between(a, b).offset \in Nat /\ Between(a, b).count \in Nat \ {0}
             /\ Between(a, b).offset + Between(a, b).count <= size
             /\ bytes = Between(a, b).offset..(Between(a, b).offset + Between(a, b).count - 1)
  <2>1. Between(a, b).offset = a /\ Between(a, b).count = b - a + 1
    BY DEF Between
  <2>2. \A i : i \in bytes => i \in Int
    BY <1>1 DEF bytes
  <2>3. a + (b - a + 1) - 1 = b /\ b - a + 1 \in Nat \ {0} /\ a + (b - a + 1) <= size
    BY <1>2
  <2>4. bytes = a..b
    <3>1. \A i : i \in bytes <=> i \in a..b
      BY <1>2, <2>2
    <3> HIDE DEF bytes
    <3> QED
      BY <3>1
  <2> QED
    BY <2>1, <2>3, <2>4
<1>3. CASE size = 0 \/ (first = -1 /\ last <= 0)
  <2>1. parseSingleRange(first, last, size) = Unsatisfiable
    BY <1>3 DEF parseSingleRange
  <2>2. bytes = {}
    BY <1>1, <1>3 DEF bytes
  <2> QED
    BY <2>1, <2>2 DEF bytes
<1>4. CASE size # 0 /\ first = -1 /\ last > 0
  <2> DEFINE a == IF last < size THEN size - last ELSE 0
  <2>1. parseSingleRange(first, last, size) = Between(a, size - 1)
    BY <1>4 DEF parseSingleRange
  <2>2. a \in Nat /\ size - 1 \in Nat /\ a <= size - 1 /\ size - 1 < size
    BY <1>4
  <2>3. \A i \in Int : i \in bytes <=> a <= i /\ i <= size - 1
    BY <1>1, <1>4 DEF bytes
  <2> HIDE DEF a
  <2> QED
    BY <1>2, <2>1, <2>2, <2>3 DEF bytes
<1>5. CASE size # 0 /\ first # -1 /\ (first >= size \/ (last # -1 /\ last < first))
  <2>1. parseSingleRange(first, last, size) = Unsatisfiable
    BY <1>5 DEF parseSingleRange
  <2>2. bytes = {}
    BY <1>1, <1>5 DEF bytes
  <2> QED
    BY <2>1, <2>2 DEF bytes
<1>6. CASE size # 0 /\ first # -1 /\ ~(first >= size \/ (last # -1 /\ last < first))
  <2> DEFINE b == IF last # -1 /\ last < size THEN last ELSE size - 1
  <2>1. parseSingleRange(first, last, size) = Between(first, b)
    BY <1>6 DEF parseSingleRange
  <2>2. first \in Nat /\ b \in Nat /\ first <= b /\ b < size
    BY <1>6
  <2>3. \A i \in Int : i \in bytes <=> first <= i /\ i <= b
    BY <1>1, <1>6 DEF bytes
  <2> HIDE DEF b
  <2> QED
    BY <1>2, <2>1, <2>2, <2>3 DEF bytes
<1> QED
  BY <1>3, <1>4, <1>5, <1>6

\* The plan for a version: its stamp, and the bytes the request wants of it.
LEMMA PlanRight ==
  ASSUME NEW q \in Requests, NEW v \in Versions
  PROVE  LET p == Plan(q, v)
             bytes == Wanted(q.range, Stat[v].size)
         IN  /\ p.mtime = Stat[v].mtime /\ p.fileSize = Stat[v].size
             /\ p.status \in {200, 206, 304, 416}
             /\ p.status = 416 => bytes = {}
             /\ p.status \in {200, 206} =>
                  /\ p.offset \in Nat /\ p.count \in Nat /\ p.offset + p.count <= Stat[v].size
                  /\ bytes = p.offset..(p.offset + p.count - 1)
                  /\ Cardinality(bytes) = p.count
             /\ p.status = 206 => bytes # {}
<1> DEFINE s == Stat[v]
           all == [status |-> 200, mtime |-> s.mtime, fileSize |-> s.size,
                   offset |-> 0, count |-> s.size]
           part == parseSingleRange(q.range[1], q.range[2], s.size)
           p == Plan(q, v)
           bytes == Wanted(q.range, s.size)
<1>0. s.size \in Nat /\ s.mtime \in Int
  BY StatAssumption DEF Versions
<1>1. ASSUME NEW a \in Nat, NEW n \in Nat PROVE Cardinality(a..(a + n - 1)) = n
  <2>1. a \in Int /\ a + n - 1 \in Int
    OBVIOUS
  <2>2. Cardinality(a..(a + n - 1)) = IF a > a + n - 1 THEN 0 ELSE (a + n - 1) - a + 1
    BY <2>1, FS_Interval
  <2> QED
    BY <2>2
<1>2. CASE NotModified(q, v)
  <2>1. p = [all EXCEPT !.status = 304]
    BY <1>2 DEF Plan
  <2> HIDE DEF p
  <2>2. p.status = 304 /\ p.mtime = s.mtime /\ p.fileSize = s.size
    BY <2>1
  <2> QED
    BY <2>2 DEF p
<1>3. CASE ~NotModified(q, v) /\ q.range = <<>>
  <2>1. p = all
    BY <1>3 DEF Plan
  <2> HIDE DEF p
  <2>2. p.status = 200 /\ p.mtime = s.mtime /\ p.fileSize = s.size /\ p.offset = 0 /\ p.count = s.size
    BY <2>1
  <2>3. bytes = 0..(0 + s.size - 1)
    BY <1>0, <1>3 DEF Wanted
  <2>4. Cardinality(bytes) = s.size
    BY <1>0, <1>1, <2>3
  <2> QED
    BY <1>0, <2>2, <2>3, <2>4 DEF p
<1>4. CASE ~NotModified(q, v) /\ q.range # <<>>
  <2>1. PICK first \in Int, last \in Int : first >= -1 /\ last >= -1 /\ q.range = <<first, last>>
    BY <1>4, RequestsAssumption
  <2>2. q.range[1] = first /\ q.range[2] = last
    BY <2>1
  <2>3. \/ part = Unsatisfiable /\ bytes = {}
        \/ /\ part.offset \in Nat /\ part.count \in Nat \ {0}
           /\ part.offset + part.count <= s.size
           /\ bytes = part.offset..(part.offset + part.count - 1)
    BY <1>0, <2>1, <2>2, RangeParsed
  <2>4. CASE part = Unsatisfiable
    <3>1. p = [all EXCEPT !.status = 416]
      BY <1>4, <2>4 DEF Plan
    <3> HIDE DEF p
    <3>2. p.status = 416 /\ p.mtime = s.mtime /\ p.fileSize = s.size
      BY <3>1
    <3>3. bytes = {}
      BY <2>3, <2>4 DEF Unsatisfiable
    <3> QED
      BY <3>2, <3>3 DEF p
  <2>5. CASE part # Unsatisfiable
    <3>1. p = [all EXCEPT !.status = 206, !.offset = part.offset, !.count = part.count]
      BY <1>4, <2>5 DEF Plan
    <3> HIDE DEF p, part
    <3>2. /\ p.status = 206 /\ p.mtime = s.mtime /\ p.fileSize = s.size
          /\ p.offset = part.offset /\ p.count = part.count
      BY <3>1
    <3>3. Cardinality(bytes) = part.count
      BY <1>1, <2>3, <2>5
    <3>4. /\ part.offset \in Nat /\ part.count \in Nat /\ part.offset + part.count <= s.size
          /\ bytes = part.offset..(part.offset + part.count - 1) /\ part.count # 0
      BY <2>3, <2>5
    <3> HIDE DEF bytes, s
    <3>5. bytes # {}
      <4>1. part.offset \in bytes
        BY <3>4
      <4> QED
        BY <4>1
    <3>6. /\ p.mtime = s.mtime /\ p.fileSize = s.size /\ p.status = 206
          /\ p.offset \in Nat /\ p.count \in Nat /\ p.offset + p.count <= s.size
          /\ bytes = p.offset..(p.offset + p.count - 1)
          /\ Cardinality(bytes) = p.count /\ bytes # {}
      BY <3>2, <3>3, <3>4, <3>5
    <3> QED
      BY <3>6 DEF p, bytes, s
  <2> QED
    BY <2>4, <2>5
<1> QED
  BY <1>2, <1>3, <1>4

-----------------------------------------------------------------------------
(* What a step of one thread leaves alone.                                   *)

\* Of the caches and the file, a step changes no more than that L1 has another
\* order of its keys.
Undisturbed ==
    /\ DOMAIN l1' = Range(Slice) /\ \A s \in Range(Slice) : Same(l1[s], l1'[s])
    /\ UNCHANGED <<l2, file, forgotten>>

\* The thread t goes on with r.
Goes(t, r) == r \in Works /\ th' = [th EXCEPT ![t] = r]

\* The part of the invariant that is about the locks.
Locked == Exclusion /\ SharedLock /\ SeenCached /\ OneMisses

\* Entries have their type.
LEMMA EntryType ==
  ASSUME NEW v \in Versions, NEW w \in Versions
  PROVE  /\ Entry(v, w) \in Entries /\ Entry(v, w).ver = v /\ v # 0
         /\ Entry(v, w).mtime = Stat[w].mtime /\ Entry(v, w).size = Stat[w].size
  BY StatAssumption DEF Entry, Entries, Versions

\* Such a step keeps what is in L1.
LEMMA KeepsL1 ==
  ASSUME TypeOK, Undisturbed, NEW k \in Keys
  PROVE  (InL1(k)' <=> InL1(k)) /\ ValueL1(k)' = ValueL1(k)
<1>1. Slice[k] \in Range(Slice)
  BY SliceAssumption DEF Range
<1> QED
  BY <1>1 DEF Undisturbed, Same, InL1, ValueL1, TypeOK

\* The types.
LEMMA KeepsTypes ==
  ASSUME TypeOK, Undisturbed, UNCHANGED locks, NEW t \in Threads, NEW r, Goes(t, r)
  PROVE  TypeOK' /\ th' \in [Threads -> Works] /\ th'[t] = r
         /\ \A s \in Threads : s # t => th'[s] = th[s]
  BY DEF TypeOK, Undisturbed, Same, Goes

\* What the caches have.
LEMMA KeepsCaches ==
  ASSUME TypeOK, CachesTrue, Undisturbed
  PROVE  CachesTrue'
  BY KeepsL1 DEF CachesTrue, Stored, Undisturbed

\* The other calls.
LEMMA KeepsCalls ==
  ASSUME TypeOK, CallsOK, NEW t \in Threads, NEW r, Goes(t, r), UNCHANGED file,
         Course(t)', Planned(t)', Holding(t)'
  PROVE  CallsOK'
<1> SUFFICES ASSUME NEW s \in Threads, s # t PROVE Course(s)' /\ Planned(s)' /\ Holding(s)'
  BY DEF CallsOK
<1>1. th'[s] = th[s] /\ file' = file
  BY DEF Goes, TypeOK
<1>2. Course(s) /\ Planned(s) /\ Holding(s)
  BY DEF CallsOK
<1>3. Course(s)'
  BY <1>1, <1>2 DEF Course
<1>4. Planned(s)'
  BY <1>1, <1>2 DEF Planned
<1>5. Holding(s)'
  BY <1>1, <1>2 DEF Holding, Stored
<1> QED
  BY <1>3, <1>4, <1>5

\* The keys that were stored without content.
LEMMA KeepsMarkers ==
  ASSUME TypeOK, MarkersForgotten, Undisturbed, NEW t \in Threads, NEW r, Goes(t, r),
         r.pc \in {"fill", "setex"} => r.entry.size # 0 \/ r.key \in forgotten
  PROVE  MarkersForgotten'
<1>1. /\ l2' = l2 /\ forgotten' = forgotten /\ th'[t] = r
      /\ \A s \in Threads : s # t => th'[s] = th[s]
  BY DEF Undisturbed, Goes, TypeOK
<1> QED
  BY <1>1, KeepsL1 DEF MarkersForgotten

\* The locks, if the thread has the lock it had, or one that nobody else has.
LEMMA KeepsLocks ==
  ASSUME TypeOK, Locked, CallsOK', UNCHANGED locks, forgotten \subseteq forgotten',
         \A k \in Keys : InL1(k) => InL1(k)' \/ k \in forgotten',
         NEW t \in Threads, NEW r, Goes(t, r),
         r.lock # 0 =>
            /\ r.lock = th[t].lock /\ r.key = th[t].key
            /\ \/ Holds(t)
               \/ r.pc = "acquire"
               \/ \A s \in Threads : Holds(s) => th[s].lock # r.lock,
         r.for = "second" /\ r.pc \in {"setex", "erase", "unlock"} =>
            InL1(r.key)' \/ r.key \in forgotten',
         r.for = "second" /\ r.pc \in {"redis", "load"} =>
            \/ Misses(t, r.key)
            \/ r.key \in forgotten'
            \/ \A s \in Threads : Misses(s, r.key) => s = t
  PROVE  Locked'
<1>1. th'[t] = r /\ \A s \in Threads : s # t => th'[s] = th[s]
  BY DEF Goes, TypeOK
<1>2. Exclusion'
  BY <1>1 DEF Locked, Exclusion, Holds
<1>3. SharedLock'
  BY <1>1 DEF Locked, SharedLock
<1>4. SeenCached'
  <2>1. ASSUME NEW s \in Threads, NEW k \in Keys, th'[s].for = "second", th'[s].key = k,
               th'[s].pc \in {"setex", "erase", "unlock"}
        PROVE  k \in Cached(l1'[Slice[k]]) \/ k \in forgotten'
    BY <1>1, <2>1 DEF Locked, SeenCached, InL1
  <2>2. ASSUME NEW s \in Threads, th'[s].for = "second" PROVE th'[s].key \in Keys
    <3>1. Course(s)'
      BY DEF CallsOK
    <3>2. Idle.for # "second"
      BY DEF Idle
    <3> QED
      BY <2>2, <3>1, <3>2 DEF Course
  <2> QED
    BY <2>1, <2>2 DEF SeenCached, InL1
<1>5. OneMisses'
  BY <1>1 DEF Locked, OneMisses, Misses
<1> QED
  BY <1>2, <1>3, <1>4, <1>5 DEF Locked

\* The invariant but for the responses.
Core == TypeOK /\ CachesTrue /\ MarkersForgotten /\ CallsOK /\ Locked

\* All together.
LEMMA KeepsCore ==
  ASSUME Core, Undisturbed, UNCHANGED locks, NEW t \in Threads, NEW r, Goes(t, r),
         Course(t)', Planned(t)', Holding(t)',
         r.pc \in {"fill", "setex"} => r.entry.size # 0 \/ r.key \in forgotten,
         r.lock # 0 =>
            /\ r.lock = th[t].lock /\ r.key = th[t].key
            /\ \/ Holds(t)
               \/ r.pc = "acquire"
               \/ \A s \in Threads : Holds(s) => th[s].lock # r.lock,
         r.for = "second" => r.key \in Keys,
         r.for = "second" /\ r.pc \in {"setex", "erase", "unlock"} =>
            InL1(r.key) \/ r.key \in forgotten,
         r.for = "second" /\ r.pc \in {"redis", "load"} =>
            \/ Misses(t, r.key)
            \/ r.key \in forgotten
            \/ \A s \in Threads : Misses(s, r.key) => s = t
  PROVE  Core'
<1>1. TypeOK /\ CachesTrue /\ MarkersForgotten /\ CallsOK /\ Locked
  BY DEF Core
<1>2. TypeOK' /\ CachesTrue' /\ MarkersForgotten'
  BY <1>1, KeepsTypes, KeepsCaches, KeepsMarkers
<1>3. CallsOK'
  BY <1>1, KeepsCalls DEF Undisturbed
<1>4. forgotten' = forgotten
  BY DEF Undisturbed
<1>5. \A k \in Keys : InL1(k)' <=> InL1(k)
  BY <1>1, KeepsL1
<1>6. Locked'
  BY <1>1, <1>3, <1>4, <1>5, KeepsLocks
<1> QED
  BY <1>2, <1>3, <1>6 DEF Core

\* Nothing in the caches is touched.
LEMMA LeftAlone ==
  ASSUME TypeOK, UNCHANGED <<l1, l2, file, forgotten>>
  PROVE  Undisturbed
  BY DEF TypeOK, Undisturbed, Same

\* The end of a call.
LEMMA IdleWorks ==
  /\ Idle \in Works /\ Idle.pc = "idle" /\ Idle.for = "" /\ Idle.lock = 0
  /\ Idle.entry = NullEntry
<1>1. NullEntry \in Entries
  BY DEF NullEntry, Entries
<1> QED
  BY <1>1 DEF Idle, Works, Stages

\* A call ends: the thread is idle again.
LEMMA KeepsCoreAtEnd ==
  ASSUME Core, Undisturbed, UNCHANGED locks, NEW t \in Threads, th' = [th EXCEPT ![t] = Idle]
  PROVE  Core'
<1>1. th'[t] = Idle
  BY DEF Core, TypeOK
<1>2. Goes(t, Idle)
  BY IdleWorks DEF Goes
<1>3. Course(t)' /\ Planned(t)' /\ Holding(t)'
  BY <1>1, IdleWorks DEF Course, Planned, Holding
<1> QED
  BY <1>2, <1>3, IdleWorks, KeepsCore

\* A step without a response.
LEMMA Silent ==
  ASSUME reply' = <<>>
  PROVE  BodyNotOlder' /\ AnswersExact'
  BY DEF BodyNotOlder, AnswersExact, Sent

-----------------------------------------------------------------------------
(* The steps of StaticFileHandler.                                           *)

\* What a response says.
LEMMA SentAs ==
  ASSUME NEW t, NEW q, NEW seen, NEW status, NEW declared, NEW ver, NEW offset, NEW n,
         Send(t, q, seen, status, declared, ver, offset, n)
  PROVE  /\ th' = [th EXCEPT ![t] = Idle]
         /\ reply'.req = q /\ reply'.seen = seen /\ reply'.status = status
         /\ reply'.declared = declared /\ reply'.ver = ver /\ reply'.offset = offset
         /\ reply'.n = n
  BY DEF Send

\* A status that no property is about.
LEMMA SentOther ==
  ASSUME NEW status \in {304, 400, 404, 503}, reply'.status = status
  PROVE  BodyNotOlder' /\ AnswersExact'
  BY DEF BodyNotOlder, AnswersExact, Sent, NoResponse

\* The work of a thread, by its place.
LEMMA Places ==
  ASSUME Core, NEW t \in Threads
  PROVE  /\ th[t] \in Works
         /\ th[t].pc = "idle" => th[t] = Idle
         /\ th[t].pc = "stat" => th[t].for = "" /\ th[t].lock = 0 /\ th[t].req \in Requests
         /\ th[t].pc \in {"read", "body", "sendfile"} => th[t].for = "serve"
         /\ th[t].pc \in {"lock", "acquire"} => th[t].for = "first"
         /\ th[t].pc \in {"load", "erase", "unlock"} => th[t].for = "second"
         /\ th[t].pc \in {"put", "setex"} => th[t].for \in {"serve", "second"}
         /\ th[t].pc \in {"get", "redis", "fill"} => th[t].for \in {"serve", "first", "second"}
         /\ th[t].pc \notin {"idle", "stat"} => th[t].key \in Keys
         /\ th[t].for = "second" => th[t].key \in Keys /\ Holds(t)
         /\ th[t].for \in {"", "serve"} => th[t].lock = 0
         /\ th[t].for = "first" => (th[t].lock # 0 <=> th[t].pc = "acquire")
<1>1. th[t] \in Works /\ Course(t)
  BY DEF Core, TypeOK, CallsOK
<1> QED
  BY <1>1, IdleWorks DEF Course, Holds

\* getOrLoad begins with a get, for which it has no lock.
LEMMA getOrLoadKeeps ==
  ASSUME IInv, NEW t \in Threads, NEW k \in Keys, getOrLoad(t, k), reply' = <<>>
  PROVE  IInv'
<1> DEFINE r == [Idle EXCEPT !.pc = "get", !.for = "first", !.key = k]
<1>0. Core
  BY DEF IInv, Core, Locked
<1>1. th' = [th EXCEPT ![t] = r] /\ Undisturbed /\ UNCHANGED locks
  BY <1>0, LeftAlone DEF getOrLoad, cacheVars, Core
<1>2. /\ r \in Works /\ r.pc = "get" /\ r.for = "first" /\ r.key = k /\ r.lock = 0
  BY IdleWorks DEF Works, Stages
<1> HIDE DEF r
<1>3. th'[t] = r
  BY <1>0, <1>1 DEF Core, TypeOK
<1>4. Course(t)' /\ Planned(t)' /\ Holding(t)'
  BY <1>2, <1>3 DEF Course, Planned, Holding
<1>5. Core'
  BY <1>0, <1>1, <1>2, <1>4, KeepsCore DEF Goes
<1> QED
  BY <1>5, Silent DEF IInv, Core, Locked

\* handleAsync hands the request to a worker, or refuses it.
LEMMA handleAsyncKeeps ==
  ASSUME IInv, NEW t \in Threads, NEW q \in Requests, handleAsync(t, q)
  PROVE  IInv'
<1>0. Core
  BY DEF IInv, Core, Locked
<1>1. Undisturbed /\ UNCHANGED locks /\ th[t] = Idle
  BY <1>0, LeftAlone, Places DEF handleAsync, cacheVars, Core
<1>2. CASE SendStatus(t, q, 0, 503)
  <2>1. th' = [th EXCEPT ![t] = Idle] /\ reply'.status = 503
    BY <1>2, SentAs DEF SendStatus
  <2> QED
    BY <1>0, <1>1, <2>1, KeepsCoreAtEnd, SentOther DEF IInv, Core, Locked
<1>3. CASE th' = [th EXCEPT ![t].pc = "stat", ![t].req = q] /\ reply' = <<>>
  <2> DEFINE r == [Idle EXCEPT !.pc = "stat", !.req = q]
  <2>1. th' = [th EXCEPT ![t] = r]
    BY <1>0, <1>1, <1>3 DEF Core, TypeOK
  <2>2. r \in Works /\ r.pc = "stat" /\ r.for = "" /\ r.req = q /\ r.lock = 0
    BY IdleWorks DEF Works, Stages
  <2> HIDE DEF r
  <2>3. th'[t] = r
    BY <1>0, <2>1 DEF Core, TypeOK
  <2>4. Course(t)' /\ Planned(t)' /\ Holding(t)'
    BY <2>2, <2>3 DEF Course, Planned, Holding
  <2>5. Core'
    BY <1>0, <1>1, <2>1, <2>2, <2>4, KeepsCore DEF Goes
  <2> QED
    BY <1>3, <2>5, Silent DEF IInv, Core, Locked
<1> QED
  BY <1>2, <1>3 DEF handleAsync

\* A path that leads to no file ends with its status.
LEMMA NoFileKeeps ==
  ASSUME IInv, NEW t \in Threads, NoFile(t)
  PROVE  IInv'
<1>0. Core
  BY DEF IInv, Core, Locked
<1>1. Undisturbed /\ UNCHANGED locks
  BY <1>0, LeftAlone DEF NoFile, cacheVars, Core
<1>2. PICK status \in {400, 404} : SendStatus(t, th[t].req, 0, status)
  BY DEF NoFile
<1>3. th' = [th EXCEPT ![t] = Idle] /\ reply'.status = status
  BY <1>2, SentAs DEF SendStatus
<1>4. Core'
  BY <1>0, <1>1, <1>3, KeepsCoreAtEnd
<1>5. status \in {304, 400, 404, 503}
  OBVIOUS
<1>6. BodyNotOlder' /\ AnswersExact'
  BY <1>3, <1>5, SentOther
<1> QED
  BY <1>4, <1>6 DEF IInv, Core, Locked

\* A response with the bytes that there are of the planned ones.
LEMMA SentPlanned ==
  ASSUME NEW q \in Requests, NEW seen \in Versions, Plan(q, seen).status \in {200, 206},
         NEW ver \in Versions, ver >= seen \/ SameSecond(ver, seen),
         reply'.req = q, reply'.seen = seen, reply'.ver = ver,
         reply'.status = Plan(q, seen).status, reply'.declared = Plan(q, seen).count,
         reply'.offset = Plan(q, seen).offset,
         ~q.head => reply'.n = Available(Plan(q, seen).offset, Plan(q, seen).count, Stat[ver].size)
  PROVE  BodyNotOlder' /\ AnswersExact'
<1> DEFINE p == Plan(q, seen)
           bytes == Wanted(q.range, Stat[seen].size)
<1>1. BodyNotOlder'
  BY DEF BodyNotOlder, Sent, SameSecond
<1>2. /\ p.offset \in Nat /\ p.count \in Nat /\ p.offset + p.count <= Stat[seen].size
      /\ bytes = p.offset..(p.offset + p.count - 1) /\ Cardinality(bytes) = p.count
      /\ p.status = 206 => bytes # {}
  BY PlanRight
<1>3. reply'.status \in {200, 206} /\ reply'.status # NoResponse /\ reply'.status # 416
  BY DEF NoResponse
<1>4. ASSUME SameStamp(ver, seen), ~q.head PROVE reply'.offset..(reply'.offset + reply'.n - 1) = bytes
  <2>1. Stat[ver].size = Stat[seen].size /\ Stat[seen].size \in Nat
    BY <1>4, StatAssumption DEF SameStamp, Versions
  <2> HIDE DEF p, bytes
  <2>2. Available(p.offset, p.count, Stat[ver].size) = p.count
    BY <1>2, <2>1 DEF Available
  <2>3. reply'.n = p.count /\ reply'.offset = p.offset
    BY <1>4, <2>2 DEF p
  <2> QED
    BY <1>2, <2>3
<1> HIDE DEF bytes, p
<1>5. AnswersExact'
  <2>1. (Wanted(reply.req.range, Stat[reply.seen].size))' = bytes
    BY DEF Wanted, bytes
  <2>2. SameStamp(reply.ver, reply.seen)' <=> SameStamp(ver, seen)
    BY DEF SameStamp, SameSecond
  <2>3. reply'.declared = p.count /\ reply'.status = p.status /\ reply'.req = q
    BY DEF p
  <2> QED
    BY <1>2, <1>3, <1>4, <2>1, <2>2, <2>3 DEF AnswersExact, Sent
<1> QED
  BY <1>1, <1>5

\* prepareInRoot: from here on the request has its plan.
LEMMA prepareInRootKeeps ==
  ASSUME IInv, NEW t \in Threads, prepareInRoot(t)
  PROVE  IInv'
<1>0. Core
  BY DEF IInv, Core, Locked
<1>1. Undisturbed /\ UNCHANGED locks
  BY <1>0, LeftAlone DEF prepareInRoot, cacheVars, Core
<1>2. /\ th[t].req \in Requests /\ th[t].req.path \in Keys /\ th[t] \in Works
      /\ th[t].lock = 0 /\ file[th[t].req.path] \in Versions
  BY <1>0, Places DEF prepareInRoot, Core, TypeOK
<1>3. PICK q \in Requests, v \in Versions : q = th[t].req /\ v = file[q.path]
  BY <1>2
<1> DEFINE p == Plan(q, v)
<1>4. /\ p.status \in {200, 206, 304, 416}
      /\ p.status = 416 => Wanted(q.range, Stat[v].size) = {}
  BY PlanRight
<1>5. CASE p.status \in {304, 416} /\ SendStatus(t, q, v, p.status)
  <2>1. th' = [th EXCEPT ![t] = Idle] /\ reply'.status = p.status /\ reply'.req = q /\ reply'.seen = v
    BY <1>5, SentAs DEF SendStatus
  <2>2. Core'
    BY <1>0, <1>1, <2>1, KeepsCoreAtEnd
  <2>3. CASE p.status = 304
    BY <2>1, <2>2, <2>3, SentOther DEF IInv, Core, Locked
  <2>4. CASE p.status = 416
    <3>1. BodyNotOlder'
      BY <2>1, <2>4 DEF BodyNotOlder, Sent
    <3>2. Wanted(reply.req.range, Stat[reply.seen].size)' = {}
      BY <1>4, <2>1, <2>4 DEF Wanted
    <3>3. AnswersExact'
      BY <2>1, <2>4, <3>2 DEF AnswersExact, Sent, NoResponse
    <3> QED
      BY <2>2, <3>1, <3>3 DEF IInv, Core, Locked
  <2> QED
    BY <1>5, <2>3, <2>4
<1>6. CASE p.status \notin {304, 416} /\ q.head /\ Send(t, q, v, p.status, p.count, v, p.offset, 0)
  <2>1. /\ th' = [th EXCEPT ![t] = Idle] /\ reply'.req = q /\ reply'.seen = v /\ reply'.ver = v
        /\ reply'.status = p.status /\ reply'.declared = p.count /\ reply'.offset = p.offset
    BY <1>6, SentAs
  <2>2. Core'
    BY <1>0, <1>1, <2>1, KeepsCoreAtEnd
  <2>3. v >= v
    BY StatAssumption DEF Versions
  <2>4. BodyNotOlder' /\ AnswersExact'
    <3>1. p.status \in {200, 206}
      BY <1>4, <1>6
    <3> HIDE DEF p
    <3> QED
      BY <1>6, <2>1, <2>3, <3>1, SentPlanned DEF p
  <2> QED
    BY <2>2, <2>4 DEF IInv, Core, Locked
<1>7. ASSUME NEW where \in {"sendfile", "get", "read"}, p.status \notin {304, 416}, ~q.head,
             th' = [th EXCEPT ![t] = [@ EXCEPT !.pc = where, !.for = "serve",
                                               !.key = q.path, !.seen = v, !.plan = p]],
             reply' = <<>>
      PROVE  IInv'
  <2> DEFINE r == [th[t] EXCEPT !.pc = where, !.for = "serve", !.key = q.path,
                                !.seen = v, !.plan = p]
  <2>1. th' = [th EXCEPT ![t] = r]
    BY <1>0, <1>7 DEF Core, TypeOK
  <2>2. p \in Plans
    BY DEF Plans
  <2>3. /\ r \in Works /\ r.pc = where /\ r.for = "serve" /\ r.key = q.path /\ r.seen = v
        /\ r.plan = p /\ r.lock = 0 /\ r.req = q
    <3> HIDE DEF p
    <3> QED
      BY <1>2, <1>3, <2>2 DEF Works, Stages
  <2> HIDE DEF r
  <2>4. th'[t] = r /\ file' = file
    BY <1>0, <1>1, <2>1 DEF Core, TypeOK, Undisturbed
  <2>5. v <= file[q.path]
    BY <1>3, StatAssumption DEF Versions
  <2>6. Course(t)' /\ Planned(t)' /\ Holding(t)'
    <3>1. p.status \in {200, 206}
      BY <1>4, <1>7
    <3>2. q.path \in Keys
      BY <1>2, <1>3
    <3>3. Course(t)'
      BY <2>3, <2>4, <3>2 DEF Course
    <3>4. Planned(t)'
      BY <1>2, <1>7, <1>3, <2>3, <2>4, <2>5, <3>1, <3>2 DEF Planned
    <3>5. Holding(t)'
      BY <2>3, <2>4 DEF Holding
    <3> QED
      BY <3>3, <3>4, <3>5
  <2>7. Core'
    BY <1>0, <1>1, <2>1, <2>3, <2>6, KeepsCore DEF Goes
  <2> QED
    BY <1>7, <2>7, Silent DEF IInv, Core, Locked
<1> HIDE DEF p
<1> QED
  BY <1>5, <1>6, <1>7, <1>3 DEF prepareInRoot, p

\* What a request is served by.
LEMMA Serving ==
  ASSUME Core, NEW t \in Threads, th[t].for = "serve"
  PROVE  /\ th[t] \in Works /\ th[t].lock = 0 /\ th[t].key \in Keys
         /\ th[t].req \in Requests /\ ~th[t].req.head /\ th[t].req.path = th[t].key
         /\ th[t].seen \in Versions /\ file[th[t].key] \in Versions
         /\ th[t].seen <= file[th[t].key]
         /\ th[t].plan = Plan(th[t].req, th[t].seen) /\ th[t].plan.status \in {200, 206}
<1>1. th[t] \in Works /\ Course(t) /\ Planned(t) /\ file \in [Keys -> Versions]
  BY DEF Core, TypeOK, CallsOK
<1>2. th[t].lock = 0 /\ th[t].key \in Keys
  BY <1>1, IdleWorks DEF Course
<1> QED
  BY <1>1, <1>2 DEF Planned

\* The entry that is read has the stamp of the plan, and content that is not older.
LEMMA ReadFileKeeps ==
  ASSUME IInv, NEW t \in Threads, ReadFile(t)
  PROVE  IInv'
<1> DEFINE v == file[th[t].key]
           where == IF th[t].req.cached THEN "put" ELSE "body"
           e == Entry(v, th[t].seen)
           r == [th[t] EXCEPT !.pc = where, !.entry = e]
<1>0. Core
  BY DEF IInv, Core, Locked
<1>1. Undisturbed /\ UNCHANGED locks
  BY <1>0, LeftAlone DEF ReadFile, cacheVars, Core
<1>2. th[t].for = "serve"
  BY <1>0, Places DEF ReadFile
<1>3. /\ th[t] \in Works /\ th[t].lock = 0 /\ th[t].key \in Keys /\ th[t].seen \in Versions
      /\ v \in Versions /\ th[t].seen <= v
  BY <1>0, <1>2, Serving
<1>4. CASE ~Stat[v].exists
  <2>1. Send(t, th[t].req, th[t].seen, 404, th[t].plan.count, 0, 0, 0)
    BY <1>4 DEF ReadFile
  <2>2. th' = [th EXCEPT ![t] = Idle] /\ reply'.status = 404
    BY <2>1, SentAs
  <2> QED
    BY <1>0, <1>1, <2>2, KeepsCoreAtEnd, SentOther DEF IInv, Core, Locked
<1>5. CASE Stat[v].exists
  <2>1. th' = [th EXCEPT ![t] = r] /\ reply' = <<>>
    BY <1>0, <1>5 DEF ReadFile, Core, TypeOK
  <2>2. /\ e \in Entries /\ e.ver = v /\ e.mtime = Stat[th[t].seen].mtime
        /\ e.size = Stat[th[t].seen].size
    BY <1>3, EntryType
  <2>3. /\ r \in Works /\ r.pc \in {"put", "body"} /\ r.entry = e /\ r.for = th[t].for
        /\ r.key = th[t].key /\ r.lock = th[t].lock /\ r.seen = th[t].seen /\ r.req = th[t].req
        /\ r.plan = th[t].plan
    <3> HIDE DEF e
    <3> QED
      BY <1>3, <2>2 DEF Works, Stages
  <2> HIDE DEF r
  <2>4. th'[t] = r /\ file' = file
    BY <1>0, <1>1, <2>1 DEF Core, TypeOK, Undisturbed
  <2>5. Course(t)'
    BY <1>2, <1>3, <2>3, <2>4 DEF Course
  <2>6. Planned(t)'
    <3>1. Planned(t)
      BY <1>0 DEF Core, CallsOK
    <3> QED
      BY <2>3, <2>4, <3>1 DEF Planned
  <2>7. Holding(t)'
    <3>1. v <= file[th[t].key]
      BY <1>3, StatAssumption DEF Versions
    <3>2. Stored(e, th[t].key)
      BY <1>3, <3>1 DEF Stored
    <3>3. SameStamp(th[t].seen, th[t].seen)
      BY DEF SameStamp, SameSecond
    <3> HIDE DEF v
    <3> QED
      BY <1>3, <2>2, <2>3, <2>4, <3>1, <3>2, <3>3 DEF Holding, Stored
  <2>8. Core'
    BY <1>0, <1>1, <1>2, <1>3, <2>1, <2>3, <2>5, <2>6, <2>7, KeepsCore DEF Goes
  <2> QED
    BY <2>1, <2>8, Silent DEF IInv, Core, Locked
<1> QED
  BY <1>4, <1>5

\* A large file is sent as it is by then, which is not older than the plan.
LEMMA SendFileKeeps ==
  ASSUME IInv, NEW t \in Threads, SendFile(t)
  PROVE  IInv'
<1>0. Core
  BY DEF IInv, Core, Locked
<1>1. Undisturbed /\ UNCHANGED locks
  BY <1>0, LeftAlone DEF SendFile, cacheVars, Core
<1>2. th[t].for = "serve"
  BY <1>0, Places DEF SendFile
<1>3. PICK q \in Requests, seen \in Versions, v \in Versions :
        /\ q = th[t].req /\ seen = th[t].seen /\ v = file[th[t].key] /\ seen <= v
        /\ th[t].plan = Plan(q, seen) /\ th[t].plan.status \in {200, 206}
  BY <1>0, <1>2, Serving
<1> DEFINE p == Plan(q, seen)
<1>4. CASE ~Stat[v].exists
  <2>1. SendStatus(t, q, seen, 404)
    BY <1>3, <1>4 DEF SendFile
  <2>2. th' = [th EXCEPT ![t] = Idle] /\ reply'.status = 404
    BY <2>1, SentAs DEF SendStatus
  <2> QED
    BY <1>0, <1>1, <2>2, KeepsCoreAtEnd, SentOther DEF IInv, Core, Locked
<1>5. CASE Stat[v].exists
  <2>1. Send(t, q, seen, p.status, p.count, v, p.offset, Available(p.offset, p.count, Stat[v].size))
    BY <1>3, <1>5 DEF SendFile
  <2>2. /\ th' = [th EXCEPT ![t] = Idle] /\ reply'.req = q /\ reply'.seen = seen
        /\ reply'.status = p.status /\ reply'.declared = p.count /\ reply'.ver = v
        /\ reply'.offset = p.offset /\ reply'.n = Available(p.offset, p.count, Stat[v].size)
    BY <2>1, SentAs
  <2>3. p.status \in {200, 206} /\ v >= seen
    BY <1>3, StatAssumption DEF Versions
  <2>4. BodyNotOlder' /\ AnswersExact'
    BY <2>2, <2>3, SentPlanned
  <2>5. Core'
    BY <1>0, <1>1, <2>2, KeepsCoreAtEnd
  <2> QED
    BY <2>4, <2>5 DEF IInv, Core, Locked
<1> QED
  BY <1>4, <1>5

\* The body: its entry has the stamp of a version before its content, so that content
\* older than the plan is of the second of the plan.
LEMMA SetBodyKeeps ==
  ASSUME IInv, NEW t \in Threads, SetBody(t)
  PROVE  IInv'
<1>0. Core
  BY DEF IInv, Core, Locked
<1>1. Undisturbed /\ UNCHANGED locks
  BY <1>0, LeftAlone DEF SetBody, cacheVars, Core
<1>2. th[t].for = "serve" /\ th[t].pc = "body"
  BY <1>0, Places DEF SetBody
<1>3. PICK q \in Requests, seen \in Versions, k \in Keys :
        /\ q = th[t].req /\ seen = th[t].seen /\ k = th[t].key /\ q.path = k
        /\ seen <= file[k] /\ file[k] \in Versions
        /\ th[t].plan = Plan(q, seen) /\ th[t].plan.status \in {200, 206}
  BY <1>0, <1>2, Serving
<1> DEFINE p == Plan(q, seen)
<1>4. PICK ver \in Versions, w \in Versions :
        /\ th[t].entry.ver = ver /\ SameStamp(w, seen) /\ w <= ver /\ ver <= file[k]
  <2>1. Holding(t)
    BY <1>0 DEF Core, CallsOK
  <2> QED
    BY <1>2, <1>3, <2>1 DEF Holding
<1>5. /\ Content(th[t].entry) = Stat[ver].size /\ Stat[ver].size \in Nat /\ Stat[seen].size \in Nat
      /\ ver \in Nat /\ w \in Nat /\ seen \in Nat /\ file[k] \in Nat
  BY <1>3, <1>4, StatAssumption DEF Content, Versions
<1>6. SameSecond(w, seen) /\ Stat[w].size = Stat[seen].size
  BY <1>4 DEF SameStamp
<1>7. p.offset \in Nat /\ p.count \in Nat /\ p.offset + p.count <= Stat[seen].size
  <2>1. p.status \in {200, 206}
    BY <1>3
  <2> QED
    BY <2>1, PlanRight
<1>8. CASE p.offset > Stat[ver].size
  <2>1. SendStatus(t, q, seen, NoResponse)
    BY <1>3, <1>5, <1>8 DEF SetBody
  <2>2. /\ th' = [th EXCEPT ![t] = Idle] /\ reply'.status = NoResponse
        /\ reply'.req = q /\ reply'.seen = seen
    BY <2>1, SentAs DEF SendStatus
  <2>3. Core'
    BY <1>0, <1>1, <2>2, KeepsCoreAtEnd
  <2>4. BodyNotOlder'
    BY <2>2 DEF BodyNotOlder, Sent, NoResponse
  <2>5. ver # seen
    BY <1>5, <1>7, <1>8
  <2>6. file'[q.path] # seen \/ (w < seen /\ SameSecond(w, seen))
    BY <1>1, <1>3, <1>4, <1>5, <1>6, <2>5 DEF Undisturbed
  <2>7. AnswersExact'
    BY <2>2, <2>6 DEF AnswersExact, Sent, NoResponse, SameSecond
  <2> QED
    BY <2>3, <2>4, <2>7 DEF IInv, Core, Locked
<1>9. CASE ~(p.offset > Stat[ver].size)
  <2>1. Send(t, q, seen, p.status, p.count, ver, p.offset,
             Available(p.offset, p.count, Stat[ver].size))
    BY <1>3, <1>4, <1>5, <1>9 DEF SetBody
  <2>2. /\ th' = [th EXCEPT ![t] = Idle] /\ reply'.req = q /\ reply'.seen = seen
        /\ reply'.status = p.status /\ reply'.declared = p.count /\ reply'.ver = ver
        /\ reply'.offset = p.offset /\ reply'.n = Available(p.offset, p.count, Stat[ver].size)
    BY <2>1, SentAs
  <2>3. ver >= seen \/ SameSecond(ver, seen)
    <3>1. Stat[w].mtime <= Stat[ver].mtime /\ (ver < seen => Stat[ver].mtime <= Stat[seen].mtime)
      BY <1>4, <1>5, TimeGoesForward
    <3>2. Stat[w].mtime \in Int /\ Stat[ver].mtime \in Int /\ Stat[seen].mtime \in Int
      BY StatAssumption DEF Versions
    <3> QED
      BY <1>5, <1>6, <3>1, <3>2 DEF SameSecond
  <2>4. p.status \in {200, 206}
    BY <1>3
  <2>5. BodyNotOlder' /\ AnswersExact'
    BY <2>2, <2>3, <2>4, SentPlanned
  <2>6. Core'
    BY <1>0, <1>1, <2>2, KeepsCoreAtEnd
  <2> QED
    BY <2>5, <2>6 DEF IInv, Core, Locked
<1> QED
  BY <1>8, <1>9

-----------------------------------------------------------------------------
(* The steps of TwoLevelCache.                                               *)

\* Another place, the rest as before.
LEMMA Moved ==
  ASSUME Core, NEW t \in Threads, NEW where \in Stages
  PROVE  LET r == [th[t] EXCEPT !.pc = where] IN
         /\ r \in Works /\ r.pc = where /\ r.for = th[t].for /\ r.key = th[t].key
         /\ r.req = th[t].req /\ r.plan = th[t].plan /\ r.seen = th[t].seen
         /\ r.entry = th[t].entry /\ r.lock = th[t].lock
<1>1. th[t] \in Works
  BY DEF Core, TypeOK
<1> QED
  BY <1>1 DEF Works

\* The plan of a call that goes on with its request.
LEMMA StillPlanned ==
  ASSUME Core, NEW t \in Threads, UNCHANGED file, th'[t].for = th[t].for,
         th'[t].key = th[t].key, th'[t].req = th[t].req, th'[t].plan = th[t].plan,
         th'[t].seen = th[t].seen
  PROVE  Planned(t)'
<1>1. Planned(t)
  BY DEF Core, CallsOK
<1> QED
  BY <1>1 DEF Planned

\* A thread takes its lock when nobody has it.
LEMMA AcquireKeeps ==
  ASSUME IInv, NEW t \in Threads, Acquire(t), reply' = <<>>
  PROVE  IInv'
<1> DEFINE r == [th[t] EXCEPT !.pc = "get", !.for = "second"]
<1>0. Core
  BY DEF IInv, Core, Locked
<1>1. Undisturbed /\ UNCHANGED locks
  BY <1>0, LeftAlone DEF Acquire, cacheVars, Core
<1>2. /\ th[t] \in Works /\ th[t].for = "first" /\ th[t].lock # 0 /\ th[t].key \in Keys
  BY <1>0, Places DEF Acquire
<1>3. th' = [th EXCEPT ![t] = r]
  BY <1>0 DEF Acquire, Core, TypeOK
<1>4. /\ r \in Works /\ r.pc = "get" /\ r.for = "second" /\ r.key = th[t].key
      /\ r.lock = th[t].lock
  BY <1>2 DEF Works, Stages
<1> HIDE DEF r
<1>5. th'[t] = r
  BY <1>0, <1>3 DEF Core, TypeOK
<1>6. Course(t)' /\ Planned(t)' /\ Holding(t)'
  BY <1>2, <1>4, <1>5 DEF Course, Planned, Holding
<1>7. \A s \in Threads : Holds(s) => th[s].lock # r.lock
  BY <1>4 DEF Acquire
<1>8. Core'
  BY <1>0, <1>1, <1>2, <1>3, <1>4, <1>6, <1>7, KeepsCore DEF Goes
<1> QED
  BY <1>8, Silent DEF IInv, Core, Locked

\* What loadFunc reads is a version of the file, or nothing.
LEMMA LoadKeeps ==
  ASSUME IInv, NEW t \in Threads, Load(t), reply' = <<>>
  PROVE  IInv'
<1> DEFINE v == file[th[t].key]
           e == IF Stat[v].exists THEN Entry(v, v) ELSE NullEntry
           r == [th[t] EXCEPT !.pc = "put", !.entry = e]
<1>0. Core
  BY DEF IInv, Core, Locked
<1>1. Undisturbed /\ UNCHANGED locks
  BY <1>0, LeftAlone DEF Load, cacheVars, Core
<1>2. /\ th[t] \in Works /\ th[t].for = "second" /\ th[t].key \in Keys /\ Holds(t)
  BY <1>0, Places DEF Load
<1>3. v \in Versions /\ v <= file[th[t].key]
  BY <1>0, <1>2, StatAssumption DEF Core, TypeOK, Versions
<1>4. e \in Entries /\ (e = NullEntry \/ Stored(e, th[t].key))
  <2>1. NullEntry \in Entries /\ Entry(v, v) \in Entries
    BY <1>3, EntryType DEF NullEntry, Entries
  <2>2. Stored(Entry(v, v), th[t].key)
    BY <1>3 DEF Stored
  <2> QED
    BY <2>1, <2>2
<1>5. th' = [th EXCEPT ![t] = r]
  BY <1>0 DEF Load, Core, TypeOK
<1> HIDE DEF e
<1>6. /\ r \in Works /\ r.pc = "put" /\ r.for = "second" /\ r.key = th[t].key
      /\ r.lock = th[t].lock /\ r.entry = e
  BY <1>2, <1>4 DEF Works, Stages
<1> HIDE DEF r
<1>7. th'[t] = r /\ file' = file
  BY <1>0, <1>1, <1>5 DEF Core, TypeOK, Undisturbed
<1>8. Course(t)' /\ Planned(t)'
  BY <1>2, <1>6, <1>7 DEF Course, Planned, Holds
<1>9. Holding(t)'
  BY <1>4, <1>6, <1>7 DEF Holding, Stored
<1>10. Core'
  BY <1>0, <1>1, <1>2, <1>5, <1>6, <1>8, <1>9, KeepsCore DEF Goes
<1> QED
  BY <1>10, Silent DEF IInv, Core, Locked

\* The call ends with its lock.
LEMMA UnlockKeeps ==
  ASSUME IInv, NEW t \in Threads, Unlock(t), reply' = <<>>
  PROVE  IInv'
<1>0. Core
  BY DEF IInv, Core, Locked
<1>1. Undisturbed /\ UNCHANGED locks /\ th' = [th EXCEPT ![t] = Idle]
  BY <1>0, LeftAlone DEF Unlock, cacheVars, Core
<1>2. Core'
  BY <1>0, <1>1, KeepsCoreAtEnd
<1> QED
  BY <1>2, Silent DEF IInv, Core, Locked

\* A miss, in L2 or of a marker in L1.
LEMMA MissKeeps ==
  ASSUME Core, Undisturbed, UNCHANGED locks, NEW t \in Threads, th[t].pc \in {"get", "redis"},
         Goto(t, AfterMiss(t)), th[t].pc = "get" => th[t].key \in forgotten
  PROVE  Core'
<1> DEFINE where == AfterMiss(t)
           r == [th[t] EXCEPT !.pc = where]
<1>1. /\ th[t].for \in {"serve", "first", "second"} /\ th[t].key \in Keys
      /\ th[t].for = "serve" => where = "read" /\ th[t].lock = 0
      /\ th[t].for = "first" => where = "lock" /\ th[t].lock = 0
      /\ th[t].for = "second" => where = "load" /\ Holds(t)
  BY Places DEF AfterMiss
<1>2. where \in {"read", "lock", "load"} /\ where \in Stages
  BY <1>1 DEF Stages
<1> HIDE DEF where
<1>3. /\ r \in Works /\ r.pc = where /\ r.for = th[t].for /\ r.key = th[t].key
      /\ r.req = th[t].req /\ r.plan = th[t].plan /\ r.seen = th[t].seen
      /\ r.entry = th[t].entry /\ r.lock = th[t].lock
  BY <1>2, Moved
<1>4. th' = [th EXCEPT ![t] = r]
  BY DEF Goto, where
<1> HIDE DEF r
<1>5. th'[t] = r /\ file' = file
  BY <1>4 DEF Core, TypeOK, Undisturbed
<1>6. Course(t)'
  BY <1>1, <1>3, <1>5 DEF Course, Holds
<1>7. Planned(t)'
  BY <1>3, <1>5, StillPlanned
<1>8. Holding(t)'
  BY <1>2, <1>3, <1>5 DEF Holding
<1>9. r.for = "second" => Misses(t, r.key) \/ r.key \in forgotten
  BY <1>3 DEF Misses
<1> QED
  BY <1>1, <1>2, <1>3, <1>4, <1>6, <1>7, <1>8, <1>9, KeepsCore DEF Goes

\* A hit: a response uses the entry only if it has the stamp of the plan; getOrLoad
\* returns it, or goes on to give its lock up.
LEMMA HitGoes ==
  ASSUME Core, NEW t \in Threads, th[t].pc \in {"get", "fill"}, NEW e \in Entries,
         Stored(e, th[t].key), Hit(t, e), UNCHANGED file
  PROVE  /\ Course(t)' /\ Planned(t)' /\ Holding(t)'
         /\ \E r : /\ Goes(t, r) /\ r.pc \notin {"fill", "setex"}
                   /\ r.lock # 0 => r.lock = th[t].lock /\ r.key = th[t].key /\ Holds(t)
                   /\ r.for = "second" => r.pc = "erase" /\ r.key = th[t].key /\ r.key \in Keys
<1>0. th[t] \in Works /\ th \in [Threads -> Works]
  BY DEF Core, TypeOK
<1>1. th[t].for \in {"serve", "first", "second"} /\ th[t].key \in Keys
  BY Places
<1>2. CASE th[t].for = "serve"
  <2> DEFINE where == IF e.mtime = th[t].plan.mtime /\ e.size = th[t].plan.fileSize
                      THEN "body" ELSE "read"
             r == [th[t] EXCEPT !.pc = where, !.entry = e]
  <2>1. th' = [th EXCEPT ![t] = r]
    BY <1>2 DEF Hit
  <2>2. /\ r \in Works /\ r.pc = where /\ r.for = "serve" /\ r.key = th[t].key /\ r.req = th[t].req
        /\ r.plan = th[t].plan /\ r.seen = th[t].seen /\ r.entry = e /\ r.lock = th[t].lock
    <3>1. where \in Stages
      BY DEF Stages
    <3> HIDE DEF where
    <3> QED
      BY <1>0, <1>2, <3>1 DEF Works
  <2> HIDE DEF r
  <2>3. th'[t] = r
    BY <1>0, <2>1
  <2>4. /\ th[t].lock = 0 /\ th[t].seen \in Versions /\ th[t].req \in Requests
        /\ th[t].plan = Plan(th[t].req, th[t].seen)
    BY <1>2, Serving
  <2>5. Course(t)'
    BY <1>1, <2>2, <2>3, <2>4 DEF Course
  <2>6. Planned(t)'
    BY <1>2, <2>2, <2>3, StillPlanned
  <2>7. Holding(t)'
    <3>1. CASE where = "read"
      BY <2>2, <2>3, <3>1 DEF Holding
    <3>2. CASE where = "body"
      <4>1. PICK v \in Versions, w \in Versions : w <= v /\ v <= file[th[t].key] /\ e = Entry(v, w)
        BY DEF Stored
      <4>2. e.ver = v /\ e.mtime = Stat[w].mtime /\ e.size = Stat[w].size
        BY <4>1, EntryType
      <4>3. e.mtime = th[t].plan.mtime /\ e.size = th[t].plan.fileSize
        BY <3>2
      <4>4. th[t].plan.mtime = Stat[th[t].seen].mtime /\ th[t].plan.fileSize = Stat[th[t].seen].size
        BY <2>4, PlanRight
      <4>5. SameStamp(w, th[t].seen)
        BY <4>2, <4>3, <4>4 DEF SameStamp, SameSecond
      <4> HIDE DEF where
      <4> QED
        BY <2>2, <2>3, <3>2, <4>1, <4>2, <4>5 DEF Holding
    <3> QED
      BY <3>1, <3>2
  <2> QED
    BY <2>1, <2>2, <2>4, <2>5, <2>6, <2>7 DEF Goes
<1>3. CASE th[t].for = "first"
  <2>1. th' = [th EXCEPT ![t] = Idle]
    BY <1>3 DEF Hit
  <2>2. th'[t] = Idle
    BY <1>0, <2>1
  <2>3. Course(t)' /\ Planned(t)' /\ Holding(t)'
    BY <2>2, IdleWorks DEF Course, Planned, Holding
  <2> QED
    BY <2>1, <2>3, IdleWorks DEF Goes
<1>4. CASE th[t].for = "second"
  <2> DEFINE r == [th[t] EXCEPT !.pc = "erase"]
  <2>1. th' = [th EXCEPT ![t] = r]
    BY <1>4 DEF Hit
  <2>2. /\ r \in Works /\ r.pc = "erase" /\ r.for = "second" /\ r.key = th[t].key
        /\ r.lock = th[t].lock
    BY <1>0, <1>4 DEF Works, Stages
  <2>3. Holds(t)
    BY <1>4, Places
  <2> HIDE DEF r
  <2>4. th'[t] = r
    BY <1>0, <2>1
  <2>5. Course(t)' /\ Planned(t)' /\ Holding(t)'
    BY <1>1, <2>2, <2>3, <2>4 DEF Course, Planned, Holding, Holds
  <2> QED
    BY <1>1, <2>1, <2>2, <2>3, <2>5 DEF Goes
<1> QED
  BY <1>1, <1>2, <1>3, <1>4

\* get of L1: whoever misses the key with a lock has the lock of the map, and is alone.
LEMMA GetL1Keeps ==
  ASSUME IInv, NEW t \in Threads, GetL1(t), reply' = <<>>
  PROVE  IInv'
<1> DEFINE k == th[t].key
           e == ValueL1(k)
<1>0. Core
  BY DEF IInv, Core, Locked
<1>1. th[t].pc = "get" /\ k \in Keys /\ th[t].for \in {"serve", "first", "second"}
  BY <1>0, Places DEF GetL1
<1>2. Slice[k] \in Range(Slice) /\ IsCache(l1[Slice[k]]) /\ DOMAIN l1 = Range(Slice)
  BY <1>0, <1>1, SliceAssumption DEF Range, Core, TypeOK
<1>3. UNCHANGED <<l2, locks, file, forgotten>>
  BY DEF GetL1
<1>4. Undisturbed
  <2>1. \/ UNCHANGED l1
        \/ \E c \in lfuGet(l1[Slice[k]], k) : l1' = [l1 EXCEPT ![Slice[k]] = c]
    BY DEF GetL1, L1, SetL1
  <2>2. CASE UNCHANGED l1
    BY <1>0, <1>3, <2>2, LeftAlone DEF Core
  <2>3. ASSUME NEW c \in lfuGet(l1[Slice[k]], k), l1' = [l1 EXCEPT ![Slice[k]] = c]
        PROVE  Undisturbed
    <3>1. Same(l1[Slice[k]], c)
      BY <1>2, GetKeeps
    <3>2. \A s \in Range(Slice) : IsCache(l1[s])
      BY <1>0 DEF Core, TypeOK
    <3>3. \A s \in Range(Slice) : Same(l1[s], l1'[s])
      BY <1>2, <2>3, <3>1, <3>2 DEF Same
    <3> QED
      BY <1>2, <1>3, <2>3, <3>3 DEF Undisturbed
  <2> QED
    BY <2>1, <2>2, <2>3
<1>5. CASE ~InL1(k)
  <2> DEFINE r == [th[t] EXCEPT !.pc = "redis"]
  <2>1. th' = [th EXCEPT ![t] = r]
    BY <1>5 DEF GetL1, Goto, InL1, L1
  <2>2. /\ r \in Works /\ r.pc = "redis" /\ r.for = th[t].for /\ r.key = th[t].key
        /\ r.req = th[t].req /\ r.plan = th[t].plan /\ r.seen = th[t].seen
        /\ r.entry = th[t].entry /\ r.lock = th[t].lock
    BY <1>0, Moved DEF Stages
  <2> HIDE DEF r
  <2>3. th'[t] = r
    BY <1>0, <2>1 DEF Core, TypeOK
  <2>4. /\ th[t].for = "second" => Holds(t)
        /\ th[t].for # "second" => th[t].lock = 0
    BY <1>0, <1>1, Places
  <2>5. Course(t)'
    BY <1>1, <2>2, <2>3, <2>4 DEF Course, Holds
  <2>6. Planned(t)'
    BY <1>0, <1>3, <2>2, <2>3, StillPlanned
  <2>7. Holding(t)'
    BY <2>2, <2>3 DEF Holding
  <2>8. ASSUME th[t].for = "second", k \notin forgotten, NEW s \in Threads, Misses(s, k)
        PROVE  s = t
    <3>1. Holds(s) /\ th[s].key = k /\ Holds(t)
      BY <1>0, <2>4, <2>8, Places DEF Misses
    <3>2. th[s].lock = locks[k] /\ th[t].lock = locks[k]
      BY <1>0, <1>1, <1>5, <2>8, <3>1 DEF Core, Locked, SharedLock, Holds
    <3> QED
      BY <1>0, <3>1, <3>2 DEF Core, Locked, Exclusion
  <2>9. Core'
    BY <1>0, <1>1, <1>3, <1>4, <2>1, <2>2, <2>4, <2>5, <2>6, <2>7, <2>8, KeepsCore DEF Goes
  <2> QED
    BY <2>9, Silent DEF IInv, Core, Locked
<1>6. CASE InL1(k) /\ e.size = 0 /\ Content(e) = 0
  <2>1. Goto(t, AfterMiss(t))
    BY <1>6 DEF GetL1, InL1, ValueL1, L1
  <2>2. k \in forgotten
    BY <1>0, <1>1, <1>6 DEF Core, MarkersForgotten
  <2>3. Core'
    BY <1>0, <1>1, <1>3, <1>4, <2>1, <2>2, MissKeeps
  <2> QED
    BY <2>3, Silent DEF IInv, Core, Locked
<1>7. CASE InL1(k) /\ ~(e.size = 0 /\ Content(e) = 0)
  <2>1. Hit(t, e)
    BY <1>7 DEF GetL1, InL1, ValueL1, L1
  <2>2. e # NullEntry
    BY <1>7 DEF NullEntry, Content
  <2>3. Stored(e, k)
    BY <1>0, <1>1, <1>7, <2>2 DEF Core, CachesTrue
  <2>4. e \in Entries
    BY <2>3, EntryType DEF Stored
  <2> HIDE DEF e
  <2>5. /\ Course(t)' /\ Planned(t)' /\ Holding(t)'
        /\ \E r : /\ Goes(t, r) /\ r.pc \notin {"fill", "setex"}
                  /\ r.lock # 0 => r.lock = th[t].lock /\ r.key = th[t].key /\ Holds(t)
                  /\ r.for = "second" => r.pc = "erase" /\ r.key = th[t].key /\ r.key \in Keys
    BY <1>0, <1>1, <1>3, <2>1, <2>3, <2>4, HitGoes
  <2>6. PICK r : /\ Goes(t, r) /\ r.pc \notin {"fill", "setex"}
                 /\ r.lock # 0 => r.lock = th[t].lock /\ r.key = th[t].key /\ Holds(t)
                 /\ r.for = "second" => r.pc = "erase" /\ r.key = th[t].key /\ r.key \in Keys
    BY <2>5
  <2>7. r.for = "second" => InL1(r.key)
    BY <1>7, <2>6
  <2>8. Core'
    BY <1>0, <1>3, <1>4, <2>5, <2>6, <2>7, KeepsCore
  <2> QED
    BY <2>8, Silent DEF IInv, Core, Locked
<1> QED
  BY <1>5, <1>6, <1>7

\* get of L2: an entry goes on to L1, a miss to whatever the caller does then.
LEMMA GetL2Keeps ==
  ASSUME IInv, NEW t \in Threads, GetL2(t), reply' = <<>>
  PROVE  IInv'
<1>0. Core
  BY DEF IInv, Core, Locked
<1>1. Undisturbed /\ UNCHANGED locks
  BY <1>0, LeftAlone DEF GetL2, cacheVars, Core
<1>2. th[t].pc = "redis" /\ th[t].key \in Keys /\ th[t].for \in {"serve", "first", "second"}
  BY <1>0, Places DEF GetL2
<1>3. CASE Goto(t, AfterMiss(t))
  <2>1. Core'
    BY <1>0, <1>1, <1>2, <1>3, MissKeeps
  <2> QED
    BY <2>1, Silent DEF IInv, Core, Locked
<1>4. CASE /\ l2[th[t].key] \notin {Absent, Mark}
           /\ th' = [th EXCEPT ![t].pc = "fill", ![t].entry = l2[th[t].key]]
  <2> DEFINE e == l2[th[t].key]
             r == [th[t] EXCEPT !.pc = "fill", !.entry = e]
  <2>1. e \in Entries /\ th[t] \in Works
    BY <1>0, <1>2 DEF Core, TypeOK
  <2>2. th' = [th EXCEPT ![t] = r]
    BY <1>0, <1>4 DEF Core, TypeOK
  <2>3. Stored(e, th[t].key) /\ (e.size # 0 \/ th[t].key \in forgotten)
    BY <1>0, <1>2, <1>4 DEF Core, CachesTrue, MarkersForgotten
  <2> HIDE DEF e
  <2>4. /\ r \in Works /\ r.pc = "fill" /\ r.for = th[t].for /\ r.key = th[t].key
        /\ r.req = th[t].req /\ r.plan = th[t].plan /\ r.seen = th[t].seen
        /\ r.entry = e /\ r.lock = th[t].lock
    BY <2>1 DEF Works, Stages
  <2> HIDE DEF r
  <2>5. th'[t] = r /\ file' = file
    BY <1>0, <1>1, <2>2 DEF Core, TypeOK, Undisturbed
  <2>6. /\ th[t].for = "second" => Holds(t)
        /\ th[t].for # "second" => th[t].lock = 0
    BY <1>0, <1>2, Places
  <2>7. Course(t)'
    BY <1>2, <2>4, <2>5, <2>6 DEF Course, Holds
  <2>8. Planned(t)'
    BY <1>0, <2>4, <2>5, StillPlanned
  <2>9. Holding(t)'
    BY <2>3, <2>4, <2>5 DEF Holding, Stored
  <2>10. Core'
    BY <1>0, <1>1, <1>2, <2>2, <2>3, <2>4, <2>6, <2>7, <2>8, <2>9, KeepsCore DEF Goes
  <2> QED
    BY <2>10, Silent DEF IInv, Core, Locked
<1> QED
  BY <1>3, <1>4 DEF GetL2

\* A put of L1: what stays is what was there or what was put; what is lost is
\* forgotten.
LEMMA PutIntoL1 ==
  ASSUME Core, NEW k \in Keys, NEW e, NEW c \in lfuPut(l1[Slice[k]], k, e),
         l1' = [l1 EXCEPT ![Slice[k]] = c], UNCHANGED <<l2, file>>,
         forgotten \subseteq forgotten', Lost(l1[Slice[k]], c, k) \subseteq forgotten',
         e = NullEntry \/ Stored(e, k), e.size # 0 \/ k \in forgotten'
  PROVE  /\ DOMAIN l1' = Range(Slice) /\ \A s \in Range(Slice) : IsCache(l1'[s])
         /\ \A j \in Keys : InL1(j) => InL1(j)' \/ j \in forgotten'
         /\ InL1(k)' \/ k \in forgotten'
         /\ CachesTrue'
         /\ \A j \in Keys \ forgotten' :
              (InL1(j)' => ValueL1(j)'.size # 0) /\ (l2'[j] \in {Absent, Mark} \/ l2'[j].size # 0)
<1>1. /\ DOMAIN l1 = Range(Slice) /\ \A s \in Range(Slice) : IsCache(l1[s])
      /\ \A j \in Keys : Slice[j] \in Range(Slice)
  BY SliceAssumption DEF Core, TypeOK, Range
<1>2. /\ IsCache(c)
      /\ \A x \in Cached(c) :
           (x = k /\ c.value[x] = e)
           \/ (x \in Cached(l1[Slice[k]]) /\ c.value[x] = l1[Slice[k]].value[x])
  BY <1>1, PutKeeps
<1>3. DOMAIN l1' = Range(Slice) /\ \A s \in Range(Slice) : IsCache(l1'[s])
  BY <1>1, <1>2
<1>4. \A j \in Keys : l1'[Slice[j]] = IF Slice[j] = Slice[k] THEN c ELSE l1[Slice[j]]
  BY <1>1
<1>5. \A x : x \in Cached(l1[Slice[k]]) \/ x = k => x \in Cached(c) \/ x \in forgotten'
  BY DEF Lost
<1>6. /\ \A j \in Keys : InL1(j) => InL1(j)' \/ j \in forgotten'
      /\ InL1(k)' \/ k \in forgotten'
  BY <1>4, <1>5 DEF InL1
<1>7. ASSUME NEW j \in Keys, InL1(j)'
      PROVE  (j = k /\ ValueL1(j)' = e) \/ (InL1(j) /\ ValueL1(j)' = ValueL1(j))
  BY <1>2, <1>4, <1>7 DEF InL1, ValueL1
<1>8. CachesTrue'
  <2>1. ASSUME NEW j \in Keys, InL1(j)' PROVE ValueL1(j)' = NullEntry \/ Stored(ValueL1(j)', j)
    BY <1>7, <2>1 DEF Core, CachesTrue
  <2>2. \A j \in Keys : l2'[j] \in {Absent, Mark} \/ Stored(l2'[j], j)
    BY DEF Core, CachesTrue
  <2> QED
    BY <2>1, <2>2 DEF CachesTrue, Stored
<1>9. ASSUME NEW j \in Keys \ forgotten'
      PROVE  (InL1(j)' => ValueL1(j)'.size # 0) /\ (l2'[j] \in {Absent, Mark} \/ l2'[j].size # 0)
  BY <1>7 DEF Core, MarkersForgotten
<1> QED
  BY <1>3, <1>6, <1>8, <1>9

\* The entry in a call is not a marker, or its key is forgotten.
LEMMA EntryMarked ==
  ASSUME Core, NEW t \in Threads, th[t].pc \in {"fill", "setex"}
  PROVE  th[t].entry.size # 0 \/ th[t].key \in forgotten
<1>1. th[t].key \in Keys
  BY Places
<1> QED
  BY <1>1 DEF Core, MarkersForgotten

\* The marks of the calls, when forgotten grows.
LEMMA MarksGrow ==
  ASSUME Core, forgotten \subseteq forgotten', NEW t \in Threads, NEW r, Goes(t, r),
         r.pc \in {"fill", "setex"} => r.entry.size # 0 \/ r.key \in forgotten',
         \A j \in Keys \ forgotten' :
            (InL1(j)' => ValueL1(j)'.size # 0) /\ (l2'[j] \in {Absent, Mark} \/ l2'[j].size # 0)
  PROVE  MarkersForgotten'
<1>1. th'[t] = r /\ \A s \in Threads : s # t => th'[s] = th[s]
  BY DEF Goes, Core, TypeOK
<1>2. ASSUME NEW k \in Keys \ forgotten', NEW s \in Threads,
             th'[s].key = k, th'[s].pc \in {"fill", "setex"}
      PROVE  th'[s].entry.size # 0
  BY <1>1, <1>2 DEF Core, MarkersForgotten
<1> QED
  BY <1>2 DEF MarkersForgotten

\* The entry from L2 is put into L1 and used.
LEMMA FillL1Keeps ==
  ASSUME IInv, NEW t \in Threads, FillL1(t), reply' = <<>>
  PROVE  IInv'
<1>0. Core
  BY DEF IInv, Core, Locked
<1>1. th[t].pc = "fill" /\ th[t].key \in Keys /\ th[t] \in Works
  BY <1>0, Places DEF FillL1
<1>2. PICK k \in Keys, e \in Entries : k = th[t].key /\ e = th[t].entry
  BY <1>1 DEF Works
<1>3. Stored(e, k) /\ (e.size # 0 \/ k \in forgotten)
  BY <1>0, <1>1, <1>2, EntryMarked DEF Core, CallsOK, Holding
<1>4. PICK c \in lfuPut(l1[Slice[k]], k, e) :
        /\ l1' = [l1 EXCEPT ![Slice[k]] = c]
        /\ forgotten' = forgotten \cup Lost(l1[Slice[k]], c, k)
  BY <1>2 DEF FillL1, L1, SetL1
<1>5. Hit(t, e) /\ UNCHANGED <<l2, locks, file>>
  BY <1>2 DEF FillL1
<1>6. /\ DOMAIN l1' = Range(Slice) /\ \A s \in Range(Slice) : IsCache(l1'[s])
      /\ \A j \in Keys : InL1(j) => InL1(j)' \/ j \in forgotten'
      /\ InL1(k)' \/ k \in forgotten'
      /\ CachesTrue'
      /\ \A j \in Keys \ forgotten' :
           (InL1(j)' => ValueL1(j)'.size # 0) /\ (l2'[j] \in {Absent, Mark} \/ l2'[j].size # 0)
  BY <1>0, <1>3, <1>4, <1>5, PutIntoL1
<1>7. /\ Course(t)' /\ Planned(t)' /\ Holding(t)'
      /\ \E r : /\ Goes(t, r) /\ r.pc \notin {"fill", "setex"}
                /\ r.lock # 0 => r.lock = th[t].lock /\ r.key = th[t].key /\ Holds(t)
                /\ r.for = "second" => r.pc = "erase" /\ r.key = th[t].key /\ r.key \in Keys
  BY <1>0, <1>1, <1>2, <1>3, <1>5, HitGoes
<1>8. PICK r : /\ Goes(t, r) /\ r.pc \notin {"fill", "setex"}
               /\ r.lock # 0 => r.lock = th[t].lock /\ r.key = th[t].key /\ Holds(t)
               /\ r.for = "second" => r.pc = "erase" /\ r.key = th[t].key /\ r.key \in Keys
  BY <1>7
<1>9. TypeOK'
  BY <1>0, <1>5, <1>6, <1>8 DEF Core, TypeOK, Goes
<1>10. CallsOK'
  BY <1>0, <1>5, <1>7, <1>8, KeepsCalls DEF Core
<1>11. MarkersForgotten'
  BY <1>0, <1>4, <1>6, <1>8, MarksGrow
<1>12. r.for = "second" => InL1(r.key)' \/ r.key \in forgotten'
  BY <1>2, <1>6, <1>8
<1>13. Locked'
  BY <1>0, <1>4, <1>5, <1>6, <1>8, <1>10, <1>12, KeepsLocks DEF Core
<1> QED
  BY <1>6, <1>9, <1>10, <1>11, <1>13, Silent DEF IInv, Core, Locked

\* put of L1; an entry of size 0 makes its key a forgotten one.
LEMMA PutL1Keeps ==
  ASSUME IInv, NEW t \in Threads, PutL1(t), reply' = <<>>
  PROVE  IInv'
<1>0. Core
  BY DEF IInv, Core, Locked
<1>1. /\ th[t].pc = "put" /\ th[t].key \in Keys /\ th[t] \in Works
      /\ th[t].for \in {"serve", "second"}
  BY <1>0, Places DEF PutL1
<1>2. PICK k \in Keys, e \in Entries : k = th[t].key /\ e = th[t].entry
  BY <1>1 DEF Works
<1>3. e = NullEntry \/ Stored(e, k)
  BY <1>0, <1>1, <1>2 DEF Core, CallsOK, Holding
<1>4. PICK c \in lfuPut(l1[Slice[k]], k, e) :
        /\ l1' = [l1 EXCEPT ![Slice[k]] = c]
        /\ forgotten' = forgotten \cup Lost(l1[Slice[k]], c, k) \cup (IF e.size = 0 THEN {k} ELSE {})
  BY <1>2 DEF PutL1, L1, SetL1
<1>5. Goto(t, "setex") /\ UNCHANGED <<l2, locks, file>>
  BY DEF PutL1
<1>6. /\ DOMAIN l1' = Range(Slice) /\ \A s \in Range(Slice) : IsCache(l1'[s])
      /\ \A j \in Keys : InL1(j) => InL1(j)' \/ j \in forgotten'
      /\ InL1(k)' \/ k \in forgotten'
      /\ CachesTrue'
      /\ \A j \in Keys \ forgotten' :
           (InL1(j)' => ValueL1(j)'.size # 0) /\ (l2'[j] \in {Absent, Mark} \/ l2'[j].size # 0)
  BY <1>0, <1>3, <1>4, <1>5, PutIntoL1
<1> DEFINE r == [th[t] EXCEPT !.pc = "setex"]
<1>7. /\ r \in Works /\ r.pc = "setex" /\ r.for = th[t].for /\ r.key = k
      /\ r.req = th[t].req /\ r.plan = th[t].plan /\ r.seen = th[t].seen
      /\ r.entry = e /\ r.lock = th[t].lock
  BY <1>0, <1>2, Moved DEF Stages
<1>8. th' = [th EXCEPT ![t] = r]
  BY <1>5 DEF Goto
<1> HIDE DEF r
<1>9. th'[t] = r /\ Goes(t, r)
  BY <1>0, <1>7, <1>8 DEF Core, TypeOK, Goes
<1>10. /\ th[t].for = "second" => Holds(t)
       /\ th[t].for = "serve" => th[t].lock = 0
  BY <1>0, <1>1, Places
<1>11. Course(t)'
  BY <1>1, <1>2, <1>7, <1>9, <1>10 DEF Course, Holds
<1>12. Planned(t)'
  BY <1>0, <1>2, <1>5, <1>7, <1>9, StillPlanned
<1>13. Holding(t)'
  <2>1. Holding(t)
    BY <1>0 DEF Core, CallsOK
  <2> QED
    BY <1>1, <1>2, <1>5, <1>7, <1>9, <2>1 DEF Holding, Stored
<1>14. TypeOK'
  BY <1>0, <1>5, <1>6, <1>9 DEF Core, TypeOK, Goes
<1>15. CallsOK'
  BY <1>0, <1>5, <1>9, <1>11, <1>12, <1>13, KeepsCalls DEF Core
<1>16. MarkersForgotten'
  BY <1>0, <1>4, <1>6, <1>7, <1>9, MarksGrow
<1>17. Locked'
  BY <1>0, <1>1, <1>2, <1>4, <1>5, <1>6, <1>7, <1>9, <1>10, <1>15, KeepsLocks DEF Core
<1> QED
  BY <1>6, <1>14, <1>15, <1>16, <1>17, Silent DEF IInv, Core, Locked

\* put of L2, which may fail.
LEMMA PutL2Keeps ==
  ASSUME IInv, NEW t \in Threads, PutL2(t), reply' = <<>>
  PROVE  IInv'
<1>0. Core
  BY DEF IInv, Core, Locked
<1>1. /\ th[t].pc = "setex" /\ th[t].key \in Keys /\ th[t] \in Works
      /\ th[t].for \in {"serve", "second"}
  BY <1>0, Places DEF PutL2
<1>2. PICK k \in Keys, e \in Entries : k = th[t].key /\ e = th[t].entry
  BY <1>1 DEF Works
<1>3. (e = NullEntry \/ Stored(e, k)) /\ (e.size # 0 \/ k \in forgotten)
  BY <1>0, <1>1, <1>2, EntryMarked DEF Core, CallsOK, Holding
<1> DEFINE where == IF th[t].for = "serve" THEN "body" ELSE "erase"
           r == [th[t] EXCEPT !.pc = where]
<1>4. th' = [th EXCEPT ![t] = r] /\ UNCHANGED <<l1, locks, file, forgotten>>
  BY DEF PutL2, Goto
<1>5. where \in Stages /\ where = IF th[t].for = "serve" THEN "body" ELSE "erase"
  BY DEF Stages
<1> HIDE DEF where
<1>6. /\ r \in Works /\ r.pc = where /\ r.for = th[t].for /\ r.key = k
      /\ r.req = th[t].req /\ r.plan = th[t].plan /\ r.seen = th[t].seen
      /\ r.entry = e /\ r.lock = th[t].lock
  BY <1>0, <1>2, <1>5, Moved
<1> HIDE DEF r
<1>7. th'[t] = r /\ Goes(t, r)
  BY <1>0, <1>4, <1>6 DEF Core, TypeOK, Goes
<1>8. /\ l2' \in [Keys -> Entries]
      /\ \A j \in Keys : \/ l2'[j] = l2[j]
                         \/ l2'[j] = Mark
                         \/ j = k /\ l2'[j] = e /\ e # NullEntry
  <2>1. l2 \in [Keys -> Entries] /\ Mark \in Entries
    BY <1>0 DEF Core, TypeOK, Mark, NullEntry, Entries
  <2>2. l2' = l2 \/ l2' = [l2 EXCEPT ![k] = IF e = NullEntry THEN Mark ELSE e]
    BY <1>2 DEF PutL2
  <2> QED
    BY <2>1, <2>2
<1>9. TypeOK'
  BY <1>0, <1>4, <1>7, <1>8 DEF Core, TypeOK, Goes
<1>10. /\ \A j \in Keys : (InL1(j)' <=> InL1(j)) /\ ValueL1(j)' = ValueL1(j)
  BY <1>4 DEF InL1, ValueL1
<1>11. CachesTrue'
  <2>1. \A j \in Keys : l2'[j] \in {Absent, Mark} \/ Stored(l2'[j], j)
    BY <1>0, <1>3, <1>8 DEF Core, CachesTrue
  <2>2. \A j \in Keys : InL1(j) => ValueL1(j) = NullEntry \/ Stored(ValueL1(j), j)
    BY <1>0 DEF Core, CachesTrue
  <2> QED
    BY <1>4, <1>10, <2>1, <2>2 DEF CachesTrue, Stored
<1>12. MarkersForgotten'
  <2>1. ASSUME NEW j \in Keys \ forgotten'
        PROVE  (InL1(j)' => ValueL1(j)'.size # 0) /\ (l2'[j] \in {Absent, Mark} \/ l2'[j].size # 0)
    BY <1>0, <1>3, <1>4, <1>8, <1>10 DEF Core, MarkersForgotten
  <2>2. r.pc \notin {"fill", "setex"}
    BY <1>5, <1>6
  <2> QED
    BY <1>0, <1>4, <1>7, <2>1, <2>2, MarksGrow
<1>13. /\ th[t].for = "second" => Holds(t)
       /\ th[t].for = "serve" => th[t].lock = 0
  BY <1>0, <1>1, Places
<1>14. Course(t)'
  BY <1>1, <1>2, <1>5, <1>6, <1>7, <1>13 DEF Course, Holds
<1>15. Planned(t)'
  BY <1>0, <1>2, <1>4, <1>6, <1>7, StillPlanned
<1>16. Holding(t)'
  <2>1. Holding(t)
    BY <1>0 DEF Core, CallsOK
  <2> QED
    BY <1>1, <1>2, <1>4, <1>5, <1>6, <1>7, <2>1 DEF Holding, Stored
<1>17. CallsOK'
  BY <1>0, <1>4, <1>7, <1>14, <1>15, <1>16, KeepsCalls DEF Core
<1>18. th[t].for = "second" => InL1(k)' \/ k \in forgotten'
  BY <1>0, <1>1, <1>2, <1>4, <1>10 DEF Core, Locked, SeenCached
<1>19. Locked'
  BY <1>0, <1>1, <1>2, <1>4, <1>5, <1>6, <1>7, <1>10, <1>13, <1>17, <1>18, KeepsLocks DEF Core
<1> QED
  BY <1>9, <1>11, <1>12, <1>17, <1>19, Silent DEF IInv, Core, Locked

\* The lock of the map, or a new one when nobody can have one for a key that is missing.
LEMMA FindLockKeeps ==
  ASSUME IInv, NEW t \in Threads, FindLock(t), reply' = <<>>
  PROVE  IInv'
<1>0. Core
  BY DEF IInv, Core, Locked
<1>1. /\ th[t].pc = "lock" /\ th[t].key \in Keys /\ th[t] \in Works /\ th[t].for = "first"
      /\ th[t].lock = 0
  BY <1>0, Places DEF FindLock
<1>2. PICK k \in Keys : k = th[t].key
  BY <1>1
<1> DEFINE n == IF locks[k] # 0 THEN locks[k] ELSE FreshLock
           r == [th[t] EXCEPT !.pc = "acquire", !.lock = n]
<1>3. /\ locks' = [locks EXCEPT ![k] = n] /\ th' = [th EXCEPT ![t] = r]
      /\ UNCHANGED <<l1, l2, file, forgotten>>
  <2>1. /\ locks' = [locks EXCEPT ![k] = n] /\ UNCHANGED <<l1, l2, file, forgotten>>
        /\ th' = [th EXCEPT ![t].pc = "acquire", ![t].lock = n]
    BY <1>2, Zenon DEF FindLock
  <2> HIDE DEF n
  <2> QED
    BY <1>0, <2>1 DEF Core, TypeOK
<1>4. n \in Nat \ {0} /\ locks \in [Keys -> Nat] /\ (locks[k] # 0 => n = locks[k])
  <2>1. TypeOK /\ locks \in [Keys -> Nat]
    BY <1>0 DEF Core, TypeOK
  <2>2. CASE locks[k] = 0
    BY <2>1, <2>2, FreshLockFree
  <2>3. CASE locks[k] # 0
    BY <2>1, <2>3
  <2> QED
    BY <2>2, <2>3
<1> HIDE DEF n
<1>5. /\ r \in Works /\ r.pc = "acquire" /\ r.for = "first" /\ r.key = k /\ r.lock = n
  BY <1>1, <1>2, <1>4 DEF Works, Stages
<1> HIDE DEF r
<1>6. /\ th'[t] = r /\ Goes(t, r) /\ \A s \in Threads : s # t => th'[s] = th[s]
  BY <1>0, <1>3, <1>5 DEF Core, TypeOK, Goes
<1>7. Undisturbed
  BY <1>0, <1>3, LeftAlone DEF Core
<1>8. TypeOK'
  BY <1>0, <1>3, <1>4, <1>6 DEF Core, TypeOK, Goes
<1>9. CachesTrue' /\ MarkersForgotten'
  BY <1>0, <1>5, <1>6, <1>7, KeepsCaches, KeepsMarkers DEF Core
<1>10. Course(t)' /\ Planned(t)' /\ Holding(t)'
  BY <1>4, <1>5, <1>6 DEF Course, Planned, Holding
<1>11. CallsOK'
  BY <1>0, <1>3, <1>6, <1>10, KeepsCalls DEF Core
<1>12. \A j \in Keys : InL1(j)' <=> InL1(j)
  BY <1>3 DEF InL1
<1>13. Exclusion'
  BY <1>0, <1>5, <1>6 DEF Core, Locked, Exclusion, Holds
<1>14. SharedLock'
  <2> SUFFICES ASSUME NEW j \in Keys \ forgotten', ~InL1(j)', NEW s \in Threads,
                      th'[s].key = j, th'[s].lock # 0
               PROVE  th'[s].lock = locks'[j]
    BY DEF SharedLock
  <2>1. CASE s = t
    BY <1>3, <1>4, <1>5, <1>6, <2>1
  <2>2. CASE s # t
    <3>1. th[s].lock = locks[j] /\ locks[j] # 0
      BY <1>0, <1>3, <1>6, <1>12, <2>2 DEF Core, Locked, SharedLock
    <3> QED
      BY <1>3, <1>4, <1>6, <2>2, <3>1
  <2> QED
    BY <2>1, <2>2
<1>15. SeenCached'
  BY <1>0, <1>3, <1>5, <1>6 DEF Core, Locked, SeenCached, InL1
<1>16. OneMisses'
  BY <1>0, <1>3, <1>5, <1>6 DEF Core, Locked, OneMisses, Misses
<1> QED
  BY <1>8, <1>9, <1>11, <1>13, <1>14, <1>15, <1>16, Silent DEF IInv

\* The lock goes from the map when its key is cached or forgotten.
LEMMA EraseLockKeeps ==
  ASSUME IInv, NEW t \in Threads, EraseLock(t), reply' = <<>>
  PROVE  IInv'
<1>0. Core
  BY DEF IInv, Core, Locked
<1>1. /\ th[t].pc = "erase" /\ th[t].key \in Keys /\ th[t].for = "second" /\ Holds(t)
  BY <1>0, Places DEF EraseLock
<1>2. PICK k \in Keys : k = th[t].key
  BY <1>1
<1>3. InL1(k) \/ k \in forgotten
  BY <1>0, <1>1, <1>2 DEF Core, Locked, SeenCached
<1> DEFINE r == [th[t] EXCEPT !.pc = "unlock"]
<1>4. /\ locks' = [locks EXCEPT ![k] = 0] /\ th' = [th EXCEPT ![t] = r]
      /\ UNCHANGED <<l1, l2, file, forgotten>>
  BY <1>2 DEF EraseLock, Goto
<1>5. /\ r \in Works /\ r.pc = "unlock" /\ r.for = "second" /\ r.key = k /\ r.lock = th[t].lock
  BY <1>0, <1>1, <1>2, Moved DEF Stages
<1> HIDE DEF r
<1>6. /\ th'[t] = r /\ Goes(t, r) /\ \A s \in Threads : s # t => th'[s] = th[s]
  BY <1>0, <1>4, <1>5 DEF Core, TypeOK, Goes
<1>7. Undisturbed
  BY <1>0, <1>4, LeftAlone DEF Core
<1>8. TypeOK'
  BY <1>0, <1>4, <1>6 DEF Core, TypeOK, Goes
<1>9. CachesTrue' /\ MarkersForgotten'
  BY <1>0, <1>5, <1>6, <1>7, KeepsCaches, KeepsMarkers DEF Core
<1>10. Course(t)' /\ Planned(t)' /\ Holding(t)'
  BY <1>1, <1>5, <1>6 DEF Course, Planned, Holding, Holds
<1>11. CallsOK'
  BY <1>0, <1>4, <1>6, <1>10, KeepsCalls DEF Core
<1>12. \A j \in Keys : InL1(j)' <=> InL1(j)
  BY <1>4 DEF InL1
<1>13. Exclusion'
  BY <1>0, <1>1, <1>5, <1>6 DEF Core, Locked, Exclusion, Holds
<1>14. SharedLock'
  <2> SUFFICES ASSUME NEW j \in Keys \ forgotten', ~InL1(j)', NEW s \in Threads,
                      th'[s].key = j, th'[s].lock # 0
               PROVE  th'[s].lock = locks'[j]
    BY DEF SharedLock
  <2>1. j # k /\ locks'[j] = locks[j]
    BY <1>0, <1>3, <1>4, <1>12 DEF Core, TypeOK
  <2>2. s # t
    BY <1>5, <1>6, <2>1
  <2>3. th[s].lock = locks[j]
    BY <1>0, <1>4, <1>6, <1>12, <2>2 DEF Core, Locked, SharedLock
  <2> QED
    BY <1>6, <2>1, <2>2, <2>3
<1>15. SeenCached'
  BY <1>0, <1>3, <1>4, <1>5, <1>6 DEF Core, Locked, SeenCached, InL1
<1>16. OneMisses'
  BY <1>0, <1>4, <1>5, <1>6 DEF Core, Locked, OneMisses, Misses
<1> QED
  BY <1>8, <1>9, <1>11, <1>13, <1>14, <1>15, <1>16, Silent DEF IInv

-----------------------------------------------------------------------------
(* The file, and the theorems.                                               *)

\* The file changes: what was stored stays a version that there was.
LEMMA ReplaceFileKeeps ==
  ASSUME IInv, NEW k \in Keys, ReplaceFile(k)
  PROVE  IInv'
<1>0. Core
  BY DEF IInv, Core, Locked
<1>1. PICK v \in Versions : v > file[k] /\ file' = [file EXCEPT ![k] = v]
  BY DEF ReplaceFile
<1>2. UNCHANGED <<l1, l2, locks, th, forgotten>> /\ reply' = <<>>
  BY DEF ReplaceFile, cacheVars
<1>3. /\ file \in [Keys -> Versions] /\ file' \in [Keys -> Versions]
      /\ \A j \in Keys : file[j] \in Nat /\ file'[j] \in Nat /\ file[j] <= file'[j]
  BY <1>0, <1>1, StatAssumption DEF Core, TypeOK, Versions
<1>4. TypeOK'
  BY <1>0, <1>2, <1>3 DEF Core, TypeOK
<1>5. \A w \in Versions : w \in Nat
  BY StatAssumption DEF Versions
<1>6. ASSUME NEW e, NEW j \in Keys, Stored(e, j) PROVE Stored(e, j)'
  <2>1. PICK u \in Versions, w \in Versions : w <= u /\ u <= file[j] /\ e = Entry(u, w)
    BY <1>6 DEF Stored
  <2>2. u <= file'[j]
    BY <1>3, <1>5, <2>1
  <2> QED
    BY <2>1, <2>2 DEF Stored
<1>7. CachesTrue'
  <2>1. \A j \in Keys : /\ InL1(j) => ValueL1(j) = NullEntry \/ Stored(ValueL1(j), j)
                        /\ l2[j] \in {Absent, Mark} \/ Stored(l2[j], j)
    BY <1>0 DEF Core, CachesTrue
  <2>2. \A j \in Keys : /\ (InL1(j)' <=> InL1(j)) /\ ValueL1(j)' = ValueL1(j) /\ l2'[j] = l2[j]
    BY <1>2 DEF InL1, ValueL1
  <2> QED
    BY <1>6, <2>1, <2>2 DEF CachesTrue, Stored
<1>8. MarkersForgotten' /\ Locked'
  BY <1>0, <1>2 DEF Core, MarkersForgotten, Locked, InL1, ValueL1, Exclusion, SharedLock,
                    SeenCached, OneMisses, Misses, Holds
<1>9. CallsOK'
  <2> SUFFICES ASSUME NEW t \in Threads PROVE Course(t)' /\ Planned(t)' /\ Holding(t)'
    BY DEF CallsOK
  <2>1. Course(t) /\ Planned(t) /\ Holding(t) /\ th[t] \in Works /\ th' = th
    BY <1>0, <1>2 DEF Core, CallsOK, TypeOK
  <2>2. Course(t)'
    BY <2>1 DEF Course
  <2>3. Planned(t)'
    <3>1. CASE th[t].for # "serve"
      BY <2>1, <3>1 DEF Planned
    <3>2. CASE th[t].for = "serve"
      <4>1. th[t].key \in Keys /\ th[t].seen \in Versions /\ th[t].seen <= file[th[t].key]
        BY <1>0, <3>2, Serving
      <4>2. th[t].seen <= file'[th[t].key]
        BY <1>3, <1>5, <4>1
      <4> QED
        BY <2>1, <3>2, <4>2 DEF Planned
    <3> QED
      BY <3>1, <3>2
  <2>4. Holding(t)'
    <3>1. CASE th[t].pc \notin {"fill", "put", "setex", "body"}
      BY <2>1, <3>1 DEF Holding
    <3>2. CASE th[t].pc \in {"fill", "put", "setex", "body"}
      <4>1. th[t].key \in Keys
        BY <1>0, <3>2, Places
      <4>2. PICK j \in Keys, e \in Entries : j = th[t].key /\ e = th[t].entry
        BY <2>1, <4>1 DEF Works
      <4>3. Stored(e, j) => Stored(e, j)'
        BY <1>6
      <4>4. \A w \in Versions : w <= file[j] => w <= file'[j]
        BY <1>3, <1>5
      <4> QED
        BY <2>1, <4>2, <4>3, <4>4 DEF Holding, Stored
    <3> QED
      BY <3>1, <3>2
  <2> QED
    BY <2>2, <2>3, <2>4
<1> QED
  BY <1>2, <1>4, <1>7, <1>8, <1>9, Silent DEF IInv, Locked

\* At the start the caches are empty and all threads idle.
LEMMA InitIInv == Init => IInv
<1> SUFFICES ASSUME Init PROVE IInv
  OBVIOUS
<1>1. /\ l1 = [s \in Range(Slice) |-> Empty] /\ l2 = [k \in Keys |-> Absent]
      /\ locks = [k \in Keys |-> 0] /\ th = [t \in Threads |-> Idle] /\ forgotten = {}
      /\ file = Start /\ reply = <<>>
  BY DEF Init, CacheInit
<1>2. IsCache(Empty) /\ Cached(Empty) = {}
  BY DEF IsCache, Cached, Empty
<1>3. \A k \in Keys : ~InL1(k)
  <2>1. \A k \in Keys : Slice[k] \in Range(Slice)
    BY SliceAssumption DEF Range
  <2> QED
    BY <1>1, <1>2, <2>1 DEF InL1
<1>4. TypeOK
  <2>1. Absent \in Entries
    BY DEF Absent, NullEntry, Entries
  <2> QED
    BY <1>1, <1>2, <2>1, IdleWorks, StartAssumption DEF TypeOK
<1>5. CachesTrue /\ MarkersForgotten
  BY <1>1, <1>3, IdleWorks DEF CachesTrue, MarkersForgotten
<1>6. CallsOK
  BY <1>1, IdleWorks DEF CallsOK, Course, Planned, Holding
<1>7. Exclusion /\ SharedLock /\ SeenCached /\ OneMisses
  BY <1>1, IdleWorks DEF Exclusion, SharedLock, SeenCached, OneMisses, Misses, Holds
<1>8. BodyNotOlder /\ AnswersExact
  BY <1>1 DEF BodyNotOlder, AnswersExact, Sent
<1> QED
  BY <1>4, <1>5, <1>6, <1>7, <1>8 DEF IInv

\* A step that changes nothing.
LEMMA StutterKeeps ==
  ASSUME IInv, UNCHANGED allVars
  PROVE  IInv'
<1>1. /\ l1' = l1 /\ l2' = l2 /\ locks' = locks /\ th' = th /\ file' = file
      /\ forgotten' = forgotten /\ reply' = reply
  BY DEF allVars, vars
<1>2. TypeOK' /\ CachesTrue' /\ MarkersForgotten'
  BY <1>1 DEF IInv, TypeOK, CachesTrue, MarkersForgotten, Stored, InL1, ValueL1
<1>3. CallsOK'
  <2> SUFFICES ASSUME NEW t \in Threads PROVE Course(t)' /\ Planned(t)' /\ Holding(t)'
    BY DEF CallsOK
  <2>1. Course(t) /\ Planned(t) /\ Holding(t)
    BY DEF IInv, CallsOK
  <2>2. Course(t)'
    BY <1>1, <2>1 DEF Course
  <2>3. Planned(t)' /\ Holding(t)'
    BY <1>1, <2>1 DEF Planned, Holding, Stored
  <2> QED
    BY <2>2, <2>3
<1>4. Exclusion' /\ SharedLock' /\ SeenCached' /\ OneMisses'
  BY <1>1 DEF IInv, Exclusion, SharedLock, SeenCached, OneMisses, Misses, Holds, InL1
<1>5. BodyNotOlder'
  BY <1>1 DEF IInv, BodyNotOlder, Sent, SameSecond
<1>6. AnswersExact'
  BY <1>1 DEF IInv, AnswersExact, Sent, SameStamp, SameSecond, Wanted
<1> QED
  BY <1>2, <1>3, <1>4, <1>5, <1>6 DEF IInv

\* The invariant is inductive, for every size of the constants.
THEOREM Invariance == Spec => []IInv
<1>1. IInv /\ [Next]_allVars => IInv'
  <2> SUFFICES ASSUME IInv, [Next]_allVars PROVE IInv'
    OBVIOUS
  <2>1. ASSUME NEW t \in Threads, NEW k \in Keys, getOrLoad(t, k), reply' = <<>> PROVE IInv'
    BY <2>1, getOrLoadKeeps
  <2>2. ASSUME NEW t \in Threads, NEW q \in Requests, handleAsync(t, q) PROVE IInv'
    BY <2>2, handleAsyncKeeps
  <2>3. ASSUME NEW t \in Threads, CacheStep(t), reply' = <<>> PROVE IInv'
    BY <2>3, GetL1Keeps, GetL2Keeps, FillL1Keeps, PutL1Keeps, PutL2Keeps, FindLockKeeps,
       AcquireKeeps, LoadKeeps, EraseLockKeeps, UnlockKeeps DEF CacheStep
  <2>4. ASSUME NEW t \in Threads, ServeStep(t) PROVE IInv'
    BY <2>4, NoFileKeeps, prepareInRootKeeps, ReadFileKeeps, SetBodyKeeps, SendFileKeeps
       DEF ServeStep
  <2>5. ASSUME NEW k \in Keys, ReplaceFile(k) PROVE IInv'
    BY <2>5, ReplaceFileKeeps
  <2>6. CASE UNCHANGED allVars
    BY <2>6, StutterKeeps
  <2> QED
    BY <2>1, <2>2, <2>3, <2>4, <2>5, <2>6 DEF Next
<1> QED
  BY <1>1, InitIInv, PTL DEF Spec

\* TwoLevelCache::getOrLoad: two threads load one key at the same time only if its
\* entry was evicted, was not taken or was a marker, although the lock of a key is
\* erased from rebuildLocks_ while others still wait for it.
THEOREM OneLoaderOnly == Spec => []OneLoader
<1>1. IInv => OneLoader
  <2> SUFFICES ASSUME IInv, NEW s \in Threads, NEW t \in Threads, s # t,
                      th[s].pc = "load", th[t].pc = "load", th[s].key = th[t].key
               PROVE  th[s].key \in forgotten
    BY DEF OneLoader
  <2>1. Core /\ OneMisses
    BY DEF IInv, Core, Locked
  <2>2. th[s].for = "second" /\ th[t].for = "second" /\ th[s].key \in Keys
    BY <2>1, Places
  <2> QED
    BY <2>1, <2>2 DEF OneMisses, Misses
<1> QED
  BY <1>1, Invariance, PTL

\* StaticFileHandler: no body is older than the file was when its request was
\* planned, but for a version of the same second.
THEOREM BodiesNotOlder == Spec => []BodyNotOlder
<1>1. IInv => BodyNotOlder
  BY DEF IInv
<1> QED
  BY <1>1, Invariance, PTL

\* StaticFileHandler: responses are as long as they say, parts are what the range
\* asked for, 416 is for ranges outside of the file, and a request is left without an
\* answer only if the file was changed.
THEOREM AnswersAreExact == Spec => []AnswersExact
<1>1. IInv => AnswersExact
  BY DEF IInv
<1> QED
  BY <1>1, Invariance, PTL
=============================================================================
