---------------------------------- MODULE LFU ----------------------------------
(***************************************************************************)
(* KLfuCache, the least-frequently-used cache with aging that is a slice of  *)
(* KHashLfuCache, as operations on a record c.  Each public operation of the *)
(* class holds mutex_, and so is one step of the module that uses it.         *)
(*                                                                         *)
(* nodeMap_ is the pair of functions value and freq over the cached keys;     *)
(* lists is freqToFreqList_, the keys of a frequency in the order of their     *)
(* arrival.  Aging walks nodeMap_, an unordered_map, so that the order of the  *)
(* keys it puts back is arbitrary: put and get give the set of their outcomes. *)
(***************************************************************************)
EXTENDS Integers, FiniteSets, Sequences, SequencesExt, Functions

CONSTANTS
    Capacity,       \* capacity_ of a slice
    MaxAverage      \* maxAverageNum_

INT8_MAX == 127

Cached(c) == DOMAIN c.freq
Without(f, k) == Restrict(f, DOMAIN f \ {k})
With(f, k, v) == [x \in DOMAIN f \cup {k} |-> IF x = k THEN v ELSE f[x]]

\* A frequency that has no list yet has an empty one.
List(c, n) == IF n \in DOMAIN c.lists THEN c.lists[n] ELSE <<>>

Empty == [value |-> <<>>, freq |-> <<>>, lists |-> <<>>,
          minFreq |-> INT8_MAX, total |-> 0]

removeFromFreqList(c, k) ==
    [c EXCEPT !.lists = With(@, c.freq[k], Remove(List(c, c.freq[k]), k))]

addToFreqList(c, k) ==
    [c EXCEPT !.lists = With(@, c.freq[k], Append(List(c, c.freq[k]), k))]

\* The least frequency whose list is not empty.
updateMinFreq(c) ==
    LET used == {n \in DOMAIN c.lists : c.lists[n] # <<>> /\ n < INT8_MAX} IN
    [c EXCEPT !.minFreq = IF used = {} THEN 1 ELSE CHOOSE n \in used : \A m \in used : n <= m]

\* The lists of the given frequencies, filled in the order of a walk through the keys.
Filed(walk, freq, levels) == [n \in levels |-> SelectSeq(walk, LAMBDA k : freq[k] = n)]

\* handleOverMaxAverageNum: every key moves to the end of the list of its lower
\* frequency, in the order in which the hash table is walked.
Aged(c) ==
    LET lower(n) == IF n - MaxAverage \div 2 < 1 THEN 1 ELSE n - MaxAverage \div 2
        freq == [k \in Cached(c) |-> lower(c.freq[k])]
        levels == DOMAIN c.lists \cup {freq[k] : k \in Cached(c)}
    IN  {updateMinFreq([c EXCEPT !.freq = freq, !.lists = Filed(walk, freq, levels)]) :
            walk \in SetToSeqs(Cached(c))}

\* curTotalNum_ grows with every access, and aging does not lower it.
addFreqNum(c) ==
    LET d == [c EXCEPT !.total = @ + 1]
    IN  IF Cached(d) # {} /\ d.total \div Cardinality(Cached(d)) > MaxAverage
        THEN Aged(d) ELSE {d}

\* Mutant: minFreq_ does not follow the last key of its list.
getInternal_KeepsMin(c, k) ==
    LET d == [removeFromFreqList(c, k) EXCEPT !.freq[k] = @ + 1]
    IN  addFreqNum(addToFreqList(d, k))

\* The key moves to the list of the next frequency.
getInternal(c, k) ==
    LET d == [removeFromFreqList(c, k) EXCEPT !.freq[k] = @ + 1]
        e == addToFreqList(d, k)
        f == IF e.freq[k] - 1 = e.minFreq /\ List(e, e.freq[k] - 1) = <<>>
             THEN [e EXCEPT !.minFreq = @ + 1] ELSE e
    IN  addFreqNum(f)

\* The oldest key of the list of minFreq_ goes.  Were that list empty, its first
\* node would be the sentinel, which is in no list and has no key, and the
\* cache would grow.
kickOut(c) ==
    LET l == List(c, c.minFreq) IN
    IF l = <<>> THEN [c EXCEPT !.total = @ - 1]
    ELSE LET k == Head(l)
             d == removeFromFreqList(c, k)
         IN  [d EXCEPT !.value = Without(@, k), !.freq = Without(@, k),
                       !.total = @ - c.freq[k]]

putInternal(c, k, v) ==
    LET d == IF Cardinality(Cached(c)) = Capacity THEN kickOut(c) ELSE c
        e == addToFreqList([d EXCEPT !.value = With(@, k, v), !.freq = With(@, k, 1)], k)
    IN  {[f EXCEPT !.minFreq = IF @ < 1 THEN @ ELSE 1] : f \in addFreqNum(e)}

-----------------------------------------------------------------------------
(* The public operations: the caches a call may leave behind.                *)

lfuPut(c, k, v) ==
    IF Capacity = 0 THEN {c}
    ELSE IF k \in Cached(c) THEN getInternal([c EXCEPT !.value[k] = v], k)
    ELSE putInternal(c, k, v)

lfuGet(c, k) == IF k \in Cached(c) THEN getInternal(c, k) ELSE {c}

-----------------------------------------------------------------------------
\* The bookkeeping agrees with itself: a key is in the list of its frequency,
\* once, and in no other; minFreq_ is the least frequency there is, so that
\* the victim is a key that was used least; the cache keeps to its capacity; and
\* the count of accesses is no less than the frequencies it stands for.
Consistent(c) ==
    /\ DOMAIN c.value = Cached(c)
    /\ Cardinality(Cached(c)) <= Capacity
    /\ \A n \in DOMAIN c.lists :
         /\ IsInjective(c.lists[n])
         /\ ToSet(c.lists[n]) = {k \in Cached(c) : c.freq[k] = n}
    /\ \A k \in Cached(c) : c.freq[k] \in DOMAIN c.lists
    /\ Cached(c) # {} =>
         /\ \E k \in Cached(c) : c.freq[k] = c.minFreq
         /\ \A k \in Cached(c) : c.freq[k] >= c.minFreq
    /\ c.total >= SumFunction(c.freq)

\* A cache has these fields, and nodeMap_ is one map.
IsCache(c) ==
    /\ c = [value |-> c.value, freq |-> c.freq, lists |-> c.lists,
            minFreq |-> c.minFreq, total |-> c.total]
    /\ DOMAIN c.value = Cached(c)
=============================================================================
