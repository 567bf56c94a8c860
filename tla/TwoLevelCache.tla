----------------------------- MODULE TwoLevelCache -----------------------------
(***************************************************************************)
(* TwoLevelCache: an LFU cache in the process (L1, KHashLfuCache) before a   *)
(* cache in Redis (L2), and getOrLoad, which lets one thread at a time        *)
(* rebuild an entry.  Threads run get, put and getOrLoad concurrently; one     *)
(* operation on L1 holds its mutex_ and is a step, and so is one Redis         *)
(* command.                                                                    *)
(*                                                                         *)
(* A file has versions.  An entry is the version of its content, with the      *)
(* modification time and size it is filed under; a race can make these belong  *)
(* to different versions.                                                      *)
(***************************************************************************)
EXTENDS LFU

CONSTANTS
    Threads,    \* the threads that use the cache
    Keys,       \* the cache keys: paths of files
    Slice,      \* the slice of L1 each key hashes to
    Stat,       \* what stat() says of each version: exists, ino, mtime, size
    MaxCalls    \* bound: calls made by the threads

ASSUME CacheSizes == Capacity \in Nat /\ MaxAverage \in Nat
ASSUME CacheFinite == IsFiniteSet(Threads) /\ IsFiniteSet(Keys)
ASSUME SliceAssumption == Slice \in [Keys -> Range(Slice)]
ASSUME StatAssumption ==
    \A v \in DOMAIN Stat :
        /\ v \in Nat \ {0} /\ Stat[v].mtime \in Int /\ Stat[v].size \in Nat
        /\ ~Stat[v].exists => Stat[v].size = 0

VARIABLES
    l1,         \* l1Cache_: an LFU cache for each slice
    l2,         \* what Redis has under "cache:" and the key
    locks,      \* rebuildLocks_: the lock of each key, or 0
    th,         \* what each thread is doing
    calls,      \* the number of calls so far
    file,       \* the version of each file
    forgotten   \* history: keys whose entry was evicted, was not taken or was a marker

cacheVars == <<l1, l2, locks>>
vars == <<l1, l2, locks, th, calls, file, forgotten>>

Versions == DOMAIN Stat

\* Content of version v, filed under the time and size of version w; the empty
\* entry that marks a file that does not exist; and what Redis has for it, or if
\* it has nothing.
Entry(v, w) == [ver |-> v, mtime |-> Stat[w].mtime, size |-> Stat[w].size]
NullEntry == [ver |-> 0, mtime |-> 0, size |-> 0]
Mark == [NullEntry EXCEPT !.ver = -1]
Absent == [NullEntry EXCEPT !.ver = -2]
Content(e) == IF e.ver = 0 THEN 0 ELSE Stat[e.ver].size     \* length of entry.content

\* A thread outside of any call.
Idle == [pc |-> "idle", for |-> "", key |-> "", req |-> <<>>, plan |-> <<>>,
         seen |-> 0, entry |-> NullEntry, lock |-> 0]

CacheInit ==
    /\ l1 = [s \in Range(Slice) |-> Empty]
    /\ l2 = [k \in Keys |-> Absent]
    /\ locks = [k \in Keys |-> 0]
    /\ th = [t \in Threads |-> Idle]
    /\ calls = 0
    /\ forgotten = {}

Goto(t, where) == th' = [th EXCEPT ![t].pc = where]
L1(t) == l1[Slice[th[t].key]]
SetL1(t, c) == l1' = [l1 EXCEPT ![Slice[th[t].key]] = c]

\* The keys that L1 does not have after a put of k, although it had them or was
\* given them.
Lost(old, new, k) == (Cached(old) \cup {k}) \ Cached(new)

-----------------------------------------------------------------------------
(* get: what follows depends on the caller, th[t].for.                       *)

\* Mutant: the handler uses an entry without a look at its time and size.
Hit_AnyStamp(t, e) ==
    th' = [th EXCEPT ![t] =
        CASE th[t].for = "serve" -> [@ EXCEPT !.pc = "body", !.entry = e]
          [] th[t].for = "first" -> Idle
          [] th[t].for = "second" -> [@ EXCEPT !.pc = "erase"]]

\* StaticFileHandler uses an entry only if it has the time and size of the
\* file; getOrLoad returns any; the double check has a lock to give up.
Hit(t, e) ==
    LET fits == e.mtime = th[t].plan.mtime /\ e.size = th[t].plan.fileSize IN
    th' = [th EXCEPT ![t] =
        CASE th[t].for = "serve" -> [@ EXCEPT !.pc = IF fits THEN "body" ELSE "read",
                                              !.entry = e]
          [] th[t].for = "first" -> Idle
          [] th[t].for = "second" -> [@ EXCEPT !.pc = "erase"]]

AfterMiss(t) ==
    CASE th[t].for = "serve" -> "read" [] th[t].for = "first" -> "lock" [] OTHER -> "load"

\* An empty content of size 0 is the marker of a file that does not exist.
GetL1(t) ==
    /\ th[t].pc = "get"
    /\ IF th[t].key \in Cached(L1(t))
       THEN LET e == L1(t).value[th[t].key] IN
            /\ \E c \in lfuGet(L1(t), th[t].key) : SetL1(t, c)
            /\ IF e.size = 0 /\ Content(e) = 0 THEN Goto(t, AfterMiss(t)) ELSE Hit(t, e)
       ELSE Goto(t, "redis") /\ UNCHANGED l1
    /\ UNCHANGED <<l2, locks, calls, file, forgotten>>

\* GET: a miss, a key that has expired, a marker and every failure are the same
\* to the caller.
GetL2(t) ==
    /\ th[t].pc = "redis"
    /\ \/ Goto(t, AfterMiss(t))
       \/ /\ l2[th[t].key] \notin {Absent, Mark}
          /\ th' = [th EXCEPT ![t].pc = "fill", ![t].entry = l2[th[t].key]]
    /\ UNCHANGED <<cacheVars, calls, file, forgotten>>

\* The entry from Redis goes into L1.
FillL1(t) ==
    /\ th[t].pc = "fill"
    /\ \E c \in lfuPut(L1(t), th[t].key, th[t].entry) :
         SetL1(t, c) /\ forgotten' = forgotten \cup Lost(L1(t), c, th[t].key)
    /\ Hit(t, th[t].entry)
    /\ UNCHANGED <<l2, locks, calls, file>>

-----------------------------------------------------------------------------
(* put and markNonexistent: L1 first, then Redis, whose failure is ignored.   *)

PutL1(t) ==
    /\ th[t].pc = "put"
    /\ \E c \in lfuPut(L1(t), th[t].key, th[t].entry) :
         /\ SetL1(t, c)
         /\ forgotten' = forgotten \cup Lost(L1(t), c, th[t].key)
                         \cup (IF th[t].entry.size = 0 THEN {th[t].key} ELSE {})
    /\ Goto(t, "setex")
    /\ UNCHANGED <<l2, locks, calls, file>>

PutL2(t) ==
    /\ th[t].pc = "setex"
    /\ \/ UNCHANGED l2
       \/ l2' = [l2 EXCEPT ![th[t].key] =
                    IF th[t].entry = NullEntry THEN Mark ELSE th[t].entry]
    /\ Goto(t, IF th[t].for = "serve" THEN "body" ELSE "erase")
    /\ UNCHANGED <<l1, locks, calls, file, forgotten>>

-----------------------------------------------------------------------------
(* getOrLoad                                                                 *)

getOrLoad(t, k) ==
    /\ th[t].pc = "idle"
    /\ calls < MaxCalls
    /\ calls' = calls + 1
    /\ th' = [th EXCEPT ![t] = [Idle EXCEPT !.pc = "get", !.for = "first", !.key = k]]
    /\ UNCHANGED <<cacheVars, file, forgotten>>

\* A mutex nobody refers to.
FreshLock == CHOOSE n \in 1..(Cardinality(Keys) + Cardinality(Threads)) :
    n \notin Range(locks) \cup {th[t].lock : t \in Threads}

\* Under rebuildMutex_: the lock of the key, made if there is none.
FindLock(t) ==
    LET k == th[t].key
        n == IF locks[k] # 0 THEN locks[k] ELSE FreshLock
    IN
    /\ th[t].pc = "lock"
    /\ locks' = [locks EXCEPT ![k] = n]
    /\ th' = [th EXCEPT ![t].pc = "acquire", ![t].lock = n]
    /\ UNCHANGED <<l1, l2, calls, file, forgotten>>

\* From here to the end of the call the thread holds *keyLock.
Holds(t) == th[t].lock # 0 /\ th[t].pc # "acquire"

\* Mutant: no double check.
Acquire_NoCheck(t) ==
    /\ th[t].pc = "acquire"
    /\ \A s \in Threads : Holds(s) => th[s].lock # th[t].lock
    /\ th' = [th EXCEPT ![t].pc = "load", ![t].for = "second"]
    /\ UNCHANGED <<cacheVars, calls, file, forgotten>>

Acquire(t) ==
    /\ th[t].pc = "acquire"
    /\ \A s \in Threads : Holds(s) => th[s].lock # th[t].lock
    /\ th' = [th EXCEPT ![t].pc = "get", ![t].for = "second"]
    /\ UNCHANGED <<cacheVars, calls, file, forgotten>>

\* loadFunc reads the file, or says that there is none.
Load(t) ==
    LET v == file[th[t].key] IN
    /\ th[t].pc = "load"
    /\ th' = [th EXCEPT ![t].pc = "put",
                        ![t].entry = IF Stat[v].exists THEN Entry(v, v) ELSE NullEntry]
    /\ UNCHANGED <<cacheVars, calls, file, forgotten>>

\* rebuildLocks_.erase(key), whichever lock is there by now.
EraseLock(t) ==
    /\ th[t].pc = "erase"
    /\ locks' = [locks EXCEPT ![th[t].key] = 0]
    /\ Goto(t, "unlock")
    /\ UNCHANGED <<l1, l2, calls, file, forgotten>>

\* The lock_guard of *keyLock goes out of scope.
Unlock(t) ==
    /\ th[t].pc = "unlock"
    /\ th' = [th EXCEPT ![t] = Idle]
    /\ UNCHANGED <<cacheVars, calls, file, forgotten>>

CacheStep(t) ==
    \/ GetL1(t) \/ GetL2(t) \/ FillL1(t) \/ PutL1(t) \/ PutL2(t)
    \/ FindLock(t) \/ Acquire(t) \/ Load(t) \/ EraseLock(t) \/ Unlock(t)

-----------------------------------------------------------------------------
(* Properties.                                                               *)

\* LFU.h: the slices of L1 are consistent, whatever accesses, evictions and
\* agings they went through.
LfuConsistent == \A s \in DOMAIN l1 : Consistent(l1[s])

\* TwoLevelCache.h lets one request load a key.  The lock is erased from the map
\* while others still wait for it, so that two locks of one key can be held at
\* once; even so, two threads load one key at the same time only if its entry
\* was evicted from L1, or if there was nothing to store but a marker.
OneLoader ==
    \A s, t \in Threads :
        s # t /\ th[s].pc = "load" /\ th[t].pc = "load" /\ th[s].key = th[t].key
            => th[s].key \in forgotten
=============================================================================
