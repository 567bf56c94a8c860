------------------------------ MODULE StaticFiles ------------------------------
(***************************************************************************)
(* StaticFileHandler: a worker of the file pool plans a response from stat()  *)
(* (prepareInRoot) and then fills it (populateResponse), from a cache, from    *)
(* the file, or with a range that the I/O loop sends with sendfile.  The file  *)
(* can be replaced or deleted between any two of these steps.  main gives the   *)
(* handler no cache; with one, it is used through the functions CacheGet and    *)
(* CachePut, here those of TwoLevelCache.                                       *)
(***************************************************************************)
EXTENDS TwoLevelCache

CONSTANTS
    Start,      \* the version of each file at the start
    Threshold,  \* files that are larger are sent with sendfile
    Requests    \* the requests that occur

Paths == Keys \cup {"bad", "outside"}   \* urls that are refused, or that lead to no file

\* No version has an earlier time than the one it replaces.
ASSUME TimeGoesForward == \A v, w \in Versions : v <= w => Stat[v].mtime <= Stat[w].mtime
ASSUME StartAssumption == Start \in [Keys -> Versions]
ASSUME RequestsAssumption == \A q \in Requests :
    /\ q.path \in Paths /\ q.head \in BOOLEAN /\ q.cached \in BOOLEAN
    /\ q.match \in Versions \cup {0}    \* the version whose ETag If-None-Match names
    /\ q.since \in Int                  \* If-Modified-Since, or -1
    /\ q.range \in {<<>>} \cup ({n \in Int : n >= -1} \X {n \in Int : n >= -1})

VARIABLE reply  \* the response of this step, with its request; or <<>>

allVars == <<vars, reply>>

Init == CacheInit /\ file = Start /\ reply = <<>>

-----------------------------------------------------------------------------
(* Planning.                                                                 *)

\* A range that cannot be satisfied.
Unsatisfiable == [offset |-> 0, count |-> 0]

\* The bytes from the first to the last.
Between(first, last) == [offset |-> first, count |-> last - first + 1]

\* Mutant: the end of a range may lie behind the end of the file.
parseSingleRange_NoClip(first, last, size) ==
    IF size = 0 \/ (first = -1 /\ last <= 0) THEN Unsatisfiable
    ELSE IF first = -1 THEN Between(IF last < size THEN size - last ELSE 0, size - 1)
    ELSE IF first >= size \/ (last # -1 /\ last < first) THEN Unsatisfiable
    ELSE Between(first, IF last # -1 THEN last ELSE size - 1)

\* "bytes=first-last", where -1 is an end that is left out.
parseSingleRange(first, last, size) ==
    IF size = 0 \/ (first = -1 /\ last <= 0) THEN Unsatisfiable
    ELSE IF first = -1 THEN Between(IF last < size THEN size - last ELSE 0, size - 1)
    ELSE IF first >= size \/ (last # -1 /\ last < first) THEN Unsatisfiable
    ELSE Between(first, IF last # -1 /\ last < size THEN last ELSE size - 1)

etag(v) == <<Stat[v].ino, Stat[v].size, Stat[v].mtime>>

NotModified(q, v) ==
    (q.match # 0 /\ etag(q.match) = etag(v)) \/ Stat[v].mtime <= q.since

\* The FilePlan for a regular file of version v.
Plan(q, v) ==
    LET s == Stat[v]
        all == [status |-> 200, mtime |-> s.mtime, fileSize |-> s.size,
                offset |-> 0, count |-> s.size]
        part == parseSingleRange(q.range[1], q.range[2], s.size)
    IN  IF NotModified(q, v) THEN [all EXCEPT !.status = 304]
        ELSE IF q.range = <<>> THEN all
        ELSE IF part = Unsatisfiable THEN [all EXCEPT !.status = 416]
        ELSE [all EXCEPT !.status = 206, !.offset = part.offset, !.count = part.count]

-----------------------------------------------------------------------------
(* A response ends the work on a request.  declared is its Content-Length,   *)
(* and n bytes of version ver follow, from offset on.  The request and the     *)
(* version it was planned for are recorded with it.                           *)

Send(t, q, seen, status, declared, ver, offset, n) ==
    /\ th' = [th EXCEPT ![t] = Idle]
    /\ reply' = [req |-> q, seen |-> seen, status |-> status, declared |-> declared,
                 ver |-> ver, offset |-> offset, n |-> n]

SendStatus(t, q, seen, status) == Send(t, q, seen, status, 0, 0, 0, 0)

\* The status that stands for no response at all.
NoResponse == 0

\* handleAsync: the pool of workers takes the request, or refuses it.
handleAsync(t, q) ==
    /\ th[t].pc = "idle"
    /\ calls < MaxCalls
    /\ calls' = calls + 1
    /\ \/ /\ th' = [th EXCEPT ![t].pc = "stat", ![t].req = q]
          /\ reply' = <<>>
       \/ SendStatus(t, q, 0, 503)
    /\ UNCHANGED <<cacheVars, file, forgotten>>

\* prepareInRoot refuses the path, or there is no such file.
NoFile(t) ==
    LET q == th[t].req IN
    /\ th[t].pc = "stat"
    /\ \/ q.path = "bad" /\ SendStatus(t, q, 0, 400)
       \/ q.path = "outside" /\ SendStatus(t, q, 0, 404)
       \/ q.path \in Keys /\ ~Stat[file[q.path]].exists /\ SendStatus(t, q, 0, 404)
    /\ UNCHANGED <<cacheVars, calls, file, forgotten>>

\* prepareInRoot of a file, and of populateResponse what needs nothing but the
\* plan: 304, 416 and HEAD.
prepareInRoot(t) ==
    LET q == th[t].req
        v == file[q.path]
        p == Plan(q, v)
        Go(where) ==
            /\ th' = [th EXCEPT ![t] = [@ EXCEPT !.pc = where, !.for = "serve",
                                                 !.key = q.path, !.seen = v, !.plan = p]]
            /\ reply' = <<>>
    IN
    /\ th[t].pc = "stat"
    /\ q.path \in Keys
    /\ Stat[v].exists
    /\ IF p.status \in {304, 416} THEN SendStatus(t, q, v, p.status)
       ELSE IF q.head THEN Send(t, q, v, p.status, p.count, v, p.offset, 0)
       ELSE IF p.fileSize > Threshold THEN Go("sendfile")
       ELSE Go(IF q.cached THEN "get" ELSE "read")
    /\ UNCHANGED <<cacheVars, calls, file, forgotten>>

-----------------------------------------------------------------------------
(* Filling the response.                                                     *)

\* The file is opened and read.  The entry gets the time and size of the plan,
\* whatever was read; if the open fails the answer is 404, with the
\* Content-Length of the plan in its header already.
ReadFile(t) ==
    LET v == file[th[t].key] IN
    /\ th[t].pc = "read"
    /\ IF Stat[v].exists
       THEN /\ th' = [th EXCEPT ![t].pc = IF th[t].req.cached THEN "put" ELSE "body",
                                ![t].entry = Entry(v, th[t].seen)]
            /\ reply' = <<>>
       ELSE Send(t, th[t].req, th[t].seen, 404, th[t].plan.count, 0, 0, 0)
    /\ UNCHANGED <<cacheVars, calls, file, forgotten>>

\* The bytes there are of the count bytes from offset on in a content of length n.
Available(offset, count, n) ==
    IF n - offset >= count THEN count ELSE IF n >= offset THEN n - offset ELSE 0

\* content.substr(offset, count): it is cut short if the content is, and throws
\* if the content ends before offset; the worker swallows the exception and
\* nothing is sent.
SetBody(t) ==
    LET p == th[t].plan
        e == th[t].entry
    IN
    /\ th[t].pc = "body"
    /\ IF p.offset > Content(e) THEN SendStatus(t, th[t].req, th[t].seen, NoResponse)
       ELSE Send(t, th[t].req, th[t].seen, p.status, p.count, e.ver, p.offset,
                 Available(p.offset, p.count, Content(e)))
    /\ UNCHANGED <<cacheVars, calls, file, forgotten>>

\* HttpServer::sendResponse opens a large file later, in the I/O loop; the 404
\* of a file that is gone replaces the whole response.
SendFile(t) ==
    LET p == th[t].plan
        v == file[th[t].key]
    IN
    /\ th[t].pc = "sendfile"
    /\ IF Stat[v].exists
       THEN Send(t, th[t].req, th[t].seen, p.status, p.count, v, p.offset,
                 Available(p.offset, p.count, Stat[v].size))
       ELSE SendStatus(t, th[t].req, th[t].seen, 404)
    /\ UNCHANGED <<cacheVars, calls, file, forgotten>>

\* A file is replaced, or deleted, as a whole; time goes forward.
ReplaceFile(k) ==
    /\ \E v \in Versions : v > file[k] /\ file' = [file EXCEPT ![k] = v]
    /\ reply' = <<>>
    /\ UNCHANGED <<cacheVars, th, calls, forgotten>>

-----------------------------------------------------------------------------
ServeStep(t) == NoFile(t) \/ prepareInRoot(t) \/ ReadFile(t) \/ SetBody(t) \/ SendFile(t)

Quiet == calls = MaxCalls /\ \A t \in Threads : th[t].pc = "idle"

Next ==
    \/ \E t \in Threads :
         \/ \E k \in Keys : getOrLoad(t, k) /\ reply' = <<>>
         \/ \E q \in Requests : handleAsync(t, q)
         \/ CacheStep(t) /\ reply' = <<>>
         \/ ServeStep(t)
    \/ \E k \in Keys : ReplaceFile(k)
    \/ (Quiet /\ UNCHANGED allVars)

Spec == Init /\ [][Next]_allVars

-----------------------------------------------------------------------------
(* Properties.                                                               *)

\* The response of this step has one of these statuses.
Sent(statuses) == reply # <<>> /\ reply.status \in statuses

\* The bytes of a file of the given size that a range asks for.
Wanted(range, size) ==
    {i \in 0..(size - 1) :
        \/ range = <<>>
        \/ range # <<>> /\ range[1] = -1 /\ i >= size - range[2]
        \/ range # <<>> /\ range[1] # -1 /\ range[1] <= i /\ (range[2] = -1 \/ i <= range[2])}

SameSecond(v, w) == Stat[v].mtime = Stat[w].mtime
SameStamp(v, w) == SameSecond(v, w) /\ Stat[v].size = Stat[w].size

\* A body is never older than the file was when its request was planned,
\* however late other threads filled the cache that it comes from, except by less
\* than a second: an entry with the content of one version can be filed under the
\* stamp of the version before it, and the version after it may have that stamp
\* again.
BodyNotOlder ==
    Sent({200, 206}) => reply.ver >= reply.seen \/ SameSecond(reply.ver, reply.seen)

\* A response is as long as it says and a part is what the range asked for,
\* unless the file was changed after stat(); only then, or if it was changed in the
\* very second of its time stamp, can a request be left without an answer.  416 is
\* for ranges outside of the file.
AnswersExact ==
    LET bytes == Wanted(reply.req.range, Stat[reply.seen].size) IN
    /\ Sent({200, 206}) /\ SameStamp(reply.ver, reply.seen) =>
          /\ reply.declared = Cardinality(bytes)
          /\ ~reply.req.head => reply.offset..(reply.offset + reply.n - 1) = bytes
          /\ reply.status = 206 => bytes # {}
    /\ Sent({NoResponse}) =>
          \/ file[reply.req.path] # reply.seen
          \/ \E v \in Versions : v < reply.seen /\ SameSecond(v, reply.seen)
    /\ Sent({416}) => bytes = {}

-----------------------------------------------------------------------------
(* The inductive invariant.                                                  *)

Entries == [ver : Int, mtime : Int, size : Int]
Plans == {Plan(q, v) : q \in Requests, v \in Versions}
Stages == {"idle", "stat", "get", "redis", "fill", "read", "put", "setex", "body", "sendfile",
           "lock", "acquire", "load", "erase", "unlock"}
Works == [pc : Stages, for : {"", "serve", "first", "second"}, key : Keys \cup {""},
          req : Requests \cup {<<>>}, plan : Plans \cup {<<>>},
          seen : Versions \cup {0}, entry : Entries, lock : Nat]

TypeOK ==
    /\ DOMAIN l1 = Range(Slice) /\ \A s \in Range(Slice) : IsCache(l1[s])
    /\ l2 \in [Keys -> Entries]
    /\ locks \in [Keys -> Nat]
    /\ th \in [Threads -> Works]
    /\ file \in [Keys -> Versions]

\* What the caches have of a file: the content of a version that there was, under
\* the stamp of that version or of one before it.
Stored(e, k) == \E v, w \in Versions : w <= v /\ v <= file[k] /\ e = Entry(v, w)

\* Is the key in its slice of L1, and with which entry?
InL1(k) == k \in Cached(l1[Slice[k]])
ValueL1(k) == l1[Slice[k]].value[k]

CachesTrue ==
    \A k \in Keys :
        /\ InL1(k) => ValueL1(k) = NullEntry \/ Stored(ValueL1(k), k)
        /\ l2[k] \in {Absent, Mark} \/ Stored(l2[k], k)

\* A key that was stored without content is among the forgotten ones.
MarkersForgotten ==
    \A k \in Keys \ forgotten :
        /\ InL1(k) => ValueL1(k).size # 0
        /\ l2[k] \in {Absent, Mark} \/ l2[k].size # 0
        /\ \A t \in Threads :
             th[t].key = k /\ th[t].pc \in {"fill", "setex"} => th[t].entry.size # 0

\* How far a call has come, by what it is for.
Course(t) ==
    \/ th[t].pc = "idle" /\ th[t] = Idle
    \/ /\ th[t].pc = "stat" /\ th[t].for = "" /\ th[t].lock = 0
       /\ th[t].req \in Requests
    \/ /\ th[t].for = "serve" /\ th[t].key \in Keys /\ th[t].lock = 0
       /\ th[t].pc \in {"get", "redis", "fill", "read", "put", "setex", "body", "sendfile"}
    \/ /\ th[t].for = "first" /\ th[t].key \in Keys
       /\ th[t].pc \in {"get", "redis", "fill", "lock", "acquire"}
       /\ th[t].lock # 0 <=> th[t].pc = "acquire"
    \/ /\ th[t].for = "second" /\ th[t].key \in Keys /\ th[t].lock # 0
       /\ th[t].pc \in {"get", "redis", "fill", "load", "put", "setex", "erase", "unlock"}

\* A request is served by its plan, and the file has not become older since.
Planned(t) ==
    th[t].for = "serve" =>
        /\ th[t].req \in Requests /\ ~th[t].req.head /\ th[t].req.path = th[t].key
        /\ th[t].seen \in Versions /\ th[t].seen <= file[th[t].key]
        /\ th[t].plan = Plan(th[t].req, th[t].seen) /\ th[t].plan.status \in {200, 206}

\* The entry that a call holds: one that was stored, or will be; for a response,
\* one that has the time and size of the plan.
Holding(t) ==
    /\ th[t].pc = "fill" => Stored(th[t].entry, th[t].key)
    /\ th[t].pc \in {"put", "setex"} =>
          th[t].entry = NullEntry \/ Stored(th[t].entry, th[t].key)
    /\ th[t].for = "serve" /\ th[t].pc \in {"put", "setex", "body"} =>
          \E w \in Versions :
             /\ SameStamp(w, th[t].seen)
             /\ th[t].entry = Entry(th[t].entry.ver, w)
             /\ th[t].entry.ver \in Versions
             /\ w <= th[t].entry.ver /\ th[t].entry.ver <= file[th[t].key]

CallsOK == \A t \in Threads : Course(t) /\ Planned(t) /\ Holding(t)

\* One thread at a time has a lock.
Exclusion ==
    \A s, t \in Threads : Holds(s) /\ Holds(t) /\ th[s].lock = th[t].lock => s = t

\* The lock of a key that is neither cached nor forgotten is still in the map, so
\* that all who wait for the key wait for that lock,
SharedLock ==
    \A k \in Keys \ forgotten : ~InL1(k) =>
        \A t \in Threads : th[t].key = k /\ th[t].lock # 0 => th[t].lock = locks[k]

\* because whoever erases it has seen the key in L1.
SeenCached ==
    \A t \in Threads :
        th[t].for = "second" /\ th[t].pc \in {"setex", "erase", "unlock"} =>
            InL1(th[t].key) \/ th[t].key \in forgotten

\* Has the thread, with the lock, found the key missing in L1?
Misses(t, k) == th[t].for = "second" /\ th[t].pc \in {"redis", "load"} /\ th[t].key = k

\* So one thread at a time does.
OneMisses ==
    \A k \in Keys \ forgotten : \A s, t \in Threads : Misses(s, k) /\ Misses(t, k) => s = t

IInv ==
    /\ TypeOK /\ CachesTrue /\ MarkersForgotten /\ CallsOK
    /\ Exclusion /\ SharedLock /\ SeenCached /\ OneMisses
    /\ BodyNotOlder /\ AnswersExact
=============================================================================
