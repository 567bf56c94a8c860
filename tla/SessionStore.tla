---------------------------- MODULE SessionStore ----------------------------
(***************************************************************************)
(* Login sessions of the AR server: the row of the MySQL table `sessions`, *)
(* its snapshot in Redis (SessionCache) and the calls of                   *)
(* ar::CachedSessionStore that read and revoke it.  A call runs as a chain *)
(* of callbacks: a task of the session-cache TaskWorkerPool, then one of   *)
(* the DBWorkerPool, then again one of the cache pool.  Each task is one   *)
(* action, so that the tasks of different calls interleave.                *)
(*                                                                         *)
(* Only the `status` column of a session is kept: 1 is Active, 0 Revoked.  *)
(***************************************************************************)

CONSTANTS
    Tokens,     \* bearer tokens
    Bogus,      \* the tokens a client may present that were never issued
    Calls       \* requests that may be in flight at the same time

ASSUME BogusAssumption == Bogus \subseteq Tokens

VARIABLES
    db,         \* durable status of a token's row
    cache,      \* status in the Redis value `session:<token>`
    pc,         \* where the callback chain of a call stands
    tok,        \* the token a call is about
    copy,       \* the status the call captured from the database
    res,        \* the last answer of a call
    acked,      \* tokens for which a logout was answered 200
    broken      \* tokens for which a logout ended without an answer of 200

vars == <<db, cache, pc, tok, copy, res, acked, broken>>

Absent == "absent"
Revoked == "revoked"
Active == "active"
Status == {Absent, Revoked, Active}

\* What a call is waiting for.  "idle": no call; "lookup": the task that reads
\* Redis; "load": the database task of find; "fill": the task that writes the
\* loaded session to Redis; "winner": its second read after a lost SET NX;
\* "persist": the database task of revoke; "tombstone": its Redis task.
Stages == {"idle", "lookup", "load", "fill", "winner", "persist", "tombstone"}

\* find answers a session (by status) or a null pointer; logout answers ok/fail.
Answers == {"none", "null", "ok", "fail", Revoked, Active}

Init ==
    /\ db = [t \in Tokens |-> Absent]
    /\ cache = [t \in Tokens |-> Absent]
    /\ pc = [c \in Calls |-> "idle"]
    /\ tok \in [Calls -> Tokens]
    /\ copy = [c \in Calls |-> Absent]
    /\ res = [c \in Calls |-> "none"]
    /\ acked = {}
    /\ broken = {}

-----------------------------------------------------------------------------
(* Redis and the callback plumbing.                                          *)

\* The call goes on to its next task.
Goto(c, stage) ==
    /\ pc' = [pc EXCEPT ![c] = stage]
    /\ UNCHANGED res

\* The callback of the call runs: the caller has its answer.
Answer(c, answer) ==
    /\ pc' = [pc EXCEPT ![c] = "idle"]
    /\ res' = [res EXCEPT ![c] = answer]

\* A Redis write that may fail: without a pooled connection nothing is written,
\* and when the reply is lost the value may have been written all the same.
RedisWrite(t, status, ok) ==
    \/ cache' = [cache EXCEPT ![t] = status]
    \/ ~ok /\ UNCHANGED cache

\* SessionCache::put (SETEX).
put(t, status, ok) == RedisWrite(t, status, ok)

\* Mutant: the fill uses SETEX, so that a late fill replaces a tombstone.
putIfAbsent_Overwrites(t, status, ok) == RedisWrite(t, status, ok)

\* SessionCache::putIfAbsent (SET NX): a present key is never replaced.
putIfAbsent(t, status, ok) ==
    IF cache[t] = Absent
    THEN RedisWrite(t, status, ok)
    ELSE ~ok /\ UNCHANGED cache

\* SessionCache::get: FALSE for a missing key and for a Redis error alike.
getOutcomes(t) == {Absent, cache[t]}

-----------------------------------------------------------------------------
(* Issuing a token.                                                          *)

\* SessionDAO::createSession: INSERT ... status 1.  Redis is not touched.  The
\* token is random, so that nobody can have used it before.
createSession(t) ==
    /\ t \notin Bogus
    /\ db[t] = Absent
    /\ db' = [db EXCEPT ![t] = Active]
    /\ UNCHANGED <<cache, pc, tok, copy, res, acked, broken>>

\* A token a client can present: one it was given, or a made-up one.
Presentable(t) == t \in Bogus \/ db[t] # Absent

-----------------------------------------------------------------------------
(* CachedSessionStore::find.                                                 *)

\* The I/O thread submits the lookup; a refused submit answers null at once.
find(c, t) ==
    /\ pc[c] = "idle"
    /\ Presentable(t)
    /\ tok' = [tok EXCEPT ![c] = t]
    /\ \/ /\ pc' = [pc EXCEPT ![c] = "lookup"]
          /\ res' = [res EXCEPT ![c] = "none"]
       \/ Answer(c, "null")
    /\ UNCHANGED <<db, cache, copy, acked, broken>>

\* Cache task: a hit is the answer; a miss or an error submits the DB task,
\* whose refusal (SessionDAO: submit = false) answers null.
Lookup(c) ==
    /\ pc[c] = "lookup"
    /\ \E got \in getOutcomes(tok[c]) :
         IF got # Absent
         THEN Answer(c, got)
         ELSE Goto(c, "load") \/ Answer(c, "null")
    /\ UNCHANGED <<db, cache, tok, copy, acked, broken>>

\* DB task SessionDAO::findSessionByToken.  A missing row and every database
\* error answer null; a row is captured by value and handed to a cache task.
Load(c) ==
    /\ pc[c] = "load"
    /\ \/ /\ db[tok[c]] # Absent
          /\ copy' = [copy EXCEPT ![c] = db[tok[c]]]
          /\ Goto(c, "fill")
       \/ Answer(c, "null") /\ UNCHANGED copy
    /\ UNCHANGED <<db, cache, tok, acked, broken>>

\* The cache pool refuses the task that would write the loaded session.
FillRefused(c) ==
    /\ pc[c] = "fill"
    /\ Answer(c, "null")
    /\ UNCHANGED <<db, cache, tok, copy, acked, broken>>

\* Cache task for a revoked row: it overwrites whatever is cached.
FillRevoked(c) ==
    /\ pc[c] = "fill"
    /\ copy[c] = Revoked
    /\ \E ok \in BOOLEAN :
         /\ put(tok[c], Revoked, ok)
         /\ Answer(c, IF ok THEN Revoked ELSE "null")
    /\ UNCHANGED <<db, tok, copy, acked, broken>>

\* Mutant: the row that was read is the answer even if another value was first.
FillActive_TrustsCopy(c) ==
    /\ pc[c] = "fill"
    /\ copy[c] = Active
    /\ \E ok \in BOOLEAN : putIfAbsent(tok[c], Active, ok)
    /\ Answer(c, Active)
    /\ UNCHANGED <<db, tok, copy, acked, broken>>

\* Cache task for an active row: it may only create the key, so that a
\* tombstone written since the row was read wins.
FillActive(c) ==
    /\ pc[c] = "fill"
    /\ copy[c] = Active
    /\ \E ok \in BOOLEAN :
         /\ putIfAbsent(tok[c], Active, ok)
         /\ IF ok THEN Answer(c, Active) ELSE Goto(c, "winner")
    /\ UNCHANGED <<db, tok, copy, acked, broken>>

\* Mutant: an unsuccessful second read starts the lookup again.
Winner_Retries(c) ==
    /\ pc[c] = "winner"
    /\ \E got \in getOutcomes(tok[c]) :
         IF got = Absent THEN Goto(c, "lookup") ELSE Answer(c, got)
    /\ UNCHANGED <<db, cache, tok, copy, acked, broken>>

\* The same task reads back the value that was there first.
Winner(c) ==
    /\ pc[c] = "winner"
    /\ \E got \in getOutcomes(tok[c]) :
         Answer(c, IF got = Absent THEN "null" ELSE got)
    /\ UNCHANGED <<db, cache, tok, copy, acked, broken>>

-----------------------------------------------------------------------------
(* SessionService::logout and CachedSessionStore::revoke.                    *)

\* AuthHandler::logout passes the token on; the DB task is submitted.
logout(c, t) ==
    /\ pc[c] = "idle"
    /\ Presentable(t)
    /\ tok' = [tok EXCEPT ![c] = t]
    /\ \/ /\ pc' = [pc EXCEPT ![c] = "persist"]
          /\ res' = [res EXCEPT ![c] = "none"]
       \/ Answer(c, "fail")
    /\ UNCHANGED <<db, cache, copy, acked, broken>>

\* The row after UPDATE ... SET status = 0 WHERE session_token = t AND status = 1.
RevokedRow(t) == [db EXCEPT ![t] = IF @ = Active THEN Revoked ELSE @]

\* The attempt ends with 503: the client knows that t may still be usable.
Fail(c) ==
    /\ Answer(c, "fail")
    /\ broken' = broken \cup {tok[c]}

\* DB task SessionDAO::revokeSession.  A failed statement may have been
\* executed; a successful one goes on to the tombstone, or fails when the cache
\* pool refuses the task.
Persist(c) ==
    /\ pc[c] = "persist"
    /\ \/ db' = RevokedRow(tok[c]) /\ Goto(c, "tombstone") /\ UNCHANGED broken
       \/ db' \in {db, RevokedRow(tok[c])} /\ Fail(c)
    /\ UNCHANGED <<cache, tok, copy, acked>>

\* Cache task: a tombstone replaces the snapshot.  Only its success is a 200.
Tombstone(c) ==
    /\ pc[c] = "tombstone"
    /\ \E ok \in BOOLEAN :
         /\ put(tok[c], Revoked, ok)
         /\ IF ok
            THEN /\ Answer(c, "ok")
                 /\ acked' = acked \cup {tok[c]}
                 /\ UNCHANGED broken
            ELSE Fail(c) /\ UNCHANGED acked
    /\ UNCHANGED <<db, tok, copy>>

-----------------------------------------------------------------------------
(* The environment.                                                          *)

\* A call that read the row of t as active and has yet to write it to Redis.
StaleFill(t) ==
    \E c \in Calls : pc[c] = "fill" /\ tok[c] = t /\ copy[c] = Active

\* A Redis value reaches its TTL of SessionCache::kTtlSeconds = 1800 s.  A fill
\* waits for at most the 127 tasks before it in the cache pool, far less than
\* that: a tombstone does not expire under a fill that was loaded before it.
Expire(t) ==
    /\ cache[t] # Absent
    /\ cache[t] = Revoked => ~StaleFill(t)
    /\ cache' = [cache EXCEPT ![t] = Absent]
    /\ UNCHANGED <<db, pc, tok, copy, res, acked, broken>>

\* The server process dies and is restarted: the calls are gone and their
\* clients have no answer; MySQL and Redis keep what they hold.
Restart ==
    /\ pc' = [c \in Calls |-> "idle"]
    /\ res' = [c \in Calls |-> "none"]
    /\ broken' = broken \cup {tok[c] : c \in {d \in Calls : pc[d] = "tombstone"}}
    /\ UNCHANGED <<db, cache, tok, copy, acked>>

-----------------------------------------------------------------------------
\* The steps of a call that its worker threads take on their own.
Work(c) ==
    \/ Lookup(c) \/ Load(c) \/ FillRefused(c) \/ FillRevoked(c)
    \/ FillActive(c) \/ Winner(c) \/ Persist(c) \/ Tombstone(c)

Next ==
    \/ \E t \in Tokens : createSession(t) \/ Expire(t)
    \/ \E c \in Calls, t \in Tokens : find(c, t) \/ logout(c, t)
    \/ \E c \in Calls : Work(c)
    \/ Restart

Spec == Init /\ [][Next]_vars

\* The worker threads loop for ever over their queues and every Redis and MySQL
\* operation ends with a reply or an error.
FairSpec == Spec /\ \A c \in Calls : WF_vars(Work(c))

-----------------------------------------------------------------------------
(* Properties.                                                               *)

\* Every variable holds a value of its type; in particular a find answers a
\* session or null and never an unread Session object.
TypeOK ==
    /\ db \in [Tokens -> Status]
    /\ cache \in [Tokens -> Status]
    /\ pc \in [Calls -> Stages]
    /\ tok \in [Calls -> Tokens]
    /\ copy \in [Calls -> Status]
    /\ res \in [Calls -> Answers]
    /\ acked \subseteq Tokens
    /\ broken \subseteq Tokens

\* Call c ends in this step.
Returns(c) == pc[c] # "idle" /\ pc'[c] = "idle"

\* Once AuthHandler::logout has answered 200 for a token, no find of it answers
\* an active session any more: not one that starts later, and not one that
\* read the row, or missed the cache, before the logout and is still running.
RevocationHolds ==
    [][\A c \in Calls :
         Returns(c) /\ res'[c] = Active => tok[c] \notin acked]_vars

\* A logout of t is between its database update and its answer, or one ended
\* without an answer of 200.
Unsettled(t) ==
    \/ t \in broken
    \/ \E c \in Calls : pc[c] = "tombstone" /\ tok[c] = t

\* The Redis snapshot says "active" for a row that is revoked only while the
\* logout is running or after its client was told that it failed: a fill that
\* loses the race against a logout never leaves such a snapshot behind.
StaleSnapshotReported ==
    \A t \in Tokens :
        cache[t] = Active /\ db[t] = Revoked => Unsettled(t)

\* Every find and every logout calls its callback: the request is answered.
CallsReturn == \A c \in Calls : pc[c] # "idle" ~> pc[c] = "idle"

-----------------------------------------------------------------------------
(* The strengthening that makes the safety properties inductive.             *)

\* A logout answered 200 is complete: the row is not active, the snapshot is
\* not active, and as long as a fill with the old row is around, the tombstone
\* that will defeat it is there.
AckedClosed ==
    \A t \in acked :
        /\ db[t] # Active
        /\ cache[t] # Active
        /\ StaleFill(t) => cache[t] = Revoked

\* The same for a revoked row none of whose logouts is unsettled.
SettledClosed ==
    \A t \in Tokens :
        db[t] = Revoked /\ ~Unsettled(t) =>
            /\ cache[t] # Active
            /\ StaleFill(t) => cache[t] = Revoked

\* The tombstone is written after the row was revoked.
TombstoneAfterRow ==
    \A c \in Calls : pc[c] = "tombstone" => db[tok[c]] # Active

\* Tokens in use are not issued again, and a made-up one is never issued.
InUse ==
    /\ \A t \in Bogus : db[t] = Absent
    /\ \A c \in Calls : pc[c] # "idle" => Presentable(tok[c])
    /\ \A t \in acked : Presentable(t)

IInv == TypeOK /\ AckedClosed /\ SettledClosed /\ TombstoneAfterRow /\ InUse

=============================================================================
