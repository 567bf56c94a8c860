------------------------------- MODULE Visitor -------------------------------
(***************************************************************************)
(* Anonymous visitors of the exhibition: the identity in Redis, the claim   *)
(* of a page load's bootstrap id, the set of visitors who are online, and   *)
(* the count of views in MySQL.  Each call of ar::VisitorHandlers runs in a *)
(* thread of the visitor TaskWorkerPool, one Redis command at a time, and    *)
(* goes on in the DBWorkerPool with a transaction, one statement at a time;  *)
(* the commands and statements of different calls interleave.  Requests of   *)
(* the wrong syntax, which are answered 400 or 401 and change nothing, are    *)
(* left out.                                                                 *)
(***************************************************************************)
EXTENDS Naturals, FiniteSets

CONSTANTS
    Calls,      \* requests that may be in flight at the same time
    Ids,        \* bootstrapRequestIds: one for each page load, shared by its retries
    Tokens,     \* visitor tokens of the right syntax
    None        \* an empty X-Visitor-Token, a missing claim

ASSUME NoneAssumption == None \notin Tokens \cup Ids
ASSUME IdsFinite == IsFiniteSet(Ids)

VARIABLES
    visitors,   \* Redis visitor:{token}: the tokens with a live identity
    claim,      \* Redis bootstrap:{id}: the token that id is bound to
    online,     \* Redis presence:exhibition: the tokens seen in the last 60 s
    events,     \* MySQL exhibition_view_events: ids whose view is recorded
    total,      \* MySQL exhibition_statistics.total_views; no row while 0
    call,       \* each call: where it stands and what it has in hand
    answer,     \* the number of views that the last step answered, or None
    resolved,   \* history: tokens resolved for an id since its claim was made
    counted,    \* history: ids answered with statistics
    seen        \* history: the largest number of views answered

redis == <<visitors, claim, online>>
mysql == <<events, total>>
history == <<resolved, counted, seen>>
vars == <<redis, mysql, call, answer, history>>

\* Positions in bootstrap, heartbeat, exit, presence and views.  From "insert"
\* to "commit" a call is in the transaction of incrementAndRead.
Stages == {"idle", "valid", "candidate", "claim", "resolve", "adopt", "touch",
           "insert", "increment", "select", "commit",
           "refresh", "beat", "exists", "remove", "count", "read"}

\* A call: its position, its bootstrap id, the token and the number of views it
\* has in hand, what its open transaction has done and, as history, the largest
\* number of views that had been answered when it arrived.
CallStates == [pc : Stages, id : Ids \cup {None}, tok : Tokens \cup {None}, count : Nat,
               tx : {"none", "inserted", "counted"}, floor : Nat]
Idle == [pc |-> "idle", id |-> None, tok |-> None, count |-> 0, tx |-> "none", floor |-> 0]

Init ==
    /\ visitors = {}
    /\ claim = [i \in Ids |-> None]
    /\ online = {}
    /\ events = {}
    /\ total = 0
    /\ call = [c \in Calls |-> Idle]
    /\ answer = None
    /\ resolved = [i \in Ids |-> {}]
    /\ counted = {}
    /\ seen = 0

-----------------------------------------------------------------------------
(* The plumbing of a call.                                                   *)

At(c, stage) == call[c].pc = stage
Goto(c, stage) == call' = [call EXCEPT ![c].pc = stage] /\ answer' = None

\* responder.send: the call is over.
Answer(c, n) ==
    /\ call' = [call EXCEPT ![c] = Idle]
    /\ answer' = n

\* 200 with totalViews null, or with nothing to say; and 503.
ok(c) == Answer(c, None)
unavailable(c) == Answer(c, None)

\* A request arrives and its task is submitted; a full queue answers 503.
Start(c, stage, i, t) ==
    /\ At(c, "idle")
    /\ \/ /\ call' = [call EXCEPT ![c] = [pc |-> stage, id |-> i, tok |-> t, count |-> 0,
                                          tx |-> "none", floor |-> seen]]
          /\ answer' = None
       \/ unavailable(c)
    /\ UNCHANGED <<redis, mysql, history>>

-----------------------------------------------------------------------------
(* VisitorHandlers::bootstrap, the part in Redis.  A command whose reply is   *)
(* an error or is lost ends the call with 503, and may have been executed.    *)

SET(c) == visitors \cup {call[c].tok}
ZADD(c) == online \cup {call[c].tok}

\* A random token is one that nobody has.
Unused(t) ==
    /\ t \notin visitors
    /\ t \notin online
    /\ \A i \in Ids : claim[i] # t
    /\ \A c \in Calls : call[c].tok # t

\* valid(existingToken), with an error taken for FALSE; otherwise the generator,
\* which may fail.
valid(c) ==
    /\ At(c, "valid")
    /\ \/ call[c].tok \in visitors /\ Goto(c, "candidate")
       \/ \E t \in Tokens :
            /\ Unused(t)
            /\ call' = [call EXCEPT ![c].pc = "candidate", ![c].tok = t]
            /\ answer' = None
       \/ unavailable(c)
    /\ UNCHANGED <<redis, mysql, history>>

\* save(candidateToken): SET ... EX 1800.
saveCandidate(c) ==
    /\ At(c, "candidate")
    /\ \/ visitors' = SET(c) /\ Goto(c, "claim")
       \/ visitors' \in {visitors, SET(c)} /\ unavailable(c)
    /\ UNCHANGED <<claim, online, mysql, history>>

\* Mutant: SET without NX.
SETNX_Overwrites(c) == [claim EXCEPT ![call[c].id] = call[c].tok]

\* SET ... NX EX 300; that the key exists is no error.
SETNX(c) == [claim EXCEPT ![call[c].id] = IF @ = None THEN call[c].tok ELSE @]

claimBootstrap(c) ==
    /\ At(c, "claim")
    /\ \/ claim' = SETNX(c) /\ Goto(c, "resolve")
       \/ claim' \in {claim, SETNX(c)} /\ unavailable(c)
    /\ UNCHANGED <<visitors, online, mysql, history>>

\* claimBootstrap, GET.  The claim may have expired since, and the read may
\* fail.
resolve(c) ==
    LET i == call[c].id IN
    /\ At(c, "resolve")
    /\ \/ /\ claim[i] # None
          /\ call' = [call EXCEPT ![c].pc = "adopt", ![c].tok = claim[i]]
          /\ resolved' = [resolved EXCEPT ![i] = @ \cup {claim[i]}]
          /\ answer' = None
       \/ unavailable(c) /\ UNCHANGED resolved
    /\ UNCHANGED <<redis, mysql, counted, seen>>

\* save(resolvedToken): the identity of the attempt that won is renewed.
adopt(c) ==
    /\ At(c, "adopt")
    /\ \/ visitors' = SET(c) /\ Goto(c, "touch")
       \/ visitors' \in {visitors, SET(c)} /\ unavailable(c)
    /\ UNCHANGED <<claim, online, mysql, history>>

\* presence->heartbeat: ZADD.  Then the transaction is submitted; a DBWorkerPool
\* that is stopping refuses it, which is an answer without statistics.
touch(c) ==
    /\ At(c, "touch")
    /\ \/ online' = ZADD(c) /\ (Goto(c, "insert") \/ ok(c))
       \/ online' \in {online, ZADD(c)} /\ unavailable(c)
    /\ UNCHANGED <<visitors, claim, mysql, history>>

-----------------------------------------------------------------------------
(* ExhibitionStatisticsDAO::incrementAndRead, one transaction.               *)

InTransaction == {"insert", "increment", "select", "commit"}

\* InnoDB: an inserted key is locked until its transaction ends, and so is an
\* updated row.
KeyLocked(i) == \E c \in Calls : call[c].tx # "none" /\ call[c].id = i
RowLocked == \E c \in Calls : call[c].tx = "counted"

\* Mutant: a duplicate entry counts as an insertion.
insertViewEvent_CountsDuplicates(c) ==
    /\ At(c, "insert")
    /\ ~KeyLocked(call[c].id)
    /\ call' = [call EXCEPT ![c].pc = "increment", ![c].tx = "inserted"]
    /\ answer' = None
    /\ UNCHANGED <<redis, mysql, history>>

\* INSERT of the event.  A duplicate entry is not an error: the view was counted
\* by an earlier attempt.
insertViewEvent(c) ==
    /\ At(c, "insert")
    /\ ~KeyLocked(call[c].id)
    /\ call' = IF call[c].id \in events
               THEN [call EXCEPT ![c].pc = "select"]
               ELSE [call EXCEPT ![c].pc = "increment", ![c].tx = "inserted"]
    /\ answer' = None
    /\ UNCHANGED <<redis, mysql, history>>

\* INSERT ... ON DUPLICATE KEY UPDATE total_views + 1.
increment(c) ==
    /\ At(c, "increment")
    /\ ~RowLocked
    /\ call' = [call EXCEPT ![c].pc = "select", ![c].tx = "counted"]
    /\ answer' = None
    /\ UNCHANGED <<redis, mysql, history>>

\* What a SELECT of the call sees: the committed value and its own increment.
selectCount(c) == total + (IF call[c].tx = "counted" THEN 1 ELSE 0)

select(c) ==
    /\ At(c, "select")
    /\ call' = [call EXCEPT ![c].pc = "commit", ![c].count = selectCount(c)]
    /\ answer' = None
    /\ UNCHANGED <<redis, mysql, history>>

\* The call answers the number of views n.
Report(c, n) ==
    /\ Answer(c, n)
    /\ seen' = IF n > seen THEN n ELSE seen
    /\ UNCHANGED resolved

\* COMMIT, then autocommit on again.  If either reports an error the answer has
\* no statistics, although the commit has been executed.
commit(c) ==
    /\ At(c, "commit")
    /\ events' = IF call[c].tx = "none" THEN events ELSE events \cup {call[c].id}
    /\ total' = selectCount(c)
    /\ \/ Report(c, call[c].count) /\ counted' = counted \cup {call[c].id}
       \/ ok(c) /\ UNCHANGED history
    /\ UNCHANGED redis

\* No connection, an error of a statement, a lock wait timeout, or a commit that
\* was not executed: what was done is rolled back.
rollback(c) ==
    /\ call[c].pc \in InTransaction
    /\ ok(c)
    /\ UNCHANGED <<redis, mysql, history>>

-----------------------------------------------------------------------------
(* heartbeat, exit, presence and views.                                      *)

\* refresh(token): SET ... EX 1800, whether or not the key existed.
refresh(c) ==
    /\ At(c, "refresh")
    /\ \/ visitors' = SET(c) /\ Goto(c, "beat")
       \/ visitors' \in {visitors, SET(c)} /\ unavailable(c)
    /\ UNCHANGED <<claim, online, mysql, history>>

\* The end of a call that is one command on the set of visitors online.
LastCommand(c, result) ==
    /\ \/ online' = result /\ ok(c)
       \/ online' \in {online, result} /\ unavailable(c)
    /\ UNCHANGED <<visitors, claim, mysql, history>>

\* The ZADD of a heartbeat.
beat(c) == At(c, "beat") /\ LastCommand(c, ZADD(c))

\* exit asks whether the identity exists; an error is taken for no.
exists(c) ==
    /\ At(c, "exists")
    /\ \/ call[c].tok \in visitors /\ Goto(c, "remove")
       \/ unavailable(c)
    /\ UNCHANGED <<redis, mysql, history>>

\* ZREM.
remove(c) ==
    At(c, "remove") /\ LastCommand(c, online \ {call[c].tok})

\* The script drops the visitors not seen for 60 s, which Fade has taken out of
\* online already, and counts the others.
count(c) == At(c, "count") /\ LastCommand(c, online)

\* Mutant: autocommit was not turned on again after the last transaction of the
\* connection, so that the read sees the snapshot of an old one.
read_OldSnapshot(c) ==
    /\ At(c, "read")
    /\ \/ \E n \in 1..total : Report(c, n) /\ UNCHANGED counted
       \/ ok(c) /\ UNCHANGED history
    /\ UNCHANGED <<redis, mysql>>

\* read: a DB task of its own; without a row there are no statistics.
read(c) ==
    /\ At(c, "read")
    /\ \/ total > 0 /\ Report(c, total) /\ UNCHANGED counted
       \/ ok(c) /\ UNCHANGED history
    /\ UNCHANGED <<redis, mysql>>

-----------------------------------------------------------------------------
(* Requests and the environment.                                             *)

\* Any client may present any token; retries of a page load present its id.
bootstrap(c) == \E i \in Ids, t \in Tokens \cup {None} : Start(c, "valid", i, t)
heartbeat(c) == \E t \in Tokens : Start(c, "refresh", None, t)
exit(c) == \E t \in Tokens : Start(c, "exists", None, t)
presence(c) == Start(c, "count", None, None)
views(c) == Start(c, "read", None, None)

\* kBootstrapTtlSeconds = 300 have passed.
ExpireClaim(i) ==
    /\ claim[i] # None
    /\ claim' = [claim EXCEPT ![i] = None]
    /\ resolved' = [resolved EXCEPT ![i] = {}]
    /\ answer' = None
    /\ UNCHANGED <<visitors, online, mysql, call, counted, seen>>

\* A call has renewed t and will touch it next.
Renewed(t) == \E c \in Calls : call[c].pc \in {"touch", "beat"} /\ call[c].tok = t

\* kVisitorTtlSeconds = 1800 have passed without a renewal: far longer than a
\* call takes to its next command, and than the window of kOnlineWindowMs = 60 s.
ExpireVisitor(t) ==
    /\ t \in visitors
    /\ t \notin online
    /\ ~Renewed(t)
    /\ visitors' = visitors \ {t}
    /\ answer' = None
    /\ UNCHANGED <<claim, online, mysql, call, history>>

\* 60 s have passed since the last heartbeat of t.  Its entry stays in Redis, but
\* every count drops it before it counts, and nothing else reads it.
Fade(t) ==
    /\ t \in online
    /\ online' = online \ {t}
    /\ answer' = None
    /\ UNCHANGED <<visitors, claim, mysql, call, history>>

\* The server process dies: open transactions are rolled back by MySQL.
Restart ==
    /\ call' = [c \in Calls |-> Idle]
    /\ answer' = None
    /\ UNCHANGED <<redis, mysql, history>>

Request(c) == bootstrap(c) \/ heartbeat(c) \/ exit(c) \/ presence(c) \/ views(c)

Work(c) ==
    \/ valid(c) \/ saveCandidate(c) \/ claimBootstrap(c) \/ resolve(c) \/ adopt(c) \/ touch(c)
    \/ insertViewEvent(c) \/ increment(c) \/ select(c) \/ commit(c) \/ rollback(c)
    \/ refresh(c) \/ beat(c) \/ exists(c) \/ remove(c) \/ count(c) \/ read(c)

Next ==
    \/ \E c \in Calls : Request(c) \/ Work(c)
    \/ \E i \in Ids : ExpireClaim(i)
    \/ \E t \in Tokens : ExpireVisitor(t) \/ Fade(t)
    \/ Restart

Spec == Init /\ [][Next]_vars

-----------------------------------------------------------------------------
(* Properties.                                                               *)

\* Every variable has its type; in particular no call goes on with an empty token
\* after the claim was read.
TypeOK ==
    /\ visitors \subseteq Tokens
    /\ claim \in [Ids -> Tokens \cup {None}]
    /\ online \subseteq Tokens
    /\ events \subseteq Ids
    /\ total \in Nat
    /\ call \in [Calls -> CallStates]
    /\ answer \in Nat \cup {None}
    /\ resolved \in [Ids -> SUBSET Tokens]
    /\ counted \subseteq Ids
    /\ seen \in Nat

\* total_views is the number of recorded page loads, at every moment: an
\* attempt that is retried, answered with an error, cut off by a crash or raced
\* by another one is counted once or not at all, and never without its record.
ViewsExact == total = Cardinality(events)

\* A page load that was answered with statistics is recorded for good.
AnsweredIsCounted == counted \subseteq events

\* The count of views: VisitorService.cpp and PresenceService.cpp count every
\* page load that is recorded, and record every one that is answered.
CountingExact == ViewsExact /\ AnsweredIsCounted

\* Call c ends with a number of views.
Reports(c) == call[c] # Idle /\ call'[c] = Idle /\ answer' # None

\* The number of views never goes down: an answer is at least as large as any
\* that was given before its request arrived.
ViewsNeverShrink ==
    [][\A c \in Calls : Reports(c) => answer' >= call[c].floor]_vars

\* All attempts of one page load get one identity, as long as its claim lives,
\* whichever of them made the claim and whatever became of that attempt.
SameIdentity == \A i \in Ids : resolved[i] \subseteq {claim[i]}

\* Who is online has an identity: a heartbeat or a bootstrap that shows a
\* visitor has renewed the token first.
OnlineHasIdentity == online \subseteq visitors

\* The identities that the keys in Redis stand for.
IdentitiesKept == SameIdentity /\ OnlineHasIdentity

-----------------------------------------------------------------------------
(* The strengthening that makes the properties inductive.                    *)

\* Where a call has a token, and where it has a bootstrap id.
HasToken == {"candidate", "claim", "resolve", "adopt", "touch",
             "refresh", "beat", "exists", "remove"}
HasId == {"valid", "candidate", "claim", "resolve", "adopt", "touch"} \cup InTransaction

\* What a call knows: a token that is about to be shown online has an identity,
\* an open transaction holds an id that is not recorded yet, one that found its
\* id recorded changes nothing, and a number of views is never out of date by
\* more than what was committed since the request arrived.
CallOK(c) ==
    LET k == call[c] IN
    /\ k.pc \in HasToken => k.tok \in Tokens
    /\ k.pc \in HasId => k.id \in Ids
    /\ k.pc \in {"touch", "beat"} => k.tok \in visitors
    /\ k.tx = "inserted" <=> k.pc = "increment"
    /\ k.tx = "counted" => k.pc \in {"select", "commit"}
    /\ k.tx # "none" => k.id \notin events
    /\ k.pc \in {"select", "commit"} /\ k.tx = "none" => k.id \in events
    /\ k.floor <= seen
    /\ k.pc = "commit" => k.count >= k.floor /\ k.count <= selectCount(c)

\* Two open transactions never hold one id.
KeysHeld ==
    \A c, d \in Calls :
        call[c].tx # "none" /\ call[d].tx # "none" /\ call[c].id = call[d].id => c = d

IInv ==
    /\ TypeOK
    /\ \A c \in Calls : CallOK(c)
    /\ KeysHeld
    /\ seen <= total
    /\ ViewsExact /\ AnsweredIsCounted /\ SameIdentity /\ OnlineHasIdentity

=============================================================================
