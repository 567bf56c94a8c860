------------------------- MODULE ArtworkInteraction -------------------------
(***************************************************************************)
(* Likes and comments: ArtworkInteractionHandlers, ArtworkInteractionService *)
(* and ArtworkInteractionDAO.  A call asks for the session of its token,     *)
(* takes a lease on the DAO, submits a task to the database workers and      *)
(* gives the lease back, while the task may already run.  The service may be *)
(* destroyed at any time: its destructor waits for the leases.               *)
(*                                                                           *)
(* One artwork of the catalogue, as the artwork is only a part of the key of *)
(* each row, and one session for each user, known by the user's name.  The   *)
(* look-up of a session keeps the promise that SessionStore checks: no        *)
(* active session is found once a logout has been answered.  The text of a   *)
(* comment is valid or not.                                                  *)
(***************************************************************************)
EXTENDS Integers, FiniteSets

CONSTANTS
    Users,          \* who has logged in
    Calls,          \* requests that may be in flight at the same time
    None,           \* no token, no call
    MaxComments,    \* bound: ids of comments
    PageLimit       \* rows of a page (20 in the code)

ASSUME UsersAssumption == None \notin Users
ASSUME PageAssumption == MaxComments \in Nat /\ PageLimit \in Nat \ {0}

VARIABLES
    sessions,   \* the users whose session is active
    likes,      \* rows of `artwork_likes`: the users
    comments,   \* committed rows of `artwork_comments`: the ids
    nextId,     \* AUTO_INCREMENT of `artwork_comments`
    life,       \* the service: "valid", "closing" in the destructor, "gone"
    activeCalls,
    leases,     \* the calls whose DaoCallLease is alive
    pc,         \* where a call stands
    call,       \* what it is about and what it has found so far
    walk        \* a client that reads the comments page by page

vars == <<sessions, likes, comments, nextId, life, activeCalls, leases, pc, call, walk>>

Ids == 1..MaxComments
Ops == {"detail", "like", "unlike", "comments", "comment"}
Writes == {"like", "unlike", "comment"}

\* "get": the session is looked up; "lease": the lease is to be taken; "dao": the
\* DAO is called; "task": the database task waits; "insert": its row has an id and
\* is not committed; "query": the summary after a like is to be read; "answered":
\* the responder has been used.
Stages == {"idle", "get", "lease", "dao", "task", "insert", "query", "answered"}
Pending == Stages \ {"idle", "answered"}

\* fault: something outside of the call went wrong.  raced: another like or unlike
\* of the same user took effect since the call began.  late: the session was
\* already revoked when the call began.
NewCall(op, u, valid) ==
    [op |-> op, user |-> u, valid |-> valid, id |-> 0, status |-> "none", liked |-> FALSE,
     fault |-> FALSE, raced |-> FALSE, late |-> u # None /\ u \notin sessions]

\* A walk follows one id: was it there when the walk began, and how often has it
\* been listed?
NoWalk == [state |-> "idle", cursor |-> 0, id |-> 0, wanted |-> FALSE, seen |-> 0]

Init ==
    /\ sessions = Users
    /\ likes = {}
    /\ comments = {}
    /\ nextId = 1
    /\ life = "valid"
    /\ activeCalls = 0
    /\ leases = {}
    /\ pc = [c \in Calls |-> "idle"]
    /\ call = [c \in Calls |-> None]
    /\ walk = NoWalk

-----------------------------------------------------------------------------
(* The beginning of a call.                                                  *)

active == life = "valid"

Goto(c, stage) == pc' = [pc EXCEPT ![c] = stage]

\* The callback of the service: the responder is used.
Answer(c, status) ==
    /\ Goto(c, "answered")
    /\ call' = [call EXCEPT ![c].status = status]

\* kUnavailable, because of a failure or of the destructor.
Fail(c) ==
    /\ Goto(c, "answered")
    /\ call' = [call EXCEPT ![c].status = "unavailable", ![c].fault = TRUE]

Commenting == {c \in Calls : pc[c] \in Pending \ {"insert"} /\ call[c].op = "comment"}

\* AuthMiddleware lets writes pass only with a token, details and comments with
\* or without one.  A detail without token, and the comments, need no session.
\* An unknown artwork is answered 404 before anything happens.  Bound: an id is
\* left for a comment.
Begin(c, op, u, valid) ==
    /\ pc[c] = "idle" /\ c \notin leases
    /\ active
    /\ op \in Writes => u # None
    /\ op = "comment" => nextId + Cardinality(Commenting) <= MaxComments
    /\ call' = [call EXCEPT ![c] = NewCall(op, u, valid)]
    /\ Goto(c, IF u = None THEN "lease" ELSE "get")
    /\ UNCHANGED <<sessions, likes, comments, nextId, life, activeCalls, leases>>

Request(c) ==
    /\ \/ \E op \in Ops \ {"comments", "comment"}, u \in Users \cup {None} :
            Begin(c, op, u, TRUE)
       \/ \E u \in Users, valid \in BOOLEAN : Begin(c, "comment", u, valid)
    /\ UNCHANGED walk

\* A client that asks for a page when it has the one before.
RequestPage(c) ==
    /\ walk.state \in {"idle", "reading"}
    /\ Begin(c, "comments", None, TRUE)
    /\ IF walk.cursor = 0
       THEN \E i \in Ids : walk' = [NoWalk EXCEPT !.state = "asked", !.id = i,
                                                  !.wanted = i \in comments]
       ELSE walk' = [walk EXCEPT !.state = "asked"]

\* A logout that is answered 200.
Logout(u) ==
    /\ u \in sessions
    /\ sessions' = sessions \ {u}
    /\ UNCHANGED <<likes, comments, nextId, life, activeCalls, leases, pc, call, walk>>

\* Mutant: a session that is found counts, whatever its status.
Authorised_Found(u) == u \in Users

\* session && session->status == 1.
Authorised(u) == u \in sessions

\* The callback of sessions_->get, which has a null pointer for errors too.  Then
\* comment checks its text.
Authenticate(c) ==
    /\ pc[c] = "get"
    /\ \/ ~active /\ Fail(c)
       \/ active /\ Answer(c, "unauthorized")
       \/ /\ active /\ Authorised(call[c].user)
          /\ IF call[c].valid
             THEN Goto(c, "lease") /\ UNCHANGED call
             ELSE Answer(c, "badRequest")
    /\ UNCHANGED <<sessions, likes, comments, nextId, life, activeCalls, leases, walk>>

-----------------------------------------------------------------------------
(* The lease, and the destructor that waits for it.                          *)

\* A page that was not delivered can be asked for again.
PageFailed(c) ==
    walk' = IF call[c].op # "comments" THEN walk
            ELSE IF walk.cursor = 0 THEN NoWalk
            ELSE [walk EXCEPT !.state = "reading"]

\* Mutant: the lease does not look at valid.
DaoCallLease_Unchecked(c) ==
    /\ pc[c] = "lease"
    /\ activeCalls' = activeCalls + 1
    /\ leases' = leases \cup {c}
    /\ Goto(c, "dao")
    /\ UNCHANGED <<sessions, likes, comments, nextId, life, call, walk>>

DaoCallLease(c) ==
    /\ pc[c] = "lease"
    /\ \/ /\ active
          /\ activeCalls' = activeCalls + 1
          /\ leases' = leases \cup {c}
          /\ Goto(c, "dao")
          /\ UNCHANGED <<call, walk>>
       \/ /\ ~active
          /\ Fail(c) /\ PageFailed(c)
          /\ UNCHANGED <<activeCalls, leases>>
    /\ UNCHANGED <<sessions, likes, comments, nextId, life>>

\* The DAO submits the task; a refused task calls back at once.
CallDao(c) ==
    /\ pc[c] = "dao"
    /\ \/ Goto(c, "task") /\ UNCHANGED <<call, walk>>
       \/ Fail(c) /\ PageFailed(c)
    /\ UNCHANGED <<sessions, likes, comments, nextId, life, activeCalls, leases>>

\* The end of the scope of the lease, after the DAO has returned.
ReleaseLease(c) ==
    /\ c \in leases
    /\ pc[c] # "dao"
    /\ activeCalls' = activeCalls - 1
    /\ leases' = leases \ {c}
    /\ UNCHANGED <<sessions, likes, comments, nextId, life, pc, call, walk>>

\* The destructor marks the service ...
Destroy ==
    /\ life = "valid"
    /\ life' = "closing"
    /\ UNCHANGED <<sessions, likes, comments, nextId, activeCalls, leases, pc, call, walk>>

\* ... and returns; then the owner may destroy the DAO.
Drain ==
    /\ life = "closing"
    /\ activeCalls = 0
    /\ life' = "gone"
    /\ UNCHANGED <<sessions, likes, comments, nextId, activeCalls, leases, pc, call, walk>>

-----------------------------------------------------------------------------
(* The tasks of the DAO on a database worker, and their callbacks.           *)

\* The callback of the DAO: what was found is answered only while the service is
\* valid.
Reply(c, liked) ==
    IF active
    THEN /\ Goto(c, "answered")
         /\ call' = [call EXCEPT ![c].status = "ok", ![c].liked = liked]
    ELSE Fail(c)

\* Like and unlike calls of the user of c that are under way.
Rivals(c) ==
    {d \in Calls \ {c} : /\ pc[d] \in Pending
                         /\ call[d].op \in {"like", "unlike"}
                         /\ call[d].user = call[c].user}

\* Mutant: a like that is stored already is an error.
duplicateIsSuccess_Never(op) == FALSE

\* The parameter of changeLike.
duplicateIsSuccess(op) == op = "like"

Duplicate(c) == call[c].op = "like" /\ call[c].user \in likes

\* changeLike, its first statement: INSERT or DELETE.  A connection that fails may
\* fail after the change.
ChangeLike(c) ==
    /\ pc[c] = "task" /\ call[c].op \in {"like", "unlike"}
    /\ \/ IF Duplicate(c) /\ ~duplicateIsSuccess(call[c].op)
          THEN Answer(c, "unavailable") /\ UNCHANGED likes
          ELSE /\ likes' = IF call[c].op = "like" THEN likes \cup {call[c].user}
                                                  ELSE likes \ {call[c].user}
               /\ \E ok \in BOOLEAN :
                    /\ Goto(c, IF ok THEN "query" ELSE "answered")
                    /\ call' = [d \in Calls |->
                                  IF d \in Rivals(c) THEN [call[d] EXCEPT !.raced = TRUE]
                                  ELSE IF d = c /\ ~ok
                                       THEN [call[d] EXCEPT !.status = "unavailable",
                                                            !.fault = TRUE]
                                  ELSE call[d]]
       \/ Fail(c) /\ UNCHANGED likes
    /\ UNCHANGED <<sessions, comments, nextId, life, activeCalls, leases, walk>>

Liked(c) == call[c].user \in likes

\* querySummary: after a change, or for a detail.
QuerySummary(c) ==
    /\ pc[c] = "query" \/ (pc[c] = "task" /\ call[c].op = "detail")
    /\ Reply(c, Liked(c)) \/ Fail(c)
    /\ UNCHANGED <<sessions, likes, comments, nextId, life, activeCalls, leases, walk>>

\* createComment: the row gets its id when it is inserted ...
InsertComment(c) ==
    /\ pc[c] = "task" /\ call[c].op = "comment"
    /\ \/ /\ nextId' = nextId + 1
          /\ Goto(c, "insert")
          /\ call' = [call EXCEPT ![c].id = nextId]
       \/ Fail(c) /\ UNCHANGED nextId
    /\ UNCHANGED <<sessions, likes, comments, life, activeCalls, leases, walk>>

\* ... and is seen by others when it is committed, which need not be in the order
\* of the ids.
CommitComment(c) ==
    /\ pc[c] = "insert"
    /\ \/ /\ comments' = comments \cup {call[c].id}
          /\ Reply(c, FALSE) \/ Fail(c)
       \/ Fail(c) /\ UNCHANGED comments
    /\ UNCHANGED <<sessions, likes, nextId, life, activeCalls, leases, walk>>

\* Mutant: the cursor is part of the next page.
Page_Inclusive(before) ==
    LET Older == {i \in comments : before = 0 \/ i <= before}
    IN  {i \in Older : Cardinality({j \in Older : j > i}) < PageLimit}

\* WHERE id < cursor ORDER BY id DESC LIMIT: the newest ids before the cursor; a
\* cursor of 0 is the end of the list.
Page(before) ==
    LET Older == {i \in comments : before = 0 \/ i < before}
    IN  {i \in Older : Cardinality({j \in Older : j > i}) < PageLimit}

\* nextBefore: the last id of the page.
NextBefore(page) == IF page = {} THEN 0 ELSE CHOOSE i \in page : \A j \in page : i <= j

ListComments(c) ==
    /\ pc[c] = "task" /\ call[c].op = "comments"
    /\ \/ /\ active
          /\ Reply(c, FALSE)
          /\ LET page == Page(walk.cursor)
             IN  walk' = [walk EXCEPT !.seen = @ + IF walk.id \in page THEN 1 ELSE 0,
                                      !.cursor = NextBefore(page),
                                      !.state = IF page = {} THEN "done" ELSE "reading"]
       \/ Fail(c) /\ PageFailed(c)
    /\ UNCHANGED <<sessions, likes, comments, nextId, life, activeCalls, leases>>

\* The client has the answer and forgets the call.
Receive(c) ==
    /\ pc[c] = "answered"
    /\ Goto(c, "idle")
    /\ call' = [call EXCEPT ![c] = None]
    /\ walk' = IF call[c].op = "comments" /\ walk.state = "done" THEN NoWalk ELSE walk
    /\ UNCHANGED <<sessions, likes, comments, nextId, life, activeCalls, leases>>

-----------------------------------------------------------------------------

Step(c) ==
    \/ Authenticate(c) \/ DaoCallLease(c) \/ CallDao(c) \/ ChangeLike(c)
    \/ QuerySummary(c) \/ InsertComment(c) \/ CommitComment(c) \/ ListComments(c)

\* The service is gone and nothing is left to be done; any other state without a
\* successor is a deadlock.
Stopped ==
    /\ life = "gone" /\ leases = {}
    /\ \A c \in Calls : pc[c] = "idle"
    /\ UNCHANGED vars

Next ==
    \/ \E c \in Calls : \/ Request(c) \/ RequestPage(c) \/ Step(c) \/ ReleaseLease(c)
                        \/ Receive(c)
    \/ \E u \in Users : Logout(u)
    \/ Destroy
    \/ Drain
    \/ Stopped

Spec == Init /\ [][Next]_vars

-----------------------------------------------------------------------------
(* Properties.                                                               *)

\* Nobody is about to use the DAO once the destructor has returned.
DaoOutlivesCalls == life = "gone" => \A c \in Calls : pc[c] # "dao" /\ c \notin leases

\* A call that begins when the logout has been answered gets nowhere near a row.
RevokedNeverWrites ==
    \A c \in Calls : pc[c] \in Pending \ {"get"} => ~call[c].late

\* A like or unlike that succeeds, with no other of the same user in between, says
\* what the user asked for.
LikeAnswersTrue ==
    \A c \in Calls :
        pc[c] = "answered" /\ call[c].op \in {"like", "unlike"} /\ call[c].status = "ok"
            => call[c].raced \/ (call[c].liked <=> call[c].op = "like")

\* 503 is answered only when something failed: to repeat a like or an unlike that
\* is already stored is no error.
UnavailableOnFault ==
    \A c \in Calls : pc[c] = "answered" /\ call[c].status = "unavailable" => call[c].fault

\* What a user is told of a like is the truth.
AnswersTrue == LikeAnswersTrue /\ UnavailableOnFault

\* A client that reads the comments page by page gets every comment that was
\* there when it began once, and none twice, whatever is written meanwhile.
WalkComplete ==
    /\ walk.seen <= 1
    /\ walk.state = "done" /\ walk.wanted => walk.seen = 1

-----------------------------------------------------------------------------
(* The inductive invariant.                                                  *)

CallType ==
    [op : Ops, user : Users \cup {None}, valid : BOOLEAN, id : Nat,
     status : {"none", "ok", "unavailable", "unauthorized", "badRequest"},
     liked : BOOLEAN, fault : BOOLEAN, raced : BOOLEAN, late : BOOLEAN]
WalkType ==
    [state : {"idle", "asked", "reading", "done"}, cursor : Nat, id : Nat,
     wanted : BOOLEAN, seen : Nat]

TypeOK ==
    /\ sessions \subseteq Users
    /\ nextId \in Nat \ {0}
    /\ comments \subseteq 1..(nextId - 1)
    /\ life \in {"valid", "closing", "gone"}
    /\ pc \in [Calls -> Stages]
    /\ call \in [Calls -> CallType \cup {None}]
    /\ \A c \in Calls : pc[c] # "idle" => call[c] \in CallType
    /\ walk \in WalkType

\* activeCalls counts the leases, a call is at the DAO only with its lease, and
\* none is left when the destructor has returned.
Leased ==
    /\ leases \subseteq Calls /\ IsFiniteSet(leases)
    /\ activeCalls = Cardinality(leases)
    /\ \A c \in Calls : pc[c] \in {"get", "lease"} => c \notin leases
    /\ \A c \in Calls : pc[c] = "dao" => c \in leases
    /\ life = "gone" => leases = {}

\* What is known of a call where it stands.
Known(c) ==
    /\ call[c].late => call[c].user \notin sessions
    /\ pc[c] \in Pending \ {"get"} => ~call[c].late
    /\ pc[c] = "insert" => call[c].op = "comment" /\ call[c].id \in 1..(nextId - 1)
    /\ pc[c] = "query" => /\ call[c].op \in {"like", "unlike"}
                          /\ call[c].raced \/ (Liked(c) <=> call[c].op = "like")
    /\ pc[c] = "answered" /\ call[c].status = "ok" /\ call[c].op \in {"like", "unlike"}
         => call[c].raced \/ (call[c].liked <=> call[c].op = "like")
    /\ call[c].status = "unavailable" => call[c].fault

\* A call that reads a page that has not been delivered yet.
Paging(c) == pc[c] \in Pending /\ call[c].op = "comments"

\* One page is read at a time.
OnePage ==
    /\ \A c \in Calls : Paging(c) => walk.state = "asked"
    /\ \A c, d \in Calls : Paging(c) /\ Paging(d) => c = d

\* The id is on one of the pages before the cursor exactly if it has been listed.
Halfway ==
    /\ walk.wanted => walk.id \in comments
    /\ walk.state = "idle" => walk.cursor = 0
    /\ walk.state = "reading" => walk.cursor # 0
    /\ walk.cursor = 0 /\ walk.state # "done" => walk.seen = 0
    /\ walk.cursor # 0 /\ walk.seen # 0 => walk.cursor <= walk.id
    /\ walk.cursor # 0 /\ walk.seen = 0 /\ walk.wanted => walk.id < walk.cursor

IInv ==
    /\ TypeOK /\ Leased /\ OnePage /\ Halfway /\ WalkComplete
    /\ \A c \in Calls : pc[c] # "idle" => Known(c)

=============================================================================
