---------------------- MODULE ArtworkInteractionProofs ----------------------
(***************************************************************************)
(* Proofs about likes and comments, for any number of users, requests,       *)
(* comments and rows of a page.                                               *)
(***************************************************************************)
EXTENDS ArtworkInteraction, FiniteSetTheorems, WellFoundedInduction, TLAPS

-----------------------------------------------------------------------------
(* Pages.                                                                    *)

\* A set of numbers that is not empty has a least one.
LEMMA Least ==
  ASSUME NEW S \in SUBSET Nat, S # {}
  PROVE  \E m \in S : \A j \in S : m <= j
<1>1. PICK m \in S : \A j \in S : ~(<<j, m>> \in OpToRel(<, Nat))
  BY NatLessThanWellFounded, WFMin
<1>2. \A j \in S : ~(j < m)
  BY <1>1 DEF OpToRel
<1> QED
  BY <1>2

\* A bounded one has a greatest one.
LEMMA Greatest ==
  ASSUME NEW S \in SUBSET Nat, S # {}, NEW n \in Nat, \A j \in S : j <= n
  PROVE  \E m \in S : \A j \in S : j <= m
<1> DEFINE B == {k \in Nat : \A j \in S : j <= k}
<1>1. B \in SUBSET Nat /\ n \in B
  OBVIOUS
<1>2. PICK m \in B : \A k \in B : m <= k
  BY <1>1, Least
<1>3. m \in S
  <2> SUFFICES ASSUME m \notin S PROVE FALSE
    OBVIOUS
  <2>1. \A j \in S : j < m
    BY <1>2
  <2>2. PICK j \in S : TRUE
    OBVIOUS
  <2>3. m - 1 \in Nat /\ \A k \in S : k <= m - 1
    BY <1>2, <2>1, <2>2
  <2> QED
    BY <1>2, <2>3
<1> QED
  BY <1>2, <1>3

\* A page has the newest comments before the cursor; a comment before the cursor
\* that is not on it is older than all that are.
LEMMA PageFacts ==
  ASSUME TypeOK, NEW before \in Nat
  PROVE  /\ Page(before) \subseteq comments
         /\ \A i \in Page(before) : before = 0 \/ i < before
         /\ \A i \in comments \ Page(before), j \in Page(before) :
              before = 0 \/ i < before => i < j
         /\ \A i \in comments : before = 0 \/ i < before => Page(before) # {}
<1> DEFINE Older == {i \in comments : before = 0 \/ i < before}
           Newer(i) == {j \in Older : j > i}
<1>1. comments \subseteq Nat /\ nextId - 1 \in Nat /\ \A i \in comments : i <= nextId - 1
  BY DEF TypeOK
<1>2. PageLimit \in Nat \ {0}
  BY PageAssumption
<1>3. \A i \in Nat : IsFiniteSet(Newer(i)) /\ Cardinality(Newer(i)) \in Nat
  <2> TAKE i \in Nat
  <2>1. IsFiniteSet(comments)
    BY <1>1, FS_BoundedSetOfNaturals
  <2>2. Newer(i) \in SUBSET comments
    OBVIOUS
  <2> QED
    BY <2>1, <2>2, FS_Subset, FS_CardinalityType
<1>4. /\ Page(before) \subseteq Older
      /\ \A i \in Older : i \in Page(before) <=> Cardinality(Newer(i)) < PageLimit
  BY DEF Page
<1>5. Older \subseteq Nat /\ \A i \in comments : i \in Older <=> before = 0 \/ i < before
  BY <1>1
<1>6. /\ \A i, j \in Nat : j <= i => Newer(i) \in SUBSET Newer(j)
      /\ \A i \in Nat : (\A j \in Older : j <= i) => Newer(i) = {}
  BY <1>5
<1> HIDE DEF Newer
<1>7. ASSUME NEW i \in comments \ Page(before), NEW j \in Page(before),
             before = 0 \/ i < before
      PROVE  i < j
  <2>1. i \in Nat /\ j \in Nat /\ i \in Older /\ j \in Older
    BY <1>1, <1>4, <1>5, <1>7
  <2> SUFFICES ASSUME j <= i PROVE FALSE
    BY <2>1
  <2>2. ~(Cardinality(Newer(i)) < PageLimit) /\ Cardinality(Newer(j)) < PageLimit
    BY <1>4, <2>1
  <2>3. Cardinality(Newer(i)) <= Cardinality(Newer(j))
    BY <1>3, <1>6, <2>1, FS_Subset
  <2> QED
    BY <1>2, <1>3, <2>1, <2>2, <2>3
<1>8. ASSUME NEW i \in comments, before = 0 \/ i < before
      PROVE  Page(before) # {}
  <2>1. Older \in SUBSET Nat /\ Older # {} /\ \A j \in Older : j <= nextId - 1
    BY <1>1, <1>5, <1>8
  <2>2. PICK m \in Older : \A j \in Older : j <= m
    BY <1>1, <2>1, Greatest
  <2>3. Cardinality(Newer(m)) = 0
    BY <1>6, <2>1, <2>2, FS_EmptySet
  <2> QED
    BY <1>2, <1>4, <2>2, <2>3
<1>9. Page(before) \subseteq comments /\ \A i \in Page(before) : before = 0 \/ i < before
  BY <1>4
<1> QED
  BY <1>7, <1>8, <1>9

\* nextBefore is the oldest comment of the page.
LEMMA NextBeforeFacts ==
  ASSUME NEW page \in SUBSET Nat
  PROVE  /\ page = {} => NextBefore(page) = 0
         /\ page # {} => /\ NextBefore(page) \in page
                         /\ \A j \in page : NextBefore(page) <= j
<1>1. CASE page = {}
  BY <1>1 DEF NextBefore
<1>2. CASE page # {}
  <2>1. \E m \in page : \A j \in page : m <= j
    BY <1>2, Least
  <2> QED
    BY <1>2, <2>1 DEF NextBefore
<1> QED
  BY <1>1, <1>2

-----------------------------------------------------------------------------
(* What the steps of a call change.                                          *)

\* A step of c changes no other call.
Frame(c) ==
    /\ \A d \in Calls : d # c => pc'[d] = pc[d] /\ call'[d] = call[d]
    /\ pc' \in [Calls -> Stages]
    /\ call' \in [Calls -> CallType \cup {None}]
    /\ pc'[c] # "idle" => call'[c] \in CallType

\* c has its answer.
Ended(c) ==
    /\ Frame(c)
    /\ pc'[c] = "answered"
    /\ call'[c].op = call[c].op /\ call'[c].user = call[c].user
    /\ call'[c].late = call[c].late /\ call'[c].raced = call[c].raced
    /\ call'[c].status = "unavailable" => call'[c].fault

\* Three ways to answer: kUnavailable ...
LEMMA FailEnds ==
  ASSUME TypeOK, NEW c \in Calls, call[c] \in CallType, Fail(c)
  PROVE  Ended(c) /\ call'[c].status = "unavailable"
<1>1. call' = [call EXCEPT ![c] = [call[c] EXCEPT !.status = "unavailable", !.fault = TRUE]]
  BY DEF Fail, TypeOK
<1>2. pc' = [pc EXCEPT ![c] = "answered"]
  BY DEF Fail, Goto
<1>3. [call[c] EXCEPT !.status = "unavailable", !.fault = TRUE] \in CallType
  BY DEF CallType
<1> QED
  BY <1>1, <1>2, <1>3 DEF TypeOK, Ended, Frame, CallType, Stages

\* ... a refusal of the service itself ...
LEMMA AnswerEnds ==
  ASSUME TypeOK, NEW c \in Calls, call[c] \in CallType,
         NEW status \in {"unauthorized", "badRequest"}, Answer(c, status)
  PROVE  Ended(c) /\ call'[c].status = status
<1>1. call' = [call EXCEPT ![c] = [call[c] EXCEPT !.status = status]]
  BY DEF Answer, TypeOK
<1>2. pc' = [pc EXCEPT ![c] = "answered"]
  BY DEF Answer, Goto
<1>3. [call[c] EXCEPT !.status = status] \in CallType
  BY DEF CallType
<1> QED
  BY <1>1, <1>2, <1>3 DEF TypeOK, Ended, Frame, CallType, Stages

\* ... and the callback of the DAO.
LEMMA ReplyEnds ==
  ASSUME TypeOK, NEW c \in Calls, call[c] \in CallType, NEW liked \in BOOLEAN, Reply(c, liked)
  PROVE  Ended(c) /\ (call'[c].status = "ok" => (call'[c].liked <=> liked))
<1>1. CASE active
  <2>1. call' = [call EXCEPT ![c] = [call[c] EXCEPT !.status = "ok", !.liked = liked]]
    BY <1>1 DEF Reply, TypeOK
  <2>2. pc' = [pc EXCEPT ![c] = "answered"]
    BY <1>1 DEF Reply, Goto
  <2>3. [call[c] EXCEPT !.status = "ok", !.liked = liked] \in CallType
    BY DEF CallType
  <2> QED
    BY <2>1, <2>2, <2>3 DEF TypeOK, Ended, Frame, CallType, Stages
<1>2. CASE ~active
  BY <1>2, FailEnds DEF Reply
<1> QED
  BY <1>1, <1>2

\* A step that moves c on keeps what the call is about.
LEMMA GotoFrame ==
  ASSUME TypeOK, NEW c \in Calls, call[c] \in CallType, NEW to \in Stages,
         Goto(c, to), UNCHANGED call
  PROVE  Frame(c) /\ pc'[c] = to
BY DEF Goto, TypeOK, Frame

LEMMA FrameType ==
  ASSUME TypeOK, NEW c \in Calls, Frame(c), sessions' \subseteq sessions,
         nextId' \in Nat \ {0}, comments' \subseteq 1..(nextId' - 1),
         life' \in {"valid", "closing", "gone"}, walk' \in WalkType
  PROVE  TypeOK'
BY DEF TypeOK, Frame

\* What is known of a call stays known while it does not move and the likes stay.
LEMMA KnownStays ==
  ASSUME TypeOK, NEW d \in Calls, Known(d), pc'[d] = pc[d], call'[d] = call[d],
         sessions' \subseteq sessions, nextId' \in Nat, nextId <= nextId', UNCHANGED likes
  PROVE  Known(d)'
<1>1. Liked(d)' <=> Liked(d)
  BY DEF Liked
<1>2. \A i : i \in 1..(nextId - 1) => i \in 1..(nextId' - 1)
  BY DEF TypeOK
<1> QED
  BY <1>1, <1>2 DEF Known

\* A call that has its answer is known well, if the answer is true.
LEMMA KnownEnded ==
  ASSUME NEW c \in Calls, Known(c), Ended(c), sessions' \subseteq sessions,
         call'[c].status = "ok" /\ call[c].op \in {"like", "unlike"}
           => call[c].raced \/ (call'[c].liked <=> call[c].op = "like")
  PROVE  Known(c)'
BY DEF Known, Ended, Pending

-----------------------------------------------------------------------------
(* Each call knows what it needs.                                            *)

\* NoWalk, a repeated page and a page that was not delivered are walks.
LEMMA PageFailedType ==
  ASSUME TypeOK, NEW c \in Calls, PageFailed(c)
  PROVE  walk' \in WalkType
<1>1. NoWalk \in WalkType
  BY DEF NoWalk, WalkType
<1>2. [walk EXCEPT !.state = "reading"] \in WalkType
  BY DEF TypeOK, WalkType
<1> QED
  BY <1>1, <1>2 DEF PageFailed, TypeOK

\* A call begins with nothing found and the session it came with.
LEMMA BeginStep ==
  ASSUME IInv, NEW c \in Calls, NEW op \in Ops, NEW u \in Users \cup {None},
         NEW valid \in BOOLEAN, Begin(c, op, u, valid), walk' \in WalkType
  PROVE  /\ TypeOK' /\ Frame(c) /\ pc'[c] \in {"get", "lease"} /\ call'[c].op = op
         /\ \A d \in Calls : pc'[d] # "idle" => Known(d)'
<1> DEFINE new == NewCall(op, u, valid)
<1>1. /\ new \in CallType /\ new.op = op /\ new.user = u /\ new.status = "none"
      /\ new.late <=> u # None /\ u \notin sessions
  BY DEF NewCall, CallType
<1> HIDE DEF new
<1>2. /\ call' = [call EXCEPT ![c] = new]
      /\ pc' = [pc EXCEPT ![c] = IF u = None THEN "lease" ELSE "get"]
      /\ UNCHANGED <<sessions, likes, comments, nextId, life>>
  BY DEF Begin, Goto, new
<1>3. Frame(c) /\ call'[c] = new /\ pc'[c] = IF u = None THEN "lease" ELSE "get"
  BY <1>1, <1>2 DEF IInv, TypeOK, Frame, Stages
<1>4. TypeOK'
  BY <1>2, <1>3, FrameType DEF IInv, TypeOK
<1>5. Known(c)'
  BY <1>1, <1>2, <1>3 DEF Known, Pending
<1>6. ASSUME NEW d \in Calls, d # c, pc'[d] # "idle" PROVE Known(d)'
  <2>1. pc'[d] = pc[d] /\ call'[d] = call[d] /\ Known(d)
    BY <1>3, <1>6 DEF IInv, Frame
  <2> QED
    BY <1>2, <2>1, KnownStays DEF IInv, TypeOK
<1> QED
  BY <1>1, <1>3, <1>4, <1>5, <1>6

\* A step of c that moves it on, or ends it.
LEMMA StepKnown ==
  ASSUME IInv, NEW c \in Calls, pc[c] # "idle", Frame(c), Known(c)',
         UNCHANGED <<sessions, likes, life>>, nextId' \in Nat \ {0}, nextId <= nextId',
         comments' \subseteq 1..(nextId' - 1), walk' \in WalkType
  PROVE  TypeOK' /\ \A d \in Calls : pc'[d] # "idle" => Known(d)'
<1>1. TypeOK'
  BY FrameType DEF IInv, TypeOK
<1>2. ASSUME NEW d \in Calls, d # c, pc'[d] # "idle" PROVE Known(d)'
  <2>1. pc'[d] = pc[d] /\ call'[d] = call[d] /\ Known(d)
    BY <1>2 DEF IInv, Frame
  <2> QED
    BY <2>1, KnownStays DEF IInv
<1> QED
  BY <1>1, <1>2

\* Authenticate and DaoCallLease: only a session that is active leads on.
LEMMA EnterKnown ==
  ASSUME IInv, NEW c \in Calls, Authenticate(c) \/ DaoCallLease(c) \/ CallDao(c)
  PROVE  TypeOK' /\ \A d \in Calls : pc'[d] # "idle" => Known(d)'
<1>1. /\ pc[c] \in {"get", "lease", "dao"} /\ call[c] \in CallType /\ Known(c) /\ TypeOK
      /\ UNCHANGED <<sessions, likes, comments, nextId, life>>
      /\ nextId \in Nat \ {0} /\ comments \subseteq 1..(nextId - 1)
  BY DEF Authenticate, DaoCallLease, CallDao, IInv, TypeOK
<1>2. walk' \in WalkType
  BY PageFailedType DEF Authenticate, DaoCallLease, CallDao, IInv, TypeOK
<1>3. Frame(c) /\ Known(c)'
  <2>1. CASE Fail(c)
    BY <1>1, <2>1, FailEnds, KnownEnded DEF Ended
  <2>2. CASE \E status \in {"unauthorized", "badRequest"} : Answer(c, status)
    BY <1>1, <2>2, AnswerEnds, KnownEnded DEF Ended
  <2>3. CASE pc[c] = "get" /\ Authorised(call[c].user) /\ Goto(c, "lease") /\ UNCHANGED call
    <3>1. Frame(c) /\ pc'[c] = "lease" /\ call'[c] = call[c]
      BY <1>1, <2>3, GotoFrame DEF Stages
    <3>2. ~call[c].late
      BY <1>1, <2>3 DEF Known, Authorised
    <3> QED
      BY <1>1, <3>1, <3>2 DEF Known
  <2>4. CASE \E to \in {"dao", "task"} : pc[c] # "get" /\ Goto(c, to) /\ UNCHANGED call
    <3>1. PICK to \in {"dao", "task"} : Goto(c, to) /\ pc[c] # "get" /\ UNCHANGED call
      BY <2>4
    <3>2. Frame(c) /\ pc'[c] = to /\ call'[c] = call[c]
      BY <1>1, <3>1, GotoFrame DEF Stages
    <3>3. ~call[c].late
      BY <1>1, <3>1 DEF Known, Pending, Stages
    <3> QED
      BY <1>1, <3>2, <3>3 DEF Known
  <2> QED
    BY <2>1, <2>2, <2>3, <2>4 DEF Authenticate, DaoCallLease, CallDao
<1> QED
  BY <1>1, <1>2, <1>3, StepKnown

\* The tasks that do not touch the likes.
LEMMA TaskKnown ==
  ASSUME IInv, NEW c \in Calls,
         QuerySummary(c) \/ InsertComment(c) \/ CommitComment(c) \/ ListComments(c)
  PROVE  TypeOK' /\ \A d \in Calls : pc'[d] # "idle" => Known(d)'
<1>1. /\ pc[c] \in {"task", "insert", "query"} /\ call[c] \in CallType /\ Known(c) /\ TypeOK
      /\ UNCHANGED <<sessions, likes, life>>
      /\ nextId \in Nat \ {0} /\ comments \subseteq 1..(nextId - 1)
  BY DEF QuerySummary, InsertComment, CommitComment, ListComments, IInv, TypeOK
<1>2. walk' \in WalkType
  <2>1. CASE UNCHANGED walk
    BY <1>1, <2>1 DEF TypeOK
  <2>2. CASE PageFailed(c)
    BY <1>1, <2>2, PageFailedType
  <2>3. CASE walk' = LET page == Page(walk.cursor)
                     IN  [walk EXCEPT !.seen = @ + IF walk.id \in page THEN 1 ELSE 0,
                                      !.cursor = NextBefore(page),
                                      !.state = IF page = {} THEN "done" ELSE "reading"]
    <3> DEFINE page == Page(walk.cursor)
    <3>1. walk.cursor \in Nat /\ comments \subseteq Nat
      BY <1>1 DEF TypeOK, WalkType
    <3>2. page \in SUBSET Nat
      BY <1>1, <3>1, PageFacts
    <3> HIDE DEF page
    <3>3. NextBefore(page) \in page \/ NextBefore(page) = 0
      BY <3>2, NextBeforeFacts
    <3>4. walk' = [walk EXCEPT !.seen = @ + IF walk.id \in page THEN 1 ELSE 0,
                               !.cursor = NextBefore(page),
                               !.state = IF page = {} THEN "done" ELSE "reading"]
      BY <2>3 DEF page
    <3>5. NextBefore(page) \in Nat
      <4>1. page \subseteq Nat /\ 0 \in Nat
        BY <3>2
      <4> QED
        BY <3>3, <4>1, Zenon
    <3>6. \E n \in Nat, st \in {"done", "reading"} :
            walk' = [walk EXCEPT !.seen = n, !.cursor = NextBefore(page), !.state = st]
      <4>1. walk.seen + (IF walk.id \in page THEN 1 ELSE 0) \in Nat
        BY <1>1 DEF TypeOK, WalkType
      <4> QED
        BY <3>4, <4>1
    <3> QED
      BY <1>1, <3>5, <3>6 DEF TypeOK, WalkType
  <2> QED
    BY <2>1, <2>2, <2>3 DEF QuerySummary, InsertComment, CommitComment, ListComments
<1>3. /\ nextId' \in Nat \ {0} /\ nextId <= nextId'
      /\ comments' \subseteq 1..(nextId' - 1)
  <2>1. CASE InsertComment(c)
    BY <1>1, <2>1 DEF InsertComment
  <2>2. CASE CommitComment(c)
    <3>1. nextId' = nextId /\ (comments' = comments \/ comments' = comments \cup {call[c].id})
      BY <2>2 DEF CommitComment
    <3>2. call[c].id \in 1..(nextId - 1)
      BY <1>1, <2>2 DEF CommitComment, Known
    <3>3. comments' \subseteq 1..(nextId - 1)
      BY <1>1, <3>1, <3>2, Zenon
    <3> QED
      BY <1>1, <3>1, <3>3
  <2>3. CASE QuerySummary(c) \/ ListComments(c)
    <3>1. nextId' = nextId /\ comments' = comments
      BY <2>3 DEF QuerySummary, ListComments
    <3> QED
      BY <1>1, <3>1
  <2> QED
    BY <2>1, <2>2, <2>3
<1>4. Frame(c) /\ Known(c)'
  <2>1. CASE Fail(c)
    BY <1>1, <2>1, FailEnds, KnownEnded DEF Ended
  <2>2. CASE QuerySummary(c) /\ Reply(c, Liked(c))
    <3>1. Liked(c) \in BOOLEAN
      BY DEF Liked
    <3>2. Ended(c) /\ (call'[c].status = "ok" => (call'[c].liked <=> Liked(c)))
      BY <1>1, <2>2, <3>1, ReplyEnds
    <3>3. call[c].op \in {"like", "unlike"} =>
            call[c].raced \/ (Liked(c) <=> call[c].op = "like")
      BY <1>1, <2>2 DEF QuerySummary, Known
    <3> QED
      BY <1>1, <3>2, <3>3, KnownEnded DEF Ended
  <2>3. CASE (CommitComment(c) \/ ListComments(c)) /\ Reply(c, FALSE)
    <3>1. Ended(c)
      BY <1>1, <2>3, ReplyEnds
    <3>2. call[c].op \notin {"like", "unlike"}
      BY <1>1, <2>3 DEF CommitComment, ListComments, Known
    <3> QED
      BY <1>1, <3>1, <3>2, KnownEnded DEF Ended
  <2>4. CASE InsertComment(c) /\ ~Fail(c)
    <3>1. /\ pc' = [pc EXCEPT ![c] = "insert"] /\ pc[c] = "task" /\ call[c].op = "comment"
          /\ call' = [call EXCEPT ![c] = [call[c] EXCEPT !.id = nextId]]
          /\ nextId' = nextId + 1
      BY <1>1, <2>4 DEF InsertComment, Goto, TypeOK
    <3>2. [call[c] EXCEPT !.id = nextId] \in CallType
      BY <1>1 DEF CallType
    <3>3. Frame(c)
      BY <1>1, <3>1, <3>2 DEF TypeOK, Frame, Stages
    <3>4. /\ pc'[c] = "insert" /\ call'[c].op = "comment" /\ call'[c].id = nextId
          /\ call'[c].late = call[c].late /\ call'[c].user = call[c].user
          /\ call'[c].status = call[c].status /\ call'[c].fault = call[c].fault
          /\ nextId \in 1..(nextId' - 1)
      BY <1>1, <3>1, <3>2 DEF TypeOK, CallType
    <3>5. ~call[c].late
      BY <1>1, <3>1 DEF Known, Pending, Stages
    <3> QED
      BY <1>1, <3>3, <3>4, <3>5 DEF Known
  <2> QED
    BY <2>1, <2>2, <2>3, <2>4 DEF QuerySummary, CommitComment, ListComments
<1> QED
  BY <1>1, <1>2, <1>3, <1>4, StepKnown

\* changeLike: a like or unlike of the same user that is under way has been raced;
\* the rows of other users stay.
LEMMA LikeKnown ==
  ASSUME IInv, NEW c \in Calls, ChangeLike(c)
  PROVE  TypeOK' /\ \A d \in Calls : pc'[d] # "idle" => Known(d)'
<1>1. /\ pc[c] = "task" /\ call[c].op \in {"like", "unlike"}
      /\ call[c] \in CallType /\ Known(c) /\ TypeOK
      /\ UNCHANGED <<sessions, life, comments, nextId, walk>>
      /\ nextId \in Nat \ {0} /\ comments \subseteq 1..(nextId - 1)
      /\ walk' \in WalkType
  BY DEF ChangeLike, IInv, TypeOK
<1>2. CASE Fail(c) /\ UNCHANGED likes
  <2>1. Frame(c) /\ Known(c)'
    BY <1>1, <1>2, FailEnds, KnownEnded DEF Ended
  <2> QED
    BY <1>1, <1>2, <2>1, StepKnown
<1>3. ASSUME NEW ok \in BOOLEAN,
             likes' = IF call[c].op = "like" THEN likes \cup {call[c].user}
                                             ELSE likes \ {call[c].user},
             Goto(c, IF ok THEN "query" ELSE "answered"),
             call' = [d \in Calls |->
                        IF d \in Rivals(c) THEN [call[d] EXCEPT !.raced = TRUE]
                        ELSE IF d = c /\ ~ok
                             THEN [call[d] EXCEPT !.status = "unavailable", !.fault = TRUE]
                        ELSE call[d]]
      PROVE  TypeOK' /\ \A d \in Calls : pc'[d] # "idle" => Known(d)'
  <2>1. /\ \A d \in Calls : d # c => pc'[d] = pc[d]
        /\ pc'[c] = IF ok THEN "query" ELSE "answered"
        /\ pc' \in [Calls -> Stages]
    BY <1>1, <1>3 DEF Goto, TypeOK, Stages
  <2>2. c \notin Rivals(c) /\ \A d \in Rivals(c) : d \in Calls /\ d # c /\ pc[d] \in Pending
    BY DEF Rivals
  <2>3. ASSUME NEW d \in Rivals(c)
        PROVE  /\ call'[d] \in CallType /\ call'[d].raced
               /\ call'[d].op = call[d].op /\ call'[d].user = call[d].user
               /\ call'[d].late = call[d].late /\ call'[d].id = call[d].id
               /\ call'[d].status = call[d].status /\ call'[d].fault = call[d].fault
    <3>1. call'[d] = [call[d] EXCEPT !.raced = TRUE] /\ call[d] \in CallType
      BY <1>1, <1>3, <2>2 DEF TypeOK, Pending
    <3> QED
      BY <3>1 DEF CallType
  <2>4. ASSUME NEW d \in Calls \ Rivals(c), d # c
        PROVE  call'[d] = call[d]
    BY <1>3, <2>4
  <2>5. ok => call'[c] = call[c]
    BY <1>3, <2>2
  <2>6. ~ok => /\ call'[c] \in CallType
               /\ call'[c].status = "unavailable" /\ call'[c].fault
               /\ call'[c].op = call[c].op /\ call'[c].user = call[c].user
               /\ call'[c].late = call[c].late
    <3> SUFFICES ASSUME ~ok
                 PROVE  /\ call'[c] \in CallType
                        /\ call'[c].status = "unavailable" /\ call'[c].fault
                        /\ call'[c].op = call[c].op /\ call'[c].user = call[c].user
                        /\ call'[c].late = call[c].late
      OBVIOUS
    <3>1. call'[c] = [call[c] EXCEPT !.status = "unavailable", !.fault = TRUE]
      BY <1>3, <2>2
    <3> QED
      BY <1>1, <3>1 DEF CallType
  <2>7. TypeOK'
    <3>1. \A d \in Calls : call'[d] \in CallType \cup {None}
      BY <1>1, <2>3, <2>4, <2>5, <2>6 DEF TypeOK
    <3>2. call' \in [Calls -> CallType \cup {None}]
      BY <1>3, <3>1
    <3>3. \A d \in Calls : pc'[d] # "idle" => call'[d] \in CallType
      BY <1>1, <2>1, <2>3, <2>4, <2>5, <2>6 DEF TypeOK
    <3> QED
      BY <1>1, <2>1, <3>2, <3>3 DEF TypeOK
  <2>8. Known(c)'
    <3>1. CASE ok
      <4>1. Liked(c)' <=> call[c].op = "like"
        BY <1>1, <1>3, <2>5, <3>1 DEF Liked
      <4>2. ~call[c].late
        BY <1>1 DEF Known, Pending, Stages
      <4> QED
        BY <1>1, <2>1, <2>5, <3>1, <4>1, <4>2 DEF Known
    <3>2. CASE ~ok
      BY <1>1, <2>1, <2>6, <3>2 DEF Known, Pending
    <3> QED
      BY <3>1, <3>2
  <2>9. ASSUME NEW d \in Calls, d # c, pc'[d] # "idle" PROVE Known(d)'
    <3>1. pc'[d] = pc[d] /\ Known(d)
      BY <2>1, <2>9 DEF IInv
    <3>2. CASE d \in Rivals(c)
      BY <1>1, <2>3, <3>1, <3>2 DEF Known
    <3>3. CASE d \notin Rivals(c)
      <4>1. call'[d] = call[d]
        BY <2>4, <2>9, <3>3
      <4>2. pc[d] = "query" => call[d].user # call[c].user
        BY <2>9, <3>1, <3>3 DEF Rivals, Known, Pending, Stages
      <4>3. pc[d] = "query" => (Liked(d)' <=> Liked(d))
        <5>1. \A x : x # call[c].user => (x \in likes' <=> x \in likes)
          BY <1>3
        <5> QED
          BY <4>1, <4>2, <5>1 DEF Liked
      <4> QED
        BY <1>1, <3>1, <4>1, <4>3 DEF Known
    <3> QED
      BY <3>2, <3>3
  <2> QED
    BY <2>7, <2>8, <2>9
<1>4. ~(Duplicate(c) /\ ~duplicateIsSuccess(call[c].op))
  BY DEF Duplicate, duplicateIsSuccess
<1> QED
  BY <1>2, <1>3, <1>4 DEF ChangeLike

\* A walk that begins follows some id.
LEMMA FirstPage ==
  ASSUME \E i \in Ids : walk' = [NoWalk EXCEPT !.state = "asked", !.id = i,
                                               !.wanted = i \in comments]
  PROVE  \E i \in Nat, b \in BOOLEAN :
            /\ b => i \in comments
            /\ walk' = [state |-> "asked", cursor |-> 0, id |-> i, wanted |-> b, seen |-> 0]
<1>1. PICK i \in Ids : walk' = [NoWalk EXCEPT !.state = "asked", !.id = i,
                                             !.wanted = i \in comments]
  OBVIOUS
<1>2. i \in Nat
  BY PageAssumption DEF Ids
<1>3. CASE i \in comments
  BY <1>1, <1>2, <1>3 DEF NoWalk
<1>4. CASE i \notin comments
  <2>1. (i \in comments) = FALSE
    BY <1>4
  <2>2. walk' = [NoWalk EXCEPT !.state = "asked", !.id = i, !.wanted = FALSE]
    BY <1>1, <2>1, Zenon
  <2>3. walk' = [state |-> "asked", cursor |-> 0, id |-> i, wanted |-> FALSE, seen |-> 0]
    BY <2>2 DEF NoWalk
  <2> QED
    BY <1>2, <2>3
<1> QED
  BY <1>3, <1>4

\* Every step keeps the types, and what each call knows.
LEMMA TypeKnownStep ==
  ASSUME IInv, [Next]_vars
  PROVE  TypeOK' /\ \A d \in Calls : pc'[d] # "idle" => Known(d)'
<1>1. ASSUME NEW c \in Calls, Request(c)
      PROVE  TypeOK' /\ \A d \in Calls : pc'[d] # "idle" => Known(d)'
  <2>1. walk' \in WalkType
    BY <1>1 DEF Request, IInv, TypeOK
  <2> QED
    BY <1>1, <2>1, BeginStep DEF Request, Ops
<1>2. ASSUME NEW c \in Calls, RequestPage(c)
      PROVE  TypeOK' /\ \A d \in Calls : pc'[d] # "idle" => Known(d)'
  <2>1. walk' \in WalkType
    <3>1. walk \in WalkType
      BY DEF IInv, TypeOK
    <3>2. CASE walk.cursor # 0
      BY <1>2, <3>1, <3>2 DEF RequestPage, WalkType
    <3>3. CASE walk.cursor = 0
      <4>1. \E i \in Nat, b \in BOOLEAN :
              walk' = [state |-> "asked", cursor |-> 0, id |-> i, wanted |-> b, seen |-> 0]
        BY <1>2, <3>3, FirstPage DEF RequestPage
      <4> QED
        BY <4>1 DEF WalkType
    <3> QED
      BY <3>2, <3>3
  <2> QED
    BY <1>2, <2>1, BeginStep DEF RequestPage, Ops
<1>3. ASSUME NEW c \in Calls, Step(c)
      PROVE  TypeOK' /\ \A d \in Calls : pc'[d] # "idle" => Known(d)'
  BY <1>3, EnterKnown, LikeKnown, TaskKnown DEF Step
<1>4. ASSUME NEW c \in Calls, Receive(c)
      PROVE  TypeOK' /\ \A d \in Calls : pc'[d] # "idle" => Known(d)'
  <2>1. pc' = [pc EXCEPT ![c] = "idle"] /\ call' = [call EXCEPT ![c] = None]
    BY <1>4 DEF Receive, Goto
  <2>2. Frame(c) /\ pc'[c] = "idle"
    BY <2>1 DEF Frame, IInv, TypeOK, Stages
  <2>3. NoWalk \in WalkType
    BY DEF NoWalk, WalkType
  <2>4. TypeOK'
    BY <1>4, <2>2, <2>3, FrameType DEF Receive, IInv, TypeOK
  <2>5. ASSUME NEW d \in Calls, pc'[d] # "idle" PROVE Known(d)'
    <3>1. pc'[d] = pc[d] /\ call'[d] = call[d] /\ Known(d)
      BY <2>2, <2>5 DEF Frame, IInv
    <3> QED
      BY <1>4, <3>1, KnownStays DEF Receive, IInv, TypeOK
  <2> QED
    BY <2>4, <2>5
<1>5. CASE \/ \E c \in Calls : ReleaseLease(c)
           \/ \E u \in Users : Logout(u)
           \/ Destroy \/ Drain \/ Stopped \/ UNCHANGED vars
  <2>1. /\ UNCHANGED <<likes, comments, nextId, pc, call, walk>> /\ sessions' \subseteq sessions
        /\ life' \in {"valid", "closing", "gone"}
    BY <1>5 DEF ReleaseLease, Logout, Destroy, Drain, Stopped, vars, IInv, TypeOK
  <2>2. TypeOK'
    BY <2>1 DEF IInv, TypeOK
  <2>3. ASSUME NEW d \in Calls, pc'[d] # "idle" PROVE Known(d)'
    BY <2>1, <2>3, KnownStays DEF IInv, TypeOK
  <2> QED
    BY <2>2, <2>3
<1> QED
  BY <1>1, <1>2, <1>3, <1>4, <1>5 DEF Next

-----------------------------------------------------------------------------
(* The leases.                                                               *)

\* A call gets its lease when it goes to the DAO, and there only.
LEMMA StepMoves ==
  ASSUME NEW c \in Calls, Step(c)
  PROVE  /\ UNCHANGED life /\ pc[c] \in Pending
         /\ \/ /\ pc[c] = "lease" /\ active /\ Goto(c, "dao")
               /\ leases' = leases \cup {c} /\ activeCalls' = activeCalls + 1
            \/ /\ UNCHANGED <<leases, activeCalls>>
               /\ \/ pc[c] = "get" /\ Goto(c, "lease")
                  \/ \E to \in {"task", "query", "insert", "answered"} : Goto(c, to)
<1> USE DEF Fail, Answer, Reply, Pending, Stages
<1>1. CASE Authenticate(c)
  BY <1>1 DEF Authenticate
<1>2. CASE DaoCallLease(c)
  BY <1>2 DEF DaoCallLease
<1>3. CASE CallDao(c)
  BY <1>3 DEF CallDao
<1>4. CASE ChangeLike(c)
  <2>1. \E to \in {"query", "answered"} : Goto(c, to)
    BY <1>4 DEF ChangeLike
  <2> QED
    BY <1>4, <2>1 DEF ChangeLike
<1>5. CASE QuerySummary(c)
  BY <1>5 DEF QuerySummary
<1>6. CASE InsertComment(c)
  BY <1>6 DEF InsertComment
<1>7. CASE CommitComment(c)
  BY <1>7 DEF CommitComment
<1>8. CASE ListComments(c)
  BY <1>8 DEF ListComments
<1> QED
  BY <1>1, <1>2, <1>3, <1>4, <1>5, <1>6, <1>7, <1>8 DEF Step

\* activeCalls counts the leases through every step.
LEMMA LeasedStep ==
  ASSUME IInv, [Next]_vars, TypeOK'
  PROVE  Leased'
<1>1. /\ pc \in [Calls -> Stages] /\ leases \subseteq Calls /\ IsFiniteSet(leases)
      /\ activeCalls = Cardinality(leases) /\ Cardinality(leases) \in Nat
      /\ \A c \in Calls : pc[c] \in {"get", "lease"} => c \notin leases
      /\ \A c \in Calls : pc[c] = "dao" => c \in leases
      /\ life = "gone" => leases = {}
  BY FS_CardinalityType DEF IInv, TypeOK, Leased
<1>2. ASSUME NEW c \in Calls, UNCHANGED <<leases, activeCalls, life>>,
             NEW to \in {"get", "lease", "task", "query", "insert", "answered", "idle"},
             Goto(c, to), to \in {"get", "lease"} => c \notin leases
      PROVE  Leased'
  <2>1. \A d \in Calls : pc'[d] = IF d = c THEN to ELSE pc[d]
    BY <1>1, <1>2 DEF Goto
  <2> QED
    BY <1>1, <1>2, <2>1 DEF Leased
<1>3. ASSUME NEW c \in Calls, Request(c) \/ RequestPage(c) PROVE Leased'
  <2>1. /\ c \notin leases /\ UNCHANGED <<leases, activeCalls, life>>
        /\ \E to \in {"get", "lease"} : Goto(c, to)
    BY <1>3 DEF Request, RequestPage, Begin
  <2> QED
    BY <1>2, <2>1
<1>4. ASSUME NEW c \in Calls, Step(c) PROVE Leased'
  <2>1. CASE /\ pc[c] = "lease" /\ active /\ Goto(c, "dao")
             /\ leases' = leases \cup {c} /\ activeCalls' = activeCalls + 1
    <3>1. \A d \in Calls : pc'[d] = IF d = c THEN "dao" ELSE pc[d]
      BY <1>1, <2>1 DEF Goto
    <3>2. c \notin leases
      BY <1>1, <2>1
    <3>3. IsFiniteSet(leases') /\ activeCalls' = Cardinality(leases')
      BY <1>1, <2>1, <3>2, FS_AddElement
    <3>4. life' = "valid"
      BY <1>4, <2>1, StepMoves DEF active
    <3> QED
      BY <1>1, <2>1, <3>1, <3>3, <3>4 DEF Leased
  <2>2. CASE /\ UNCHANGED <<leases, activeCalls>>
             /\ pc[c] = "get" /\ Goto(c, "lease")
    <3>1. c \notin leases /\ UNCHANGED life
      BY <1>1, <1>4, <2>2, StepMoves
    <3> QED
      BY <1>2, <2>2, <3>1
  <2>3. CASE /\ UNCHANGED <<leases, activeCalls>>
             /\ \E to \in {"task", "query", "insert", "answered"} : Goto(c, to)
    <3>1. UNCHANGED life
      BY <1>4, StepMoves
    <3> QED
      BY <1>2, <2>3, <3>1
  <2> QED
    BY <1>4, <2>1, <2>2, <2>3, StepMoves
<1>5. ASSUME NEW c \in Calls, ReleaseLease(c) PROVE Leased'
  <2>1. /\ c \in leases /\ pc[c] # "dao" /\ leases' = leases \ {c}
        /\ activeCalls' = activeCalls - 1 /\ UNCHANGED <<life, pc>>
    BY <1>5 DEF ReleaseLease
  <2>2. IsFiniteSet(leases') /\ activeCalls' = Cardinality(leases')
    BY <1>1, <2>1, FS_RemoveElement
  <2> QED
    BY <1>1, <2>1, <2>2 DEF Leased
<1>6. ASSUME NEW c \in Calls, Receive(c) PROVE Leased'
  BY <1>2, <1>6 DEF Receive
<1>7. CASE Drain
  <2>1. leases = {}
    BY <1>1, <1>7, FS_EmptySet DEF Drain
  <2> QED
    BY <1>1, <1>7, <2>1 DEF Drain, Leased
<1>8. CASE (\E u \in Users : Logout(u)) \/ Destroy \/ Stopped \/ UNCHANGED vars
  <2>1. UNCHANGED <<leases, activeCalls, pc>> /\ (life' = "gone" => life = "gone")
    BY <1>8 DEF Logout, Destroy, Stopped, vars
  <2> QED
    BY <1>1, <2>1 DEF Leased
<1> QED
  BY <1>3, <1>4, <1>5, <1>6, <1>7, <1>8 DEF Next

-----------------------------------------------------------------------------
(* The client that reads the comments.                                       *)

\* A step of a call changes neither what it is about nor that of another.
LEMMA StepKeepsOp ==
  ASSUME TypeOK, NEW c \in Calls, Step(c)
  PROVE  \A d \in Calls : call'[d].op = call[d].op
<1>1. pc[c] \in Pending /\ call[c] \in CallType
  BY StepMoves DEF TypeOK, Pending
<1>2. CASE Fail(c) \/ (\E status : Answer(c, status)) \/ (\E liked : Reply(c, liked))
           \/ UNCHANGED call \/ call' = [call EXCEPT ![c].id = nextId]
  BY <1>1, <1>2 DEF Fail, Answer, Reply, TypeOK, CallType
<1>3. CASE \E ok \in BOOLEAN :
             call' = [d \in Calls |->
                        IF d \in Rivals(c) THEN [call[d] EXCEPT !.raced = TRUE]
                        ELSE IF d = c /\ ~ok
                             THEN [call[d] EXCEPT !.status = "unavailable", !.fault = TRUE]
                        ELSE call[d]]
  <2>1. \A d \in Rivals(c) : call[d] \in CallType
    BY DEF Rivals, TypeOK, Pending
  <2>2. ASSUME NEW d \in Calls PROVE call'[d].op = call[d].op
    <3>1. \/ call'[d] = [call[d] EXCEPT !.raced = TRUE] /\ d \in Rivals(c)
          \/ call'[d] = [call[d] EXCEPT !.status = "unavailable", !.fault = TRUE] /\ d = c
          \/ call'[d] = call[d]
      BY <1>3
    <3>2. CASE call'[d] = [call[d] EXCEPT !.raced = TRUE] /\ d \in Rivals(c)
      <4>1. call[d] \in CallType
        BY <2>1, <3>2
      <4> QED
        BY <3>2, <4>1 DEF CallType
    <3>3. CASE call'[d] = [call[d] EXCEPT !.status = "unavailable", !.fault = TRUE] /\ d = c
      BY <1>1, <3>3 DEF CallType
    <3> QED
      BY <3>1, <3>2, <3>3
  <2> QED
    BY <2>2
<1> QED
  BY <1>2, <1>3 DEF Step, Authenticate, DaoCallLease, CallDao, ChangeLike, QuerySummary,
                    InsertComment, CommitComment, ListComments

\* A step of a call leaves the walk alone, or gives up its page, or delivers it.
LEMMA StepWalks ==
  ASSUME NEW c \in Calls, Step(c)
  PROVE  /\ comments \subseteq comments'
         /\ \/ UNCHANGED walk
            \/ Goto(c, "answered") /\ PageFailed(c) /\ UNCHANGED comments
            \/ ListComments(c) /\ active /\ Reply(c, FALSE)
<1> USE DEF Fail
<1>1. CASE Authenticate(c)
  BY <1>1 DEF Authenticate
<1>2. CASE DaoCallLease(c)
  BY <1>2 DEF DaoCallLease
<1>3. CASE CallDao(c)
  BY <1>3 DEF CallDao
<1>4. CASE ChangeLike(c)
  BY <1>4 DEF ChangeLike
<1>5. CASE QuerySummary(c)
  BY <1>5 DEF QuerySummary
<1>6. CASE InsertComment(c)
  BY <1>6 DEF InsertComment
<1>7. CASE CommitComment(c)
  BY <1>7 DEF CommitComment
<1>8. CASE ListComments(c)
  BY <1>8 DEF ListComments
<1> QED
  BY <1>1, <1>2, <1>3, <1>4, <1>5, <1>6, <1>7, <1>8 DEF Step

\* A page that is delivered: what was listed before is not listed again, as it is
\* not before the cursor, and what is still wanted is on the page or before it.
LEMMA DeliverPage ==
  ASSUME IInv, walk.state = "asked",
         walk' = LET page == Page(walk.cursor)
                 IN  [walk EXCEPT !.seen = @ + IF walk.id \in page THEN 1 ELSE 0,
                                  !.cursor = NextBefore(page),
                                  !.state = IF page = {} THEN "done" ELSE "reading"],
         UNCHANGED comments
  PROVE  Halfway' /\ WalkComplete'
<1> DEFINE page == Page(walk.cursor)
           next == NextBefore(page)
<1>1. /\ walk.cursor \in Nat /\ walk.id \in Nat /\ walk.seen \in {0, 1}
      /\ walk \in WalkType /\ comments \subseteq Nat /\ 0 \notin comments
  BY DEF IInv, TypeOK, WalkType, WalkComplete
<1>2. /\ page \subseteq comments
      /\ \A i \in page : walk.cursor = 0 \/ i < walk.cursor
      /\ \A i \in comments \ page, j \in page : walk.cursor = 0 \/ i < walk.cursor => i < j
      /\ \A i \in comments : walk.cursor = 0 \/ i < walk.cursor => page # {}
  BY <1>1, PageFacts DEF IInv
<1> HIDE DEF page
<1>3. /\ page = {} => next = 0
      /\ page # {} => next \in page /\ \A j \in page : next <= j
  <2>1. page \in SUBSET Nat
    BY <1>1, <1>2
  <2> QED
    BY <2>1, NextBeforeFacts
<1> HIDE DEF next
<1>4. /\ walk'.cursor = next /\ walk'.id = walk.id /\ walk'.wanted = walk.wanted
      /\ walk'.state = IF page = {} THEN "done" ELSE "reading"
      /\ walk.id \in page => walk'.seen = walk.seen + 1
      /\ walk.id \notin page => walk'.seen = walk.seen
  <2>1. walk' = [walk EXCEPT !.seen = @ + IF walk.id \in page THEN 1 ELSE 0,
                             !.cursor = next,
                             !.state = IF page = {} THEN "done" ELSE "reading"]
    BY DEF page, next
  <2>2. walk'.seen = walk.seen + IF walk.id \in page THEN 1 ELSE 0
    BY <1>1, <2>1 DEF WalkType
  <2>3. /\ walk'.cursor = next /\ walk'.id = walk.id /\ walk'.wanted = walk.wanted
        /\ walk'.state = IF page = {} THEN "done" ELSE "reading"
    BY <1>1, <2>1 DEF WalkType
  <2> QED
    BY <1>1, <2>2, <2>3
<1>5. /\ walk.wanted => walk.id \in comments
      /\ walk.cursor = 0 => walk.seen = 0
      /\ walk.cursor # 0 /\ walk.seen # 0 => walk.cursor <= walk.id
      /\ walk.cursor # 0 /\ walk.seen = 0 /\ walk.wanted => walk.id < walk.cursor
  BY DEF IInv, Halfway
<1>6. page # {} => next # 0 /\ next \in Nat
  BY <1>1, <1>2, <1>3
<1>7. walk.seen = 1 => walk.id \notin page /\ (page # {} => next <= walk.id)
  BY <1>1, <1>2, <1>3, <1>5, <1>6
<1>8. walk.seen = 0 /\ walk.wanted /\ walk.id \notin page => page # {} /\ walk.id < next
  BY <1>1, <1>2, <1>3, <1>5
<1>9. walk'.seen \in {0, 1}
  BY <1>1, <1>4, <1>7
<1>10. walk'.seen # 0 /\ page # {} => next <= walk.id
  BY <1>1, <1>3, <1>4, <1>7
<1>11. walk'.seen = 0 /\ walk.wanted => page # {} /\ walk.id < next
  BY <1>1, <1>4, <1>8
<1>12. Halfway'
  BY <1>3, <1>4, <1>5, <1>6, <1>10, <1>11 DEF Halfway
<1>13. WalkComplete'
  BY <1>4, <1>9, <1>11 DEF WalkComplete
<1> QED
  BY <1>12, <1>13

\* Every step of the system keeps the walk complete.
LEMMA WalkStep ==
  ASSUME IInv, [Next]_vars, TypeOK'
  PROVE  OnePage' /\ Halfway' /\ WalkComplete'
<1>1. /\ pc \in [Calls -> Stages] /\ walk \in WalkType /\ TypeOK
      /\ OnePage /\ Halfway /\ WalkComplete
  BY DEF IInv, TypeOK
<1>2. ASSUME UNCHANGED walk, comments \subseteq comments',
             \A d \in Calls : Paging(d)' => Paging(d)
      PROVE  OnePage' /\ Halfway' /\ WalkComplete'
  BY <1>1, <1>2 DEF OnePage, Halfway, WalkComplete
<1>3. NoWalk.state = "idle" /\ NoWalk.cursor = 0 /\ NoWalk.seen = 0 /\ ~NoWalk.wanted
  BY DEF NoWalk
<1>4. ASSUME walk' = NoWalk, \A d \in Calls : ~Paging(d)'
      PROVE  OnePage' /\ Halfway' /\ WalkComplete'
  BY <1>3, <1>4 DEF OnePage, Halfway, WalkComplete
<1>5. ASSUME NEW c \in Calls, Request(c) PROVE OnePage' /\ Halfway' /\ WalkComplete'
  <2>1. PICK op \in Ops \ {"comments"}, u \in Users \cup {None}, valid \in BOOLEAN :
          Begin(c, op, u, valid)
    BY <1>5 DEF Request, Ops
  <2>2. UNCHANGED <<walk, comments>>
    BY <1>5, <2>1 DEF Request, Begin
  <2>3. Frame(c) /\ call'[c].op = op
    BY <1>1, <2>1, <2>2, BeginStep
  <2>4. \A d \in Calls : Paging(d)' => Paging(d)
    BY <2>3 DEF Frame, Paging
  <2> QED
    BY <1>2, <2>2, <2>4
<1>6. ASSUME NEW c \in Calls, RequestPage(c) PROVE OnePage' /\ Halfway' /\ WalkComplete'
  <2>1. /\ walk.state \in {"idle", "reading"} /\ Begin(c, "comments", None, TRUE)
        /\ UNCHANGED comments /\ walk' \in WalkType
    BY <1>6 DEF RequestPage, Begin, TypeOK
  <2>2. Frame(c)
    BY <2>1, BeginStep DEF Ops
  <2>3. \A d \in Calls : Paging(d)' => d = c
    BY <1>1, <2>1, <2>2 DEF OnePage, Paging, Frame
  <2>4. CASE walk.cursor = 0
    <3>1. PICK i \in Nat, b \in BOOLEAN :
            /\ b => i \in comments
            /\ walk' = [state |-> "asked", cursor |-> 0, id |-> i, wanted |-> b, seen |-> 0]
      BY <1>6, <2>4, FirstPage DEF RequestPage
    <3> QED
      BY <2>1, <2>3, <3>1 DEF OnePage, Halfway, WalkComplete
  <2>5. CASE walk.cursor # 0
    <3>1. /\ walk'.state = "asked" /\ walk'.cursor = walk.cursor /\ walk'.id = walk.id
          /\ walk'.wanted = walk.wanted /\ walk'.seen = walk.seen
      BY <1>1, <1>6, <2>5 DEF RequestPage, WalkType
    <3> QED
      BY <1>1, <2>1, <2>3, <2>5, <3>1 DEF OnePage, Halfway, WalkComplete
  <2> QED
    BY <2>4, <2>5
<1>7. ASSUME NEW c \in Calls, Step(c) PROVE OnePage' /\ Halfway' /\ WalkComplete'
  <2>1. /\ pc[c] \in Pending /\ comments \subseteq comments'
        /\ \A d \in Calls : call'[d].op = call[d].op
        /\ \A d \in Calls : d # c => pc'[d] = pc[d]
    BY <1>1, <1>7, StepMoves, StepWalks, StepKeepsOp DEF Goto
  <2>2. \A d \in Calls : Paging(d)' => Paging(d)
    BY <2>1 DEF Paging
  <2>3. ASSUME Paging(c), pc'[c] = "answered"
        PROVE  walk.state = "asked" /\ \A d \in Calls : ~Paging(d)'
    BY <1>1, <2>2, <2>3 DEF OnePage, Paging, Pending
  <2>4. CASE UNCHANGED walk
    BY <1>2, <2>1, <2>2, <2>4
  <2>5. CASE Goto(c, "answered") /\ PageFailed(c) /\ UNCHANGED comments
    <3>1. CASE call[c].op # "comments"
      BY <1>2, <2>1, <2>2, <2>5, <3>1 DEF PageFailed
    <3>2. CASE call[c].op = "comments" /\ walk.cursor = 0
      <4>1. Paging(c) /\ pc'[c] = "answered" /\ walk' = NoWalk
        BY <1>1, <2>1, <2>5, <3>2 DEF PageFailed, Paging, Goto
      <4> QED
        BY <1>4, <2>3, <4>1
    <3>3. CASE call[c].op = "comments" /\ walk.cursor # 0
      <4>1. Paging(c) /\ pc'[c] = "answered" /\ walk' = [walk EXCEPT !.state = "reading"]
        BY <1>1, <2>1, <2>5, <3>3 DEF PageFailed, Paging, Goto
      <4>2. /\ walk'.state = "reading" /\ walk'.cursor = walk.cursor /\ walk'.id = walk.id
            /\ walk'.wanted = walk.wanted /\ walk'.seen = walk.seen
        BY <1>1, <4>1 DEF WalkType
      <4>3. \A d \in Calls : ~Paging(d)'
        BY <2>3, <4>1
      <4> QED
        BY <1>1, <2>5, <3>3, <4>2, <4>3 DEF OnePage, Halfway, WalkComplete
    <3> QED
      BY <3>1, <3>2, <3>3
  <2>6. CASE ListComments(c) /\ active /\ Reply(c, FALSE)
    <3>1. Paging(c) /\ pc'[c] = "answered"
      BY <1>1, <2>1, <2>6 DEF ListComments, Paging, Reply, Goto
    <3>2. walk.state = "asked" /\ \A d \in Calls : ~Paging(d)'
      BY <2>3, <3>1
    <3>3. OnePage'
      BY <3>2 DEF OnePage
    <3>4. CASE PageFailed(c) /\ Fail(c)
      BY <2>5, <2>6, <3>4 DEF Fail, ListComments
    <3>5. CASE ~(PageFailed(c) /\ Fail(c))
      BY <2>6, <3>2, <3>3, <3>5, DeliverPage DEF ListComments
    <3> QED
      BY <3>4, <3>5
  <2> QED
    BY <1>7, <2>4, <2>5, <2>6, StepWalks
<1>8. ASSUME NEW c \in Calls, Receive(c) PROVE OnePage' /\ Halfway' /\ WalkComplete'
  <2>1. /\ \A d \in Calls : d # c => pc'[d] = pc[d] /\ call'[d] = call[d]
        /\ pc'[c] = "idle" /\ UNCHANGED comments
    BY <1>1, <1>8 DEF Receive, Goto, TypeOK
  <2>2. \A d \in Calls : Paging(d)' => Paging(d)
    BY <2>1 DEF Paging, Pending
  <2>3. CASE UNCHANGED walk
    BY <1>2, <2>1, <2>2, <2>3
  <2>4. CASE walk.state = "done" /\ walk' = NoWalk
    BY <1>1, <1>4, <2>2, <2>4 DEF OnePage
  <2> QED
    BY <1>8, <2>3, <2>4 DEF Receive
<1>9. CASE \/ \E c \in Calls : ReleaseLease(c)
           \/ \E u \in Users : Logout(u)
           \/ Destroy \/ Drain \/ Stopped \/ UNCHANGED vars
  <2>1. UNCHANGED <<comments, pc, call, walk>>
    BY <1>9 DEF ReleaseLease, Logout, Destroy, Drain, Stopped, vars
  <2> QED
    BY <1>2, <2>1 DEF Paging
<1> QED
  BY <1>5, <1>6, <1>7, <1>8, <1>9 DEF Next

-----------------------------------------------------------------------------

\* At first there is no call, no lease and no walk.
LEMMA InitInv ==
  ASSUME Init
  PROVE  IInv
<1>1. TypeOK
  BY DEF Init, TypeOK, NoWalk, WalkType, Stages
<1>2. Leased
  BY FS_EmptySet DEF Init, Leased
<1>3. OnePage /\ Halfway /\ WalkComplete
  BY DEF Init, OnePage, Paging, Pending, Halfway, WalkComplete, NoWalk
<1> QED
  BY <1>1, <1>2, <1>3 DEF IInv, Init

\* IInv is inductive ...
LEMMA StepInv ==
  ASSUME IInv, [Next]_vars
  PROVE  IInv'
<1>1. TypeOK' /\ \A d \in Calls : pc'[d] # "idle" => Known(d)'
  BY TypeKnownStep
<1> QED
  BY <1>1, LeasedStep, WalkStep DEF IInv

\* ... and so holds of every behaviour.
LEMMA Invariant == Spec => []IInv
  BY InitInv, StepInv, PTL DEF Spec

\* The destructor of ArtworkInteractionService returns only when no call is inside
\* the DAO or holds a lease on it, and none gets there afterwards: the owner may
\* then destroy the DAO.
THEOREM DaoSafe == Spec => []DaoOutlivesCalls
<1>1. IInv => DaoOutlivesCalls
  BY DEF IInv, Leased, DaoOutlivesCalls
<1> QED
  BY <1>1, Invariant, PTL

\* A request that begins after the logout of its session was answered reaches neither
\* the DAO nor a row, however the look-up and the logout interleave.
THEOREM RevokedStaysOut == Spec => []RevokedNeverWrites
<1>1. IInv => RevokedNeverWrites
  BY DEF IInv, Known, RevokedNeverWrites, Pending
<1> QED
  BY <1>1, Invariant, PTL

\* What changeLike answers is true: after a like the user likes the artwork and after
\* an unlike not, unless another request of the same user came in between, and 503 is
\* answered only after a failure, never because the like was there already.
THEOREM LikesTold == Spec => []AnswersTrue
<1>1. IInv => AnswersTrue
  BY DEF IInv, Known, AnswersTrue, LikeAnswersTrue, UnavailableOnFault
<1> QED
  BY <1>1, Invariant, PTL

\* Reading the comments page by page with the cursor that listComments returns shows
\* each comment that was there at the beginning exactly once, for every length of a
\* page, while comments are committed in any order of their ids and pages are
\* repeated after failures.
THEOREM WalksComplete == Spec => []WalkComplete
<1>1. IInv => WalkComplete
  BY DEF IInv
<1> QED
  BY <1>1, Invariant, PTL

=============================================================================
