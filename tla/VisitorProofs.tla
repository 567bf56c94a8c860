---------------------------- MODULE VisitorProofs ----------------------------
(***************************************************************************)
(* Proofs about Visitor for any number of calls, page loads and tokens.  The *)
(* inductive invariant IInv says what a call knows at each of its stages:   *)
(* above all that an open transaction holds an id which is not recorded yet  *)
(* and which no other open transaction holds, so that its commit adds one    *)
(* record and one view.                                                      *)
(***************************************************************************)
EXTENDS Visitor, FiniteSetTheorems, TLAPS

\* The initial state satisfies the inductive invariant.
LEMMA InitIInv == Init => IInv
  BY NoneAssumption, FS_EmptySet
  DEF Init, IInv, TypeOK, CallOK, CallStates, Idle, Stages, HasToken, HasId,
      InTransaction, KeysHeld, ViewsExact, AnsweredIsCounted, SameIdentity,
      OnlineHasIdentity

\* Every step keeps the types.
LEMMA TypeStep == IInv /\ [Next]_vars => TypeOK'
<1> SUFFICES ASSUME IInv, [Next]_vars PROVE TypeOK'
  OBVIOUS
<1> USE NoneAssumption DEF IInv, TypeOK, CallOK, CallStates, Idle, Stages, HasToken,
        HasId, InTransaction, redis, mysql, history
<1>1. ASSUME NEW c \in Calls, NEW i \in Ids, NEW t \in Tokens \cup {None},
            Start(c, "valid", i, t) PROVE TypeOK'
  BY <1>1 DEF Start, unavailable, Answer, At
<1>2. ASSUME NEW c \in Calls, NEW t \in Tokens, Start(c, "refresh", None, t) PROVE TypeOK'
  BY <1>2 DEF Start, unavailable, Answer, At
<1>3. ASSUME NEW c \in Calls, NEW t \in Tokens, Start(c, "exists", None, t) PROVE TypeOK'
  BY <1>3 DEF Start, unavailable, Answer, At
<1>4. ASSUME NEW c \in Calls, presence(c) PROVE TypeOK'
  BY <1>4 DEF presence, Start, unavailable, Answer, At
<1>5. ASSUME NEW c \in Calls, views(c) PROVE TypeOK'
  BY <1>5 DEF views, Start, unavailable, Answer, At
<1>6. ASSUME NEW c \in Calls, valid(c) PROVE TypeOK'
  BY <1>6 DEF valid, Unused, At, Goto, Answer, ok, unavailable
<1>7. ASSUME NEW c \in Calls, saveCandidate(c) PROVE TypeOK'
  BY <1>7 DEF saveCandidate, SET, At, Goto, Answer, ok, unavailable
<1>8. ASSUME NEW c \in Calls, claimBootstrap(c) PROVE TypeOK'
  BY <1>8 DEF claimBootstrap, SETNX, At, Goto, Answer, ok, unavailable
<1>9. ASSUME NEW c \in Calls, resolve(c) PROVE TypeOK'
  BY <1>9 DEF resolve, At, Goto, Answer, ok, unavailable
<1>10. ASSUME NEW c \in Calls, adopt(c) PROVE TypeOK'
  BY <1>10 DEF adopt, SET, At, Goto, Answer, ok, unavailable
<1>11. ASSUME NEW c \in Calls, touch(c) PROVE TypeOK'
  BY <1>11 DEF touch, ZADD, At, Goto, Answer, ok, unavailable
<1>12. ASSUME NEW c \in Calls, insertViewEvent(c) PROVE TypeOK'
  BY <1>12 DEF insertViewEvent, KeyLocked, At, Goto, Answer, ok, unavailable
<1>13. ASSUME NEW c \in Calls, increment(c) PROVE TypeOK'
  BY <1>13 DEF increment, At, Goto, Answer, ok, unavailable
<1>14. ASSUME NEW c \in Calls, select(c) PROVE TypeOK'
  <2>1. selectCount(c) \in Nat
    BY DEF selectCount
  <2>2. [call[c] EXCEPT !.pc = "commit", !.count = selectCount(c)] \in CallStates
    BY <2>1
  <2>3. call' = [call EXCEPT ![c] = [call[c] EXCEPT !.pc = "commit", !.count = selectCount(c)]]
    BY <1>14 DEF select
  <2>4. call' \in [Calls -> CallStates]
    BY <2>2, <2>3
  <2> QED
    BY <1>14, <2>4 DEF select
<1>15. ASSUME NEW c \in Calls, commit(c) PROVE TypeOK'
  <2>1. events' \subseteq Ids /\ total' \in Nat /\ call' \in [Calls -> CallStates]
    BY <1>15 DEF commit, Report, selectCount, Answer, ok, At
  <2>2. answer' \in Nat \cup {None} /\ counted' \subseteq Ids /\ seen' \in Nat
    BY <1>15 DEF commit, Report, Answer, ok, At
  <2> QED
    BY <1>15, <2>1, <2>2 DEF commit, Report
<1>16. ASSUME NEW c \in Calls, rollback(c) PROVE TypeOK'
  BY <1>16 DEF rollback, At, Goto, Answer, ok, unavailable
<1>17. ASSUME NEW c \in Calls, refresh(c) PROVE TypeOK'
  BY <1>17 DEF refresh, SET, At, Goto, Answer, ok, unavailable
<1>18. ASSUME NEW c \in Calls, beat(c) PROVE TypeOK'
  BY <1>18 DEF beat, LastCommand, ZADD, At, Goto, Answer, ok, unavailable
<1>19. ASSUME NEW c \in Calls, exists(c) PROVE TypeOK'
  BY <1>19 DEF exists, At, Goto, Answer, ok, unavailable
<1>20. ASSUME NEW c \in Calls, remove(c) PROVE TypeOK'
  BY <1>20 DEF remove, LastCommand, At, Goto, Answer, ok, unavailable
<1>21. ASSUME NEW c \in Calls, count(c) PROVE TypeOK'
  BY <1>21 DEF count, LastCommand, At, Goto, Answer, ok, unavailable
<1>22. ASSUME NEW c \in Calls, read(c) PROVE TypeOK'
  BY <1>22 DEF read, Report, At, Goto, Answer, ok, unavailable
<1>23. ASSUME NEW i \in Ids, ExpireClaim(i) PROVE TypeOK'
  BY <1>23 DEF ExpireClaim
<1>24. ASSUME NEW t \in Tokens, ExpireVisitor(t) PROVE TypeOK'
  BY <1>24 DEF ExpireVisitor, Renewed
<1>25. ASSUME NEW t \in Tokens, Fade(t) PROVE TypeOK'
  BY <1>25 DEF Fade
<1>26. CASE Restart
  BY <1>26 DEF Restart
<1>27. CASE UNCHANGED vars
  BY <1>27 DEF vars
<1> QED
  BY <1>1, <1>2, <1>3, <1>4, <1>5, <1>6, <1>7, <1>8, <1>9, <1>10,
     <1>11, <1>12, <1>13, <1>14, <1>15, <1>16, <1>17, <1>18, <1>19, <1>20,
     <1>21, <1>22, <1>23, <1>24, <1>25, <1>26, <1>27
  DEF Next, Work, Request, bootstrap, heartbeat, exit

\* Every step keeps what the calls know.
LEMMA CallStep == IInv /\ [Next]_vars => (\A k \in Calls : CallOK(k))'
<1> SUFFICES ASSUME IInv, [Next]_vars PROVE (\A k \in Calls : CallOK(k))'
  OBVIOUS
<1> USE NoneAssumption DEF IInv, TypeOK, CallOK, CallStates, Idle, Stages, HasToken,
        HasId, InTransaction, redis, mysql, history,
        KeysHeld, selectCount
<1>1. ASSUME NEW c \in Calls, NEW i \in Ids, NEW t \in Tokens \cup {None},
            Start(c, "valid", i, t) PROVE (\A k \in Calls : CallOK(k))'
  BY <1>1 DEF Start, unavailable, Answer, At
<1>2. ASSUME NEW c \in Calls, NEW t \in Tokens, Start(c, "refresh", None, t)
      PROVE (\A k \in Calls : CallOK(k))'
  BY <1>2 DEF Start, unavailable, Answer, At
<1>3. ASSUME NEW c \in Calls, NEW t \in Tokens, Start(c, "exists", None, t)
      PROVE (\A k \in Calls : CallOK(k))'
  BY <1>3 DEF Start, unavailable, Answer, At
<1>4. ASSUME NEW c \in Calls, presence(c) PROVE (\A k \in Calls : CallOK(k))'
  BY <1>4 DEF presence, Start, unavailable, Answer, At
<1>5. ASSUME NEW c \in Calls, views(c) PROVE (\A k \in Calls : CallOK(k))'
  BY <1>5 DEF views, Start, unavailable, Answer, At
<1>6. ASSUME NEW c \in Calls, valid(c) PROVE (\A k \in Calls : CallOK(k))'
  BY <1>6 DEF valid, Unused, At, Goto, Answer, ok, unavailable
<1>7. ASSUME NEW c \in Calls, saveCandidate(c) PROVE (\A k \in Calls : CallOK(k))'
  BY <1>7 DEF saveCandidate, SET, At, Goto, Answer, ok, unavailable
<1>8. ASSUME NEW c \in Calls, claimBootstrap(c) PROVE (\A k \in Calls : CallOK(k))'
  BY <1>8 DEF claimBootstrap, SETNX, At, Goto, Answer, ok, unavailable
<1>9. ASSUME NEW c \in Calls, resolve(c) PROVE (\A k \in Calls : CallOK(k))'
  BY <1>9 DEF resolve, At, Goto, Answer, ok, unavailable
<1>10. ASSUME NEW c \in Calls, adopt(c) PROVE (\A k \in Calls : CallOK(k))'
  BY <1>10 DEF adopt, SET, At, Goto, Answer, ok, unavailable
<1>11. ASSUME NEW c \in Calls, touch(c) PROVE (\A k \in Calls : CallOK(k))'
  BY <1>11 DEF touch, ZADD, At, Goto, Answer, ok, unavailable
<1>12. ASSUME NEW c \in Calls, insertViewEvent(c) PROVE (\A k \in Calls : CallOK(k))'
  BY <1>12 DEF insertViewEvent, KeyLocked, At, Goto, Answer, ok, unavailable
<1>13. ASSUME NEW c \in Calls, increment(c) PROVE (\A k \in Calls : CallOK(k))'
  BY <1>13 DEF increment, At, Goto, Answer, ok, unavailable
<1>14. ASSUME NEW c \in Calls, select(c) PROVE (\A k \in Calls : CallOK(k))'
  BY <1>14 DEF select, selectCount, At, Goto, Answer, ok, unavailable
<1>15. ASSUME NEW c \in Calls, commit(c) PROVE (\A k \in Calls : CallOK(k))'
  BY <1>15 DEF commit, Report, selectCount, At, Goto, Answer, ok, unavailable
<1>16. ASSUME NEW c \in Calls, rollback(c) PROVE (\A k \in Calls : CallOK(k))'
  BY <1>16 DEF rollback, At, Goto, Answer, ok, unavailable
<1>17. ASSUME NEW c \in Calls, refresh(c) PROVE (\A k \in Calls : CallOK(k))'
  BY <1>17 DEF refresh, SET, At, Goto, Answer, ok, unavailable
<1>18. ASSUME NEW c \in Calls, beat(c) PROVE (\A k \in Calls : CallOK(k))'
  BY <1>18 DEF beat, LastCommand, ZADD, At, Goto, Answer, ok, unavailable
<1>19. ASSUME NEW c \in Calls, exists(c) PROVE (\A k \in Calls : CallOK(k))'
  BY <1>19 DEF exists, At, Goto, Answer, ok, unavailable
<1>20. ASSUME NEW c \in Calls, remove(c) PROVE (\A k \in Calls : CallOK(k))'
  BY <1>20 DEF remove, LastCommand, At, Goto, Answer, ok, unavailable
<1>21. ASSUME NEW c \in Calls, count(c) PROVE (\A k \in Calls : CallOK(k))'
  BY <1>21 DEF count, LastCommand, At, Goto, Answer, ok, unavailable
<1>22. ASSUME NEW c \in Calls, read(c) PROVE (\A k \in Calls : CallOK(k))'
  BY <1>22 DEF read, Report, At, Goto, Answer, ok, unavailable
<1>23. ASSUME NEW i \in Ids, ExpireClaim(i) PROVE (\A k \in Calls : CallOK(k))'
  BY <1>23 DEF ExpireClaim
<1>24. ASSUME NEW t \in Tokens, ExpireVisitor(t) PROVE (\A k \in Calls : CallOK(k))'
  BY <1>24 DEF ExpireVisitor, Renewed
<1>25. ASSUME NEW t \in Tokens, Fade(t) PROVE (\A k \in Calls : CallOK(k))'
  BY <1>25 DEF Fade
<1>26. CASE Restart
  BY <1>26 DEF Restart
<1>27. CASE UNCHANGED vars
  BY <1>27 DEF vars
<1> QED
  BY <1>1, <1>2, <1>3, <1>4, <1>5, <1>6, <1>7, <1>8, <1>9, <1>10,
     <1>11, <1>12, <1>13, <1>14, <1>15, <1>16, <1>17, <1>18, <1>19, <1>20,
     <1>21, <1>22, <1>23, <1>24, <1>25, <1>26, <1>27
  DEF Next, Work, Request, bootstrap, heartbeat, exit

\* A key that is locked is not taken by another transaction.
LEMMA KeysStep == IInv /\ [Next]_vars => KeysHeld'
<1> SUFFICES ASSUME IInv, [Next]_vars PROVE KeysHeld'
  OBVIOUS
<1> USE NoneAssumption DEF IInv, TypeOK, CallOK, CallStates, Idle, Stages, HasToken,
        HasId, InTransaction, redis, mysql, history,
        KeysHeld
<1>1. ASSUME NEW c \in Calls, NEW i \in Ids, NEW t \in Tokens \cup {None},
            Start(c, "valid", i, t) PROVE KeysHeld'
  BY <1>1 DEF Start, unavailable, Answer, At
<1>2. ASSUME NEW c \in Calls, NEW t \in Tokens, Start(c, "refresh", None, t) PROVE KeysHeld'
  BY <1>2 DEF Start, unavailable, Answer, At
<1>3. ASSUME NEW c \in Calls, NEW t \in Tokens, Start(c, "exists", None, t) PROVE KeysHeld'
  BY <1>3 DEF Start, unavailable, Answer, At
<1>4. ASSUME NEW c \in Calls, presence(c) PROVE KeysHeld'
  BY <1>4 DEF presence, Start, unavailable, Answer, At
<1>5. ASSUME NEW c \in Calls, views(c) PROVE KeysHeld'
  BY <1>5 DEF views, Start, unavailable, Answer, At
<1>6. ASSUME NEW c \in Calls, valid(c) PROVE KeysHeld'
  BY <1>6 DEF valid, Unused, At, Goto, Answer, ok, unavailable
<1>7. ASSUME NEW c \in Calls, saveCandidate(c) PROVE KeysHeld'
  BY <1>7 DEF saveCandidate, SET, At, Goto, Answer, ok, unavailable
<1>8. ASSUME NEW c \in Calls, claimBootstrap(c) PROVE KeysHeld'
  BY <1>8 DEF claimBootstrap, SETNX, At, Goto, Answer, ok, unavailable
<1>9. ASSUME NEW c \in Calls, resolve(c) PROVE KeysHeld'
  BY <1>9 DEF resolve, At, Goto, Answer, ok, unavailable
<1>10. ASSUME NEW c \in Calls, adopt(c) PROVE KeysHeld'
  BY <1>10 DEF adopt, SET, At, Goto, Answer, ok, unavailable
<1>11. ASSUME NEW c \in Calls, touch(c) PROVE KeysHeld'
  BY <1>11 DEF touch, ZADD, At, Goto, Answer, ok, unavailable
<1>12. ASSUME NEW c \in Calls, insertViewEvent(c) PROVE KeysHeld'
  BY <1>12 DEF insertViewEvent, KeyLocked, At, Goto, Answer, ok, unavailable
<1>13. ASSUME NEW c \in Calls, increment(c) PROVE KeysHeld'
  BY <1>13 DEF increment, At, Goto, Answer, ok, unavailable
<1>14. ASSUME NEW c \in Calls, select(c) PROVE KeysHeld'
  BY <1>14 DEF select, selectCount, At, Goto, Answer, ok, unavailable
<1>15. ASSUME NEW c \in Calls, commit(c) PROVE KeysHeld'
  BY <1>15 DEF commit, Report, selectCount, At, Goto, Answer, ok, unavailable
<1>16. ASSUME NEW c \in Calls, rollback(c) PROVE KeysHeld'
  BY <1>16 DEF rollback, At, Goto, Answer, ok, unavailable
<1>17. ASSUME NEW c \in Calls, refresh(c) PROVE KeysHeld'
  BY <1>17 DEF refresh, SET, At, Goto, Answer, ok, unavailable
<1>18. ASSUME NEW c \in Calls, beat(c) PROVE KeysHeld'
  BY <1>18 DEF beat, LastCommand, ZADD, At, Goto, Answer, ok, unavailable
<1>19. ASSUME NEW c \in Calls, exists(c) PROVE KeysHeld'
  BY <1>19 DEF exists, At, Goto, Answer, ok, unavailable
<1>20. ASSUME NEW c \in Calls, remove(c) PROVE KeysHeld'
  BY <1>20 DEF remove, LastCommand, At, Goto, Answer, ok, unavailable
<1>21. ASSUME NEW c \in Calls, count(c) PROVE KeysHeld'
  BY <1>21 DEF count, LastCommand, At, Goto, Answer, ok, unavailable
<1>22. ASSUME NEW c \in Calls, read(c) PROVE KeysHeld'
  BY <1>22 DEF read, Report, At, Goto, Answer, ok, unavailable
<1>23. ASSUME NEW i \in Ids, ExpireClaim(i) PROVE KeysHeld'
  BY <1>23 DEF ExpireClaim
<1>24. ASSUME NEW t \in Tokens, ExpireVisitor(t) PROVE KeysHeld'
  BY <1>24 DEF ExpireVisitor, Renewed
<1>25. ASSUME NEW t \in Tokens, Fade(t) PROVE KeysHeld'
  BY <1>25 DEF Fade
<1>26. CASE Restart
  BY <1>26 DEF Restart
<1>27. CASE UNCHANGED vars
  BY <1>27 DEF vars
<1> QED
  BY <1>1, <1>2, <1>3, <1>4, <1>5, <1>6, <1>7, <1>8, <1>9, <1>10,
     <1>11, <1>12, <1>13, <1>14, <1>15, <1>16, <1>17, <1>18, <1>19, <1>20,
     <1>21, <1>22, <1>23, <1>24, <1>25, <1>26, <1>27
  DEF Next, Work, Request, bootstrap, heartbeat, exit

\* Every step keeps the identities consistent.
LEMMA IdentityStep == IInv /\ [Next]_vars => (SameIdentity /\ OnlineHasIdentity)'
<1> SUFFICES ASSUME IInv, [Next]_vars PROVE (SameIdentity /\ OnlineHasIdentity)'
  OBVIOUS
<1> USE NoneAssumption DEF IInv, TypeOK, CallOK, CallStates, Idle, Stages, HasToken,
        HasId, InTransaction, redis, mysql, history,
        SameIdentity, OnlineHasIdentity
<1>1. ASSUME NEW c \in Calls, NEW i \in Ids, NEW t \in Tokens \cup {None},
            Start(c, "valid", i, t) PROVE (SameIdentity /\ OnlineHasIdentity)'
  BY <1>1 DEF Start, unavailable, Answer, At
<1>2. ASSUME NEW c \in Calls, NEW t \in Tokens, Start(c, "refresh", None, t)
      PROVE (SameIdentity /\ OnlineHasIdentity)'
  BY <1>2 DEF Start, unavailable, Answer, At
<1>3. ASSUME NEW c \in Calls, NEW t \in Tokens, Start(c, "exists", None, t)
      PROVE (SameIdentity /\ OnlineHasIdentity)'
  BY <1>3 DEF Start, unavailable, Answer, At
<1>4. ASSUME NEW c \in Calls, presence(c) PROVE (SameIdentity /\ OnlineHasIdentity)'
  BY <1>4 DEF presence, Start, unavailable, Answer, At
<1>5. ASSUME NEW c \in Calls, views(c) PROVE (SameIdentity /\ OnlineHasIdentity)'
  BY <1>5 DEF views, Start, unavailable, Answer, At
<1>6. ASSUME NEW c \in Calls, valid(c) PROVE (SameIdentity /\ OnlineHasIdentity)'
  BY <1>6 DEF valid, Unused, At, Goto, Answer, ok, unavailable
<1>7. ASSUME NEW c \in Calls, saveCandidate(c) PROVE (SameIdentity /\ OnlineHasIdentity)'
  BY <1>7 DEF saveCandidate, SET, At, Goto, Answer, ok, unavailable
<1>8. ASSUME NEW c \in Calls, claimBootstrap(c) PROVE (SameIdentity /\ OnlineHasIdentity)'
  BY <1>8 DEF claimBootstrap, SETNX, At, Goto, Answer, ok, unavailable
<1>9. ASSUME NEW c \in Calls, resolve(c) PROVE (SameIdentity /\ OnlineHasIdentity)'
  BY <1>9 DEF resolve, At, Goto, Answer, ok, unavailable
<1>10. ASSUME NEW c \in Calls, adopt(c) PROVE (SameIdentity /\ OnlineHasIdentity)'
  BY <1>10 DEF adopt, SET, At, Goto, Answer, ok, unavailable
<1>11. ASSUME NEW c \in Calls, touch(c) PROVE (SameIdentity /\ OnlineHasIdentity)'
  BY <1>11 DEF touch, ZADD, At, Goto, Answer, ok, unavailable
<1>12. ASSUME NEW c \in Calls, insertViewEvent(c) PROVE (SameIdentity /\ OnlineHasIdentity)'
  BY <1>12 DEF insertViewEvent, KeyLocked, At, Goto, Answer, ok, unavailable
<1>13. ASSUME NEW c \in Calls, increment(c) PROVE (SameIdentity /\ OnlineHasIdentity)'
  BY <1>13 DEF increment, At, Goto, Answer, ok, unavailable
<1>14. ASSUME NEW c \in Calls, select(c) PROVE (SameIdentity /\ OnlineHasIdentity)'
  BY <1>14 DEF select, selectCount, At, Goto, Answer, ok, unavailable
<1>15. ASSUME NEW c \in Calls, commit(c) PROVE (SameIdentity /\ OnlineHasIdentity)'
  BY <1>15 DEF commit, Report, selectCount, At, Goto, Answer, ok, unavailable
<1>16. ASSUME NEW c \in Calls, rollback(c) PROVE (SameIdentity /\ OnlineHasIdentity)'
  BY <1>16 DEF rollback, At, Goto, Answer, ok, unavailable
<1>17. ASSUME NEW c \in Calls, refresh(c) PROVE (SameIdentity /\ OnlineHasIdentity)'
  BY <1>17 DEF refresh, SET, At, Goto, Answer, ok, unavailable
<1>18. ASSUME NEW c \in Calls, beat(c) PROVE (SameIdentity /\ OnlineHasIdentity)'
  BY <1>18 DEF beat, LastCommand, ZADD, At, Goto, Answer, ok, unavailable
<1>19. ASSUME NEW c \in Calls, exists(c) PROVE (SameIdentity /\ OnlineHasIdentity)'
  BY <1>19 DEF exists, At, Goto, Answer, ok, unavailable
<1>20. ASSUME NEW c \in Calls, remove(c) PROVE (SameIdentity /\ OnlineHasIdentity)'
  BY <1>20 DEF remove, LastCommand, At, Goto, Answer, ok, unavailable
<1>21. ASSUME NEW c \in Calls, count(c) PROVE (SameIdentity /\ OnlineHasIdentity)'
  BY <1>21 DEF count, LastCommand, At, Goto, Answer, ok, unavailable
<1>22. ASSUME NEW c \in Calls, read(c) PROVE (SameIdentity /\ OnlineHasIdentity)'
  BY <1>22 DEF read, Report, At, Goto, Answer, ok, unavailable
<1>23. ASSUME NEW i \in Ids, ExpireClaim(i) PROVE (SameIdentity /\ OnlineHasIdentity)'
  BY <1>23 DEF ExpireClaim
<1>24. ASSUME NEW t \in Tokens, ExpireVisitor(t) PROVE (SameIdentity /\ OnlineHasIdentity)'
  BY <1>24 DEF ExpireVisitor, Renewed
<1>25. ASSUME NEW t \in Tokens, Fade(t) PROVE (SameIdentity /\ OnlineHasIdentity)'
  BY <1>25 DEF Fade
<1>26. CASE Restart
  BY <1>26 DEF Restart
<1>27. CASE UNCHANGED vars
  BY <1>27 DEF vars
<1> QED
  BY <1>1, <1>2, <1>3, <1>4, <1>5, <1>6, <1>7, <1>8, <1>9, <1>10,
     <1>11, <1>12, <1>13, <1>14, <1>15, <1>16, <1>17, <1>18, <1>19, <1>20,
     <1>21, <1>22, <1>23, <1>24, <1>25, <1>26, <1>27
  DEF Next, Work, Request, bootstrap, heartbeat, exit

\* Only a commit changes the tables, and it adds a view exactly when it adds a
\* record.
LEMMA ViewsStep == IInv /\ [Next]_vars => (ViewsExact /\ AnsweredIsCounted /\ seen <= total)'
<1> SUFFICES ASSUME IInv, [Next]_vars
             PROVE  (ViewsExact /\ AnsweredIsCounted /\ seen <= total)'
  OBVIOUS
<1>1. CASE \E c \in Calls : commit(c)
  <2>1. PICK c \in Calls : commit(c)
    BY <1>1
  <2>2. call[c] \in CallStates /\ CallOK(c) /\ call[c].pc = "commit" /\ call[c].id \in Ids
    BY <2>1 DEF commit, At, IInv, TypeOK, CallOK, HasId, InTransaction
  <2>3. IsFiniteSet(events) /\ total = Cardinality(events) /\ total \in Nat
    BY IdsFinite, FS_Subset DEF IInv, TypeOK, ViewsExact
  <2>4. ViewsExact'
    <3>1. CASE call[c].tx = "none"
      BY <2>1, <2>3, <3>1 DEF commit, selectCount, ViewsExact
    <3>2. CASE call[c].tx = "counted"
      <4>1. call[c].id \notin events
        BY <2>2, <3>2 DEF CallOK
      <4>2. events' = events \cup {call[c].id} /\ total' = total + 1
        BY <2>1, <2>3, <3>2 DEF commit, selectCount
      <4> QED
        BY <2>3, <4>1, <4>2, FS_AddElement DEF ViewsExact
    <3> QED
      BY <2>2, <3>1, <3>2 DEF CallOK, CallStates
  <2>5. call[c].id \in events'
    BY <2>1, <2>2 DEF commit, CallOK
  <2>6. AnsweredIsCounted'
    BY <2>1, <2>5 DEF commit, Report, history, IInv, AnsweredIsCounted
  <2>7. seen' <= total'
    <3>1. call[c].count \in Nat /\ seen \in Nat /\ total \in Nat /\ seen <= total
      BY <2>2 DEF IInv, TypeOK, CallStates
    <3>2. call[c].count <= total' /\ total <= total' /\ total' \in Nat
      BY <2>1, <2>2, <3>1 DEF commit, CallOK, selectCount
    <3> QED
      BY <2>1, <3>1, <3>2 DEF commit, Report, history
  <2> QED
    BY <2>4, <2>6, <2>7
<1>2. CASE \E c \in Calls : read(c)
  BY <1>2 DEF read, Report, mysql, history, IInv, TypeOK, ViewsExact, AnsweredIsCounted
<1>3. CASE UNCHANGED <<mysql, counted, seen>>
  BY <1>3 DEF mysql, IInv, ViewsExact, AnsweredIsCounted
<1>4. ASSUME NEW c \in Calls, Work(c), ~commit(c), ~read(c)
      PROVE  UNCHANGED <<mysql, counted, seen>>
  BY <1>4 DEF Work, valid, saveCandidate, claimBootstrap, resolve, adopt, touch,
              insertViewEvent, increment, select, rollback, refresh, beat, exists,
              remove, count, LastCommand, mysql, history
<1>5. ASSUME NEW c \in Calls, Request(c) PROVE UNCHANGED <<mysql, counted, seen>>
  BY <1>5 DEF Request, bootstrap, heartbeat, exit, presence, views, Start, mysql, history
<1>6. ASSUME (\E i \in Ids : ExpireClaim(i)) \/ (\E t \in Tokens : ExpireVisitor(t) \/ Fade(t))
             \/ Restart \/ UNCHANGED vars
      PROVE  UNCHANGED <<mysql, counted, seen>>
  BY <1>6 DEF ExpireClaim, ExpireVisitor, Fade, Restart, vars, mysql, history
<1> QED
  BY <1>1, <1>2, <1>3, <1>4, <1>5, <1>6 DEF Next

\* The inductive invariant holds throughout.
LEMMA Invariance == Spec => []IInv
<1>1. IInv /\ [Next]_vars => IInv'
  <2> SUFFICES ASSUME IInv, [Next]_vars PROVE IInv'
    OBVIOUS
  <2> QED
    BY TypeStep, CallStep, KeysStep, IdentityStep, ViewsStep DEF IInv
<1> QED
  BY InitIInv, <1>1, PTL DEF Spec

\* Every variable of Visitor keeps its type.
THEOREM VisitorTypes == Spec => []TypeOK
<1>1. IInv => TypeOK
  BY DEF IInv
<1> QED
  BY Invariance, <1>1, PTL

\* incrementAndRead: total_views is at every moment the number of recorded page
\* loads, whatever is retried, raced, cut off or rolled back, and a page load
\* that was answered with statistics is recorded.
THEOREM ViewsCounted == Spec => []CountingExact
<1>1. IInv => CountingExact
  BY DEF IInv, CountingExact
<1> QED
  BY Invariance, <1>1, PTL

\* claimBootstrap: all attempts of a page load get one token while its claim
\* lives; bootstrap and heartbeat: whoever is shown online has an identity.
THEOREM OneIdentity == Spec => []IdentitiesKept
<1>1. IInv => IdentitiesKept
  BY DEF IInv, IdentitiesKept
<1> QED
  BY Invariance, <1>1, PTL

\* selectCount and read: no answer shows fewer views than one given before its
\* request arrived.
THEOREM ViewsMonotone == Spec => ViewsNeverShrink
<1> DEFINE Grows == \A c \in Calls : Reports(c) => answer' >= call[c].floor
<1>1. IInv /\ [Next]_vars => [Grows]_vars
  <2> SUFFICES ASSUME IInv, Next, NEW k \in Calls, Reports(k)
               PROVE  answer' >= call[k].floor
    BY DEF Grows
  <2> USE DEF Reports
  <2>1. ASSUME NEW c \in Calls, commit(c) PROVE answer' >= call[k].floor
    <3>1. c = k
      BY <2>1 DEF commit, Report, Answer, ok, Idle, IInv, TypeOK
    <3> QED
      BY <2>1, <3>1 DEF commit, Report, Answer, ok, At, IInv, CallOK
  <2>2. ASSUME NEW c \in Calls, read(c) PROVE answer' >= call[k].floor
    <3>1. c = k
      BY <2>2 DEF read, Report, Answer, ok, Idle, IInv, TypeOK
    <3>2. call[k].floor \in Nat /\ call[k].floor <= seen /\ seen <= total /\ seen \in Nat
          /\ total \in Nat
      BY DEF IInv, TypeOK, CallOK, CallStates
    <3> QED
      BY <2>2, <3>1, <3>2 DEF read, Report, Answer, ok
  <2>3. ASSUME NEW c \in Calls, Work(c), ~commit(c), ~read(c) PROVE answer' = None
    BY <2>3 DEF Work, valid, saveCandidate, claimBootstrap, resolve, adopt, touch,
                insertViewEvent, increment, select, rollback, refresh, beat, exists,
                remove, count, LastCommand, Goto, Answer, ok, unavailable
  <2>4. ASSUME NEW c \in Calls, Request(c) PROVE answer' = None
    BY <2>4 DEF Request, bootstrap, heartbeat, exit, presence, views, Start, Answer,
                unavailable
  <2>5. ASSUME (\E i \in Ids : ExpireClaim(i))
               \/ (\E t \in Tokens : ExpireVisitor(t) \/ Fade(t)) \/ Restart
        PROVE  answer' = None
    BY <2>5 DEF ExpireClaim, ExpireVisitor, Fade, Restart
  <2> QED
    BY <2>1, <2>2, <2>3, <2>4, <2>5 DEF Next
<1> QED
  BY Invariance, <1>1, PTL DEF Spec, ViewsNeverShrink

=============================================================================
