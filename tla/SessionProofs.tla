---------------------------- MODULE SessionProofs ----------------------------
(***************************************************************************)
(* Proofs about the login sessions of SessionStore and about the logins of Auth  *)
(* that make them, for any number of tokens, names, passwords and calls.        *)
(*                                                                         *)
(* For SessionStore the inductive invariant IInv says that a finished logout    *)
(* leaves nothing behind that could answer "active": neither the row, nor the   *)
(* snapshot, nor a fill that read the row earlier, unless the tombstone is there *)
(* to defeat it.  In Auth a call carries what it has found from task to task     *)
(* while other calls change the same row: Verified says that what it has found   *)
(* stays true, Registrar that it is told once.                                  *)
(***************************************************************************)
EXTENDS SessionStore, Auth, TLAPS

-----------------------------------------------------------------------------
(* The session store.                                                        *)

\* The initial state satisfies the inductive invariant.
LEMMA InitIInv == Init => IInv
  BY BogusAssumption
  DEF Init, IInv, TypeOK, AckedClosed, SettledClosed, TombstoneAfterRow, InUse,
      StaleFill, Unsettled, Presentable, Status, Stages, Answers, Absent,
      Revoked, Active

\* Every step keeps the types.
LEMMA TypeStep == TypeOK /\ [Next]_vars => TypeOK'
<1> SUFFICES ASSUME TypeOK, [Next]_vars PROVE TypeOK'
  OBVIOUS
<1> USE DEF TypeOK, Status, Stages, Answers, Absent, Revoked, Active
<1>1. ASSUME NEW t \in Tokens, createSession(t) PROVE TypeOK'
  BY <1>1 DEF createSession
<1>2. ASSUME NEW t \in Tokens, Expire(t) PROVE TypeOK'
  BY <1>2 DEF Expire
<1>3. ASSUME NEW c \in Calls, NEW t \in Tokens, find(c, t) PROVE TypeOK'
  BY <1>3 DEF find, Answer
<1>4. ASSUME NEW c \in Calls, NEW t \in Tokens, logout(c, t) PROVE TypeOK'
  BY <1>4 DEF logout, Answer
<1>5. ASSUME NEW c \in Calls, Lookup(c) PROVE TypeOK'
  BY <1>5 DEF Lookup, getOutcomes, Answer, Goto
<1>6. ASSUME NEW c \in Calls, Load(c) PROVE TypeOK'
  BY <1>6 DEF Load, Answer, Goto
<1>7. ASSUME NEW c \in Calls, FillRefused(c) PROVE TypeOK'
  BY <1>7 DEF FillRefused, Answer
<1>8. ASSUME NEW c \in Calls, FillRevoked(c) PROVE TypeOK'
  BY <1>8 DEF FillRevoked, put, RedisWrite, Answer
<1>9. ASSUME NEW c \in Calls, FillActive(c) PROVE TypeOK'
  BY <1>9 DEF FillActive, putIfAbsent, RedisWrite, Answer, Goto
<1>10. ASSUME NEW c \in Calls, Winner(c) PROVE TypeOK'
  BY <1>10 DEF Winner, getOutcomes, Answer
<1>11. ASSUME NEW c \in Calls, Persist(c) PROVE TypeOK'
  BY <1>11 DEF Persist, RevokedRow, Fail, Answer, Goto
<1>12. ASSUME NEW c \in Calls, Tombstone(c) PROVE TypeOK'
  BY <1>12 DEF Tombstone, put, RedisWrite, Fail, Answer
<1>13. CASE Restart
  BY <1>13 DEF Restart
<1>14. CASE UNCHANGED vars
  BY <1>14 DEF vars
<1> QED
  BY <1>1, <1>2, <1>3, <1>4, <1>5, <1>6, <1>7, <1>8, <1>9, <1>10, <1>11, <1>12,
     <1>13, <1>14 DEF Next, Work

\* Every step keeps the inductive invariant.
LEMMA IInvStep == IInv /\ [Next]_vars => IInv'
<1> SUFFICES ASSUME IInv, [Next]_vars PROVE IInv'
  OBVIOUS
<1>0. TypeOK'
  BY TypeStep DEF IInv
<1> USE <1>0, BogusAssumption
    DEF IInv, TypeOK, AckedClosed, SettledClosed, TombstoneAfterRow, InUse,
        StaleFill, Unsettled, Presentable, Absent, Revoked, Active, Stages
<1>1. ASSUME NEW t \in Tokens, createSession(t) PROVE IInv'
  BY <1>1 DEF createSession
<1>2. ASSUME NEW t \in Tokens, Expire(t) PROVE IInv'
  BY <1>2 DEF Expire
<1>3. ASSUME NEW c \in Calls, NEW t \in Tokens, find(c, t) PROVE IInv'
  BY <1>3 DEF find, Answer
<1>4. ASSUME NEW c \in Calls, NEW t \in Tokens, logout(c, t) PROVE IInv'
  BY <1>4 DEF logout, Answer
<1>5. ASSUME NEW c \in Calls, Lookup(c) PROVE IInv'
  BY <1>5 DEF Lookup, getOutcomes, Answer, Goto
<1>6. ASSUME NEW c \in Calls, Load(c) PROVE IInv'
  BY <1>6 DEF Load, Answer, Goto
<1>7. ASSUME NEW c \in Calls, FillRefused(c) PROVE IInv'
  BY <1>7 DEF FillRefused, Answer
<1>8. ASSUME NEW c \in Calls, FillRevoked(c) PROVE IInv'
  BY <1>8 DEF FillRevoked, put, RedisWrite, Answer
<1>9. ASSUME NEW c \in Calls, FillActive(c) PROVE IInv'
  BY <1>9 DEF FillActive, putIfAbsent, RedisWrite, Answer, Goto
<1>10. ASSUME NEW c \in Calls, Winner(c) PROVE IInv'
  BY <1>10 DEF Winner, getOutcomes, Answer
<1>11. ASSUME NEW c \in Calls, Persist(c) PROVE IInv'
  BY <1>11 DEF Persist, RevokedRow, Fail, Answer, Goto
<1>12. ASSUME NEW c \in Calls, Tombstone(c) PROVE IInv'
  BY <1>12 DEF Tombstone, put, RedisWrite, Fail, Answer
<1>13. CASE Restart
  BY <1>13 DEF Restart
<1>14. CASE UNCHANGED vars
  BY <1>14 DEF vars
<1> QED
  BY <1>1, <1>2, <1>3, <1>4, <1>5, <1>6, <1>7, <1>8, <1>9, <1>10, <1>11, <1>12,
     <1>13, <1>14 DEF Next, Work

\* The inductive invariant holds in every reachable state.
LEMMA InductiveInvariant == Spec => []IInv
  BY InitIInv, IInvStep, PTL DEF Spec

\* Type correctness of the session store: in particular a find never answers
\* from an unread Session object.
THEOREM TypeCorrect == Spec => []TypeOK
<1>1. IInv => TypeOK
  BY DEF IInv
<1> QED
  BY InductiveInvariant, <1>1, PTL

\* A stale active snapshot exists only while a logout is running or after one
\* was reported as failed.
THEOREM StaleSnapshots == Spec => []StaleSnapshotReported
<1>1. IInv => StaleSnapshotReported
  BY DEF IInv, SettledClosed, StaleSnapshotReported
<1> QED
  BY InductiveInvariant, <1>1, PTL

\* Acknowledged logouts are final: after the 200 of a logout no call, however
\* early it started, answers an active session for that token.
THEOREM Revocation == Spec => RevocationHolds
<1> DEFINE Holds ==
      \A c \in Calls : Returns(c) /\ res'[c] = Active => tok[c] \notin acked
<1>1. IInv /\ [Next]_vars => [Holds]_vars
  <2> SUFFICES ASSUME IInv, Next, NEW c \in Calls,
                      Returns(c), res'[c] = Active, tok[c] \in acked
               PROVE  FALSE
    OBVIOUS
  <2> USE DEF IInv, TypeOK, AckedClosed, StaleFill, Returns, Status, Absent,
              Revoked, Active
  <2>1. ASSUME NEW t \in Tokens, createSession(t) \/ Expire(t) PROVE FALSE
    BY <2>1 DEF createSession, Expire
  <2>2. ASSUME NEW d \in Calls, NEW t \in Tokens, find(d, t) \/ logout(d, t)
        PROVE  FALSE
    BY <2>2 DEF find, logout, Answer
  <2>3. CASE Restart
    BY <2>3 DEF Restart
  <2>4. ASSUME NEW d \in Calls, Lookup(d) PROVE FALSE
    BY <2>4 DEF Lookup, getOutcomes, Answer, Goto
  <2>5. ASSUME NEW d \in Calls, Load(d) PROVE FALSE
    BY <2>5 DEF Load, Answer, Goto
  <2>6. ASSUME NEW d \in Calls, FillRefused(d) PROVE FALSE
    BY <2>6 DEF FillRefused, Answer
  <2>7. ASSUME NEW d \in Calls, FillRevoked(d) PROVE FALSE
    BY <2>7 DEF FillRevoked, Answer
  <2>8. ASSUME NEW d \in Calls, FillActive(d) PROVE FALSE
    BY <2>8 DEF FillActive, putIfAbsent, Answer, Goto
  <2>9. ASSUME NEW d \in Calls, Winner(d) PROVE FALSE
    BY <2>9 DEF Winner, getOutcomes, Answer
  <2>10. ASSUME NEW d \in Calls, Persist(d) PROVE FALSE
    BY <2>10 DEF Persist, Fail, Answer, Goto
  <2>11. ASSUME NEW d \in Calls, Tombstone(d) PROVE FALSE
    BY <2>11 DEF Tombstone, Fail, Answer
  <2> QED
    BY <2>1, <2>2, <2>3, <2>4, <2>5, <2>6, <2>7, <2>8, <2>9, <2>10, <2>11
    DEF Next, Work
<1> QED
  BY InductiveInvariant, <1>1, PTL DEF Spec, RevocationHolds

-----------------------------------------------------------------------------
(* Logins.                                                                   *)

\* The initial state satisfies the invariant.
LEMMA AuthInitInv == AuthInit => AuthInv
BY DEF AuthInit, AuthInv, AuthTypeOK, AnswersMatchAccount, Verified, Registrar

\* A row that is there keeps its password: createUser takes only free names, and
\* an upgrade stores the password that was verified.
LEMMA PasswordsStay ==
  ASSUME AuthInv, NEW c \in Attempts, AuthStep(c), NEW n \in Names, users[n] # None
  PROVE  users'[n] # None /\ users'[n].password = users[n].password
<1> USE AuthAssumption DEF AuthInv, AuthTypeOK, UserRows, Logins
<1>1. CASE CreateUser(c)
  BY <1>1 DEF CreateUser, InsertUser, NewHash
<1>2. CASE UpdatePasswordHash(c)
  <2>1. NewHash(login[c].password) \in UserRows
    BY <1>2 DEF UpdatePasswordHash, NewHash
  <2> QED
    BY <1>2, <2>1 DEF UpdatePasswordHash, NewHash, Verified
<1>3. CASE FindUser(c)
  BY <1>3 DEF FindUser
<1>4. CASE CreateSession(c)
  BY <1>4 DEF CreateSession
<1> QED
  BY <1>1, <1>2, <1>3, <1>4 DEF AuthStep

\* Whoever is past the check has the account's password after every step.
LEMMA VerifiedStep ==
  ASSUME AuthInv, NEW c \in Attempts, AuthStep(c)
  PROVE  Verified'
<1> USE AuthAssumption DEF AuthInv, AuthTypeOK
<1>1. \A d \in Attempts \ {c} : awaits'[d] = awaits[d] /\ login'[d] = login[d]
  BY DEF AuthStep, FindUser, CreateUser, UpdatePasswordHash, CreateSession, Submit,
         Unavailable, Completed
<1>2. ASSUME NEW d \in Attempts \ {c}, awaits'[d] \in {"upgrade", "session"}
      PROVE  /\ users'[login'[d].name] # None
             /\ users'[login'[d].name].password = login'[d].password
  <2>1. /\ login[d].name \in Names
        /\ users[login[d].name] # None
        /\ users[login[d].name].password = login[d].password
    BY <1>1, <1>2 DEF Verified, Logins
  <2> QED
    BY <1>1, <2>1, PasswordsStay
<1>3. ASSUME awaits'[c] \in {"upgrade", "session"}
      PROVE  /\ users'[login'[c].name] # None
             /\ users'[login'[c].name].password = login'[c].password
  <2>1. CASE FindUser(c)
    BY <1>3, <2>1 DEF FindUser, Submit, Unavailable, Completed, verifyPassword
  <2>2. CASE CreateUser(c)
    <3>1. NewHash(login[c].password) \in UserRows /\ login[c] \in Logins
      BY <2>2 DEF CreateUser, NewHash, UserRows, Logins
    <3>2. /\ users' = [users EXCEPT ![login[c].name] = NewHash(login[c].password)]
          /\ login' = [login EXCEPT ![c].isNew = TRUE]
      BY <1>3, <2>2 DEF CreateUser, InsertUser, Unavailable, Completed
    <3> QED
      BY <3>1, <3>2 DEF NewHash, Logins
  <2>3. CASE UpdatePasswordHash(c)
    <3>1. NewHash(login[c].password) \in UserRows /\ login[c] \in Logins
      BY <2>3 DEF UpdatePasswordHash, NewHash, UserRows, Logins
    <3>2. /\ users' = [users EXCEPT ![login[c].name] = NewHash(login[c].password)]
          /\ login' = login
      BY <1>3, <2>3 DEF UpdatePasswordHash, Unavailable, Completed
    <3> QED
      BY <3>1, <3>2 DEF NewHash, Logins
  <2>4. CASE CreateSession(c)
    BY <1>3, <2>4 DEF CreateSession, Unavailable, Completed
  <2> QED
    BY <2>1, <2>2, <2>3, <2>4 DEF AuthStep
<1> QED
  BY <1>2, <1>3 DEF Verified

\* Types are kept by every task.
LEMMA AuthTypeStep ==
  ASSUME AuthInv, NEW c \in Attempts, AuthStep(c)
  PROVE  AuthTypeOK'
<1> USE AuthAssumption DEF AuthInv, AuthTypeOK, Submit, Unavailable, Completed
<1>1. login[c] \in Logins /\ login[c].name \in Names /\ login[c].password \in Passwords
  BY DEF AuthStep, FindUser, CreateUser, UpdatePasswordHash, CreateSession, Logins
<1>2. NewHash(login[c].password) \in UserRows
  BY <1>1 DEF NewHash, UserRows
<1>3. CASE FindUser(c)
  BY <1>1, <1>3 DEF FindUser
<1>4. CASE CreateUser(c)
  <2>1. [login[c] EXCEPT !.isNew = TRUE] \in Logins
    BY <1>1 DEF Logins
  <2>2. users' \in [Names -> UserRows \cup {None}]
    BY <1>1, <1>2, <1>4 DEF CreateUser, InsertUser
  <2>3. CASE Unavailable(c)
    BY <1>1, <1>4, <2>2, <2>3 DEF CreateUser
  <2>4. CASE Submit(c, "session") /\ login' = [login EXCEPT ![c].isNew = TRUE]
    <3>1. login' = [login EXCEPT ![c] = [login[c] EXCEPT !.isNew = TRUE]]
      BY <1>1, <2>4
    <3> QED
      BY <1>4, <2>1, <2>2, <2>4, <3>1 DEF CreateUser
  <2> QED
    BY <1>4, <2>3, <2>4 DEF CreateUser
<1>5. CASE UpdatePasswordHash(c)
  BY <1>1, <1>2, <1>5 DEF UpdatePasswordHash
<1>6. CASE CreateSession(c)
  <2>1. CASE Unavailable(c) /\ UNCHANGED sessions
    BY <1>6, <2>1 DEF CreateSession
  <2>2. ASSUME NEW t \in FreshTokens, sessions' = [sessions EXCEPT ![t] = login[c].name],
               Unavailable(c)
        PROVE  AuthTypeOK'
    BY <1>1, <1>6, <2>2 DEF CreateSession, FreshTokens
  <2>3. ASSUME NEW t \in FreshTokens, sessions' = [sessions EXCEPT ![t] = login[c].name],
               Completed(c), granted' = granted \cup {[token |-> t, login |-> login[c]]},
               UNCHANGED rejected
        PROVE  AuthTypeOK'
    <3>1. [token |-> t, login |-> login[c]] \in [token : SessionTokens, login : Logins]
      BY <1>1 DEF FreshTokens
    <3> QED
      BY <1>1, <1>6, <2>3, <3>1 DEF CreateSession, FreshTokens
  <2> QED
    BY <1>6, <2>1, <2>2, <2>3 DEF CreateSession
<1> QED
  BY <1>3, <1>4, <1>5, <1>6 DEF AuthStep

\* The answers that were given stay right, and the one that is given is right.
LEMMA AnswersStep ==
  ASSUME AuthInv, NEW c \in Attempts, AuthStep(c)
  PROVE  AnswersMatchAccount'
<1> USE AuthAssumption DEF AuthInv
<1>1. \A n \in Names : users[n] # None =>
          users'[n] # None /\ users'[n].password = users[n].password
  BY PasswordsStay
<1>2. login[c] \in Logins /\ login[c].name \in Names
  BY DEF AuthStep, FindUser, CreateUser, UpdatePasswordHash, CreateSession, Logins, AuthTypeOK
<1>3. /\ \A g \in granted : g.login.name \in Names
      /\ \A r \in rejected : r.name \in Names
  BY DEF AuthTypeOK, Logins
<1>4. ASSUME granted' = granted, rejected' = rejected
      PROVE  AnswersMatchAccount'
  BY <1>1, <1>3, <1>4 DEF AnswersMatchAccount
<1>5. ASSUME FindUser(c), rejected' = rejected \cup {login[c]}, granted' = granted,
             users[login[c].name] # None, users[login[c].name].password # login[c].password
      PROVE  AnswersMatchAccount'
  BY <1>1, <1>2, <1>3, <1>5 DEF AnswersMatchAccount
<1>6. ASSUME NEW t \in SessionTokens, CreateSession(c), rejected' = rejected,
             granted' = granted \cup {[token |-> t, login |-> login[c]]}
      PROVE  AnswersMatchAccount'
  <2> DEFINE new == [token |-> t, login |-> login[c]]
  <2>1. new.login = login[c] /\ new \in granted'
    BY <1>6
  <2>2. users[login[c].name] # None /\ users[login[c].name].password = login[c].password
    BY <1>6 DEF CreateSession, Verified
  <2>3. login[c].isNew => \A g \in granted : g.login.isNew => g.login.name # login[c].name
    BY <1>6 DEF CreateSession, Registrar
  <2>4. \A g \in granted' : g \in granted \/ g = new
    BY <1>6
  <2>5. \A g \in granted' : /\ users'[g.login.name] # None
                            /\ users'[g.login.name].password = g.login.password
    BY <1>1, <1>2, <1>3, <2>1, <2>2, <2>4 DEF AnswersMatchAccount
  <2>6. \A g, h \in granted' :
            g.login.isNew /\ h.login.isNew /\ g.login.name = h.login.name => g = h
    BY <2>1, <2>3, <2>4 DEF AnswersMatchAccount
  <2> QED
    BY <1>1, <1>3, <1>6, <2>5, <2>6 DEF AnswersMatchAccount
<1>7. CASE FindUser(c)
  BY <1>4, <1>5, <1>7 DEF FindUser, Submit, Unavailable, verifyPassword
<1>8. CASE CreateUser(c)
  BY <1>4, <1>8 DEF CreateUser, Submit, Unavailable
<1>9. CASE UpdatePasswordHash(c)
  BY <1>4, <1>9 DEF UpdatePasswordHash, Submit, Unavailable
<1>10. CASE CreateSession(c)
  BY <1>4, <1>6, <1>10 DEF CreateSession, Unavailable, FreshTokens
<1> QED
  BY <1>7, <1>8, <1>9, <1>10 DEF AuthStep

\* A call becomes the registrar of a name when it inserts the row, which was not
\* there: nobody else has been told or is about to be.
LEMMA RegistrarStep ==
  ASSUME AuthInv, NEW c \in Attempts, AuthStep(c)
  PROVE  Registrar'
<1> USE AuthAssumption DEF AuthInv, AuthTypeOK
<1>1. login[c] \in Logins /\ awaits[c] # "idle"
  BY DEF AuthStep, FindUser, CreateUser, UpdatePasswordHash, CreateSession
<1>2. ASSUME awaits'[c] = "idle", granted' = granted,
             \A d \in Attempts \ {c} : awaits'[d] = awaits[d] /\ login'[d] = login[d]
      PROVE  Registrar'
  BY <1>2 DEF Registrar
<1>3. ASSUME login' = login, granted' = granted, awaits[c] # "session", awaits[c] # "idle",
             awaits'[c] # "idle", \A d \in Attempts \ {c} : awaits'[d] = awaits[d]
      PROVE  Registrar'
  BY <1>3 DEF Registrar
<1>4. CASE FindUser(c)
  BY <1>2, <1>3, <1>4 DEF FindUser, Submit, Unavailable, Completed
<1>5. CASE UpdatePasswordHash(c)
  BY <1>2, <1>3, <1>5 DEF UpdatePasswordHash, Submit, Unavailable, Completed
<1>6. CASE CreateUser(c)
  <2>1. CASE Unavailable(c)
    BY <1>2, <2>1 DEF Unavailable, Completed
  <2>2. ASSUME users[login[c].name] = None, Submit(c, "session"),
               login' = [login EXCEPT ![c].isNew = TRUE]
        PROVE  Registrar'
    <3>1. /\ login'[c].name = login[c].name
          /\ awaits'[c] = "session"
          /\ \A d \in Attempts \ {c} : awaits'[d] = awaits[d] /\ login'[d] = login[d]
          /\ granted' = granted
      BY <1>1, <2>2 DEF Submit, Logins
    <3>2. \A g \in granted : g.login.name # login[c].name
      BY <2>2 DEF AnswersMatchAccount
    <3>3. \A d \in Attempts \ {c} :
              awaits[d] # "idle" /\ login[d].isNew => login[d].name # login[c].name
      BY <2>2 DEF Registrar, Verified
    <3> QED
      BY <3>1, <3>2, <3>3 DEF Registrar
  <2> QED
    BY <1>6, <2>1, <2>2 DEF CreateUser, InsertUser
<1>7. CASE CreateSession(c)
  <2>1. CASE Unavailable(c)
    BY <1>2, <2>1 DEF Unavailable, Completed
  <2>2. ASSUME NEW t \in SessionTokens, Completed(c),
               granted' = granted \cup {[token |-> t, login |-> login[c]]}
        PROVE  Registrar'
    BY <1>1, <2>2 DEF Completed, Registrar
  <2> QED
    BY <1>7, <2>1, <2>2 DEF CreateSession, FreshTokens
<1> QED
  BY <1>4, <1>5, <1>6, <1>7 DEF AuthStep

\* A new login disturbs nothing.
LEMMA BeginStep ==
  ASSUME AuthInv, NEW c \in Attempts, NEW n \in Names, NEW p \in Passwords,
         authenticate(c, n, p)
  PROVE  AuthInv'
<1> USE DEF authenticate, Submit, AuthInv, AuthTypeOK
<1>1. [name |-> n, password |-> p, isNew |-> FALSE] \in Logins
  BY DEF Logins
<1>2. AuthTypeOK'
  BY <1>1
<1>3. AnswersMatchAccount'
  BY DEF AnswersMatchAccount
<1>4. Verified' /\ Registrar'
  BY DEF Verified, Registrar
<1> QED
  BY <1>2, <1>3, <1>4

\* Every step keeps the invariant.
LEMMA AuthInvStep == AuthInv /\ [AuthNext]_authVars => AuthInv'
<1> SUFFICES ASSUME AuthInv, [AuthNext]_authVars PROVE AuthInv'
  OBVIOUS
<1>1. ASSUME NEW c \in Attempts, AuthStep(c) PROVE AuthInv'
  BY <1>1, AuthTypeStep, AnswersStep, VerifiedStep, RegistrarStep DEF AuthInv
<1>2. CASE UNCHANGED authVars
  BY <1>2 DEF authVars, AuthInv, AuthTypeOK, AnswersMatchAccount, Verified, Registrar
<1> QED
  BY <1>1, <1>2, BeginStep DEF AuthNext

\* Who is answered 200 has the password of the account, who is answered 401 has
\* not, and a name is reported as new at most once, whatever logins with one name
\* run at the same time and whatever fails between the tasks of AuthService.
THEOREM AnswersRight == AuthSpec => []AnswersMatchAccount
<1>1. AuthInv => AnswersMatchAccount
  BY DEF AuthInv
<1> QED
  BY <1>1, AuthInitInv, AuthInvStep, PTL DEF AuthSpec

=============================================================================
