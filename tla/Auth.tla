-------------------------------- MODULE Auth --------------------------------
(***************************************************************************)
(* Login and registration: AuthHandler::handle and ar::AuthService over the *)
(* tables `users` and `sessions`.  A name that is not found is registered   *)
(* by its first login; a row with an old SHA-256 hash is upgraded to        *)
(* Argon2id.  Every access to MySQL is a task of its own, whose callback    *)
(* submits the next one, so that logins with one name interleave.           *)
(*                                                                          *)
(* A stored hash is the password it was made of and its scheme: verifying   *)
(* compares the passwords.  The session is a row for SessionStore to read    *)
(* and revoke.                                                              *)
(***************************************************************************)
CONSTANTS
    Names,          \* user names
    Passwords,
    SessionTokens,  \* bound: the session tokens that can be drawn
    Attempts,       \* requests that may be in flight at the same time
    None            \* no row, no token

VARIABLES
    users,      \* rows of `users`
    sessions,   \* rows of `sessions`: the user a token belongs to
    awaits,     \* "idle", or the task the callback chain of a call waits for:
                \* "find", "create", "upgrade" or "session"
    login,      \* the credentials a login call carries, and if it registered
    granted,    \* history: the logins answered 200
    rejected    \* history: the logins answered 401

authVars == <<users, sessions, awaits, login, granted, rejected>>

UserRows == [password : Passwords, scheme : {"sha256", "argon2id"}]
Logins == [name : Names, password : Passwords, isNew : BOOLEAN]

\* No row and no login is None.
ASSUME AuthAssumption == None \notin Names \cup UserRows \cup Logins

\* Accounts made by an earlier version have the old scheme.
AuthInit ==
    /\ users \in [Names -> UserRows \cup {None}]
    /\ sessions = [t \in SessionTokens |-> None]
    /\ awaits = [c \in Attempts |-> "idle"]
    /\ login = [c \in Attempts |-> None]
    /\ granted = {}
    /\ rejected = {}

FreshTokens == {t \in SessionTokens : sessions[t] = None}

-----------------------------------------------------------------------------
(* AuthHandler::handle and AuthService::authenticate.                        *)

\* The chain goes on with the next task.
Submit(c, stage) ==
    /\ awaits' = [awaits EXCEPT ![c] = stage]
    /\ UNCHANGED <<granted, rejected>>

Completed(c) ==
    /\ awaits' = [awaits EXCEPT ![c] = "idle"]
    /\ login' = [login EXCEPT ![c] = None]

\* completion(result, 503): a database error, a refused task, or no randomness.
Unavailable(c) == Completed(c) /\ UNCHANGED <<granted, rejected>>

\* Credentials of the right form are looked up; others are answered 400 before
\* anything happens.
authenticate(c, n, p) ==
    /\ awaits[c] = "idle"
    /\ login' = [login EXCEPT ![c] = [name |-> n, password |-> p, isNew |-> FALSE]]
    /\ Submit(c, "find")
    /\ UNCHANGED <<users, sessions>>

\* Both schemes compare in full.
verifyPassword(row, password) == row.password = password

\* findUserByUsername and its callback.  A missing row and every error give a
\* null pointer, which counts as an unknown name.
FindUser(c) ==
    /\ awaits[c] = "find"
    /\ \E row \in {users[login[c].name], None} :
         \/ /\ row = None
            /\ (Submit(c, "create") /\ UNCHANGED login) \/ Unavailable(c)
         \/ /\ row # None /\ verifyPassword(row, login[c].password)
            /\ \/ /\ Submit(c, IF row.scheme = "sha256" THEN "upgrade" ELSE "session")
                  /\ UNCHANGED login
               \/ Unavailable(c)
         \/ /\ row # None /\ ~verifyPassword(row, login[c].password)
            /\ Completed(c)
            /\ rejected' = rejected \cup {login[c]}
            /\ UNCHANGED granted
    /\ UNCHANGED <<users, sessions>>

\* passwordHash.
NewHash(p) == [password |-> p, scheme |-> "argon2id"]

\* Mutant: a name that is taken counts as registered.
InsertUser_Ignore(n, row) ==
    users' = [users EXCEPT ![n] = IF @ = None THEN row ELSE @]

\* INSERT INTO users; username is a unique key.
InsertUser(n, row) ==
    /\ users[n] = None
    /\ users' = [users EXCEPT ![n] = row]

\* Mutant: a name that could not be registered is looked up again.
CreateUser_Retries(c) ==
    /\ awaits[c] = "create"
    /\ \/ /\ InsertUser(login[c].name, NewHash(login[c].password))
          /\ Submit(c, "session")
          /\ login' = [login EXCEPT ![c].isNew = TRUE]
       \/ Submit(c, "find") /\ UNCHANGED <<login, users>>
    /\ UNCHANGED sessions

\* createUser.  When the connection fails the row may be there all the same.
CreateUser(c) ==
    /\ awaits[c] = "create"
    /\ \/ /\ InsertUser(login[c].name, NewHash(login[c].password))
          /\ \/ Submit(c, "session") /\ login' = [login EXCEPT ![c].isNew = TRUE]
             \/ Unavailable(c)
       \/ Unavailable(c) /\ UNCHANGED users
    /\ UNCHANGED sessions

\* updatePasswordHash: two upgrades of one row both succeed, as each hash has a
\* salt of its own.
UpdatePasswordHash(c) ==
    /\ awaits[c] = "upgrade"
    /\ \/ /\ users' = [users EXCEPT ![login[c].name] = NewHash(login[c].password)]
          /\ (Submit(c, "session") /\ UNCHANGED login) \/ Unavailable(c)
       \/ Unavailable(c) /\ UNCHANGED users
    /\ UNCHANGED sessions

\* token() and createSession.  A session whose insertion was not confirmed may
\* exist, but nobody knows its token.
CreateSession(c) ==
    /\ awaits[c] = "session"
    /\ \/ \E t \in FreshTokens :
            /\ sessions' = [sessions EXCEPT ![t] = login[c].name]
            /\ \/ /\ Completed(c)
                  /\ granted' = granted \cup {[token |-> t, login |-> login[c]]}
                  /\ UNCHANGED rejected
               \/ Unavailable(c)
       \/ Unavailable(c) /\ UNCHANGED sessions
    /\ UNCHANGED users

AuthStep(c) == FindUser(c) \/ CreateUser(c) \/ UpdatePasswordHash(c) \/ CreateSession(c)

AuthNext ==
    \/ \E c \in Attempts, n \in Names, p \in Passwords : authenticate(c, n, p)
    \/ \E c \in Attempts : AuthStep(c)

AuthSpec == AuthInit /\ [][AuthNext]_authVars

\* The database workers run the tasks they accept.
AuthFairSpec == AuthSpec /\ \A c \in Attempts : WF_authVars(AuthStep(c))

-----------------------------------------------------------------------------
(* Properties.                                                               *)

\* Types; a call that is under way has credentials.
AuthTypeOK ==
    /\ users \in [Names -> UserRows \cup {None}]
    /\ sessions \in [SessionTokens -> Names \cup {None}]
    /\ awaits \in [Attempts -> {"idle", "find", "create", "upgrade", "session"}]
    /\ login \in [Attempts -> Logins \cup {None}]
    /\ \A c \in Attempts : awaits[c] # "idle" => login[c] \in Logins
    /\ granted \subseteq [token : SessionTokens, login : Logins]
    /\ rejected \subseteq Logins

\* Who was answered 200 had the password of the account, and who was answered
\* 401 had not, whatever other logins, registrations and upgrades with that name
\* were doing at the same time; and of the logins that race to register one name
\* at most one is told that the account is new.
AnswersMatchAccount ==
    /\ \A g \in granted : /\ users[g.login.name] # None
                          /\ users[g.login.name].password = g.login.password
    /\ \A r \in rejected : /\ users[r.name] # None
                           /\ users[r.name].password # r.password
    /\ \A g, h \in granted :
           g.login.isNew /\ h.login.isNew /\ g.login.name = h.login.name => g = h

\* Every login is answered.
LoginsAnswered == \A c \in Attempts : awaits[c] # "idle" ~> awaits[c] = "idle"

-----------------------------------------------------------------------------
(* The strengthening that makes AnswersMatchAccount inductive.               *)

\* Past verifyPassword or createUser the account exists and has the password.
Verified ==
    \A c \in Attempts :
        awaits[c] \in {"upgrade", "session"} =>
            /\ users[login[c].name] # None
            /\ users[login[c].name].password = login[c].password

\* The call that has registered a name is the only one that says so.
Registrar ==
    \A c \in Attempts :
        awaits[c] # "idle" /\ login[c].isNew =>
            /\ awaits[c] = "session"
            /\ \A g \in granted : g.login.isNew => g.login.name # login[c].name
            /\ \A d \in Attempts \ {c} :
                   awaits[d] # "idle" /\ login[d].isNew => login[d].name # login[c].name

AuthInv == AuthTypeOK /\ AnswersMatchAccount /\ Verified /\ Registrar

=============================================================================
