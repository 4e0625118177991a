------------------------------ MODULE Accounts ------------------------------
(***************************************************************************)
(* Registration, sign-in, sign-out, account deletion and the session purge *)
(* (modules/auth), with the attempt limiters in the memory of the API      *)
(* process.  A request awaits a password hash between its reads and its    *)
(* write, so requests on one address or one account overlap.               *)
(*                                                                         *)
(* A cookie is the session it names.  Passwords are left out: whether one  *)
(* is right is a choice, except that an unknown account never has one.     *)
(***************************************************************************)
EXTENDS AttemptLimiter, FiniteSets

CONSTANTS
  Emails,         \* normalised e-mail addresses
  Addresses,      \* client IP addresses
  Requests,       \* requests that may be in flight at once
  UserIds,        \* ids newUserId may draw, each once
  Tokens,         \* tokens newToken may draw, each once
  NoUser,         \* no row
  AccountLimit,   \* LIMITS.loginPerAccount.limit
  AddressLimit,   \* LIMITS.loginPerIp.limit
  RegisterLimit,  \* LIMITS.registerPerIp.limit
  SessionTtl,     \* SESSION_TTL_MS, in ticks
  MaxTime         \* bound on the clock

ASSUME AccountsAssumption ==
  /\ NoUser \notin UserIds
  /\ {AccountLimit, AddressLimit, RegisterLimit} \subseteq Nat \ {0}
  /\ SessionTtl \in Nat \ {0}
  /\ MaxTime \in Nat

VARIABLES
  now,           \* the clock
  users,         \* users: id and email
  sessions,      \* sessions: token, user and expiry
  spent,         \* ids and tokens already drawn
  perAccount,    \* throttle.loginPerAccount
  perAddress,    \* throttle.loginPerIp
  registrations, \* throttle.registerPerIp
  req,           \* requests between two of their steps
  wasted         \* history: how many sign-ins begun at or after a time got no session

limiters == <<perAccount, perAddress, registrations>>
rows == <<users, sessions, spent>>
accVars == <<now, users, sessions, spent, perAccount, perAddress, registrations, req, wasted>>

Times == 0..MaxTime
User == [id : UserIds, email : Emails]
Session == [token : Tokens, user : UserIds, expires : Nat]

Idle == [pc |-> "idle"]

ReqState ==
  {Idle}
    \cup [pc : {"login"}, address : Addresses, email : Emails, at : Times]
    \cup [pc : {"verify"}, address : Addresses, email : Emails, at : Times, user : UserIds \cup {NoUser}]
    \cup [pc : {"open"}, address : Addresses, email : Emails, at : Times, user : UserIds, expires : Nat]
    \cup [pc : {"register"}, address : Addresses, email : Emails, at : Times]
    \cup [pc : {"enrol"}, address : Addresses, email : Emails, at : Times, expires : Nat]
    \cup [pc : {"erase"}, user : UserIds]

AccTypeOK ==
  /\ now \in Times
  /\ users \subseteq User
  /\ sessions \subseteq Session
  /\ spent \subseteq UserIds \cup Tokens
  /\ perAccount \in [Addresses \X Emails -> Seq(Times)]
  /\ perAddress \in [Addresses -> Seq(Times)]
  /\ registrations \in [Addresses -> Seq(Times)]
  /\ req \in [Requests -> ReqState]
  /\ wasted \in [Addresses -> [Times -> Nat]]

NoAttempts ==
  /\ perAccount = [k \in Addresses \X Emails |-> <<>>]
  /\ perAddress = [a \in Addresses |-> <<>>]
  /\ registrations = [a \in Addresses |-> <<>>]
  /\ wasted = [a \in Addresses |-> [t \in Times |-> 0]]

AccInit ==
  /\ now = 0
  /\ users = {}
  /\ sessions = {}
  /\ spent = {}
  /\ NoAttempts
  /\ req = [r \in Requests |-> Idle]

Ids == {u.id : u \in users}
SigningIn == {"login", "verify", "open"}
Registering == {"register", "enrol"}

Key(r) == <<req[r].address, req[r].email>>

-----------------------------------------------------------------------------
(* Sign-in.                                                                *)

\* Counted as a failure up front; a refused attempt changes nothing.
Login(r, a, e) ==
  /\ req[r] = Idle
  /\ RetryAfter(perAccount[<<a, e>>], AccountLimit, now) = 0
  /\ RetryAfter(perAddress[a], AddressLimit, now) = 0
  /\ perAccount' = Record(perAccount, <<a, e>>, now)
  /\ perAddress' = Record(perAddress, a, now)
  /\ req' = [req EXCEPT ![r] = [pc |-> "login", address |-> a, email |-> e, at |-> now]]
  /\ UNCHANGED <<now, rows, registrations, wasted>>

FoundBy(e) == {x.id : x \in {y \in users : y.email = e}}

\* findUserByEmail.  An unknown address is verified against a decoy.
LookUp(r) ==
  /\ req[r].pc = "login"
  /\ \E u \in IF FoundBy(req[r].email) = {} THEN {NoUser} ELSE FoundBy(req[r].email) :
       req' = [req EXCEPT ![r] = [pc |-> "verify", address |-> @.address,
                                  email |-> @.email, at |-> @.at, user |-> u]]
  /\ UNCHANGED <<now, rows, limiters, wasted>>

\* The password is right: the session is made, and inserted next.
Accept(r) ==
  /\ req[r].pc = "verify"
  /\ req[r].user # NoUser
  /\ req' = [req EXCEPT ![r] = [pc |-> "open", address |-> @.address, email |-> @.email,
                                at |-> @.at, user |-> @.user, expires |-> now + SessionTtl]]
  /\ UNCHANGED <<now, rows, limiters, wasted>>

\* Mutant: the session of an account that is gone is inserted all the same.
OpenSessionUnchecked(r) ==
  /\ req[r].pc = "open"
  /\ \E k \in Tokens \ spent :
       /\ sessions' = sessions \cup {[token |-> k, user |-> req[r].user, expires |-> req[r].expires]}
       /\ spent' = spent \cup {k}
  /\ perAccount' = Reset(perAccount, Key(r))
  /\ perAddress' = Release(perAddress, req[r].address, now)
  /\ req' = [req EXCEPT ![r] = Idle]
  /\ UNCHANGED <<now, users, registrations, wasted>>

\* createSession, with its foreign key, then the attempt is withdrawn.
OpenSession(r) ==
  /\ req[r].pc = "open"
  /\ req[r].user \in Ids
  /\ \E k \in Tokens \ spent :
       /\ sessions' = sessions \cup {[token |-> k, user |-> req[r].user, expires |-> req[r].expires]}
       /\ spent' = spent \cup {k}
  /\ perAccount' = Reset(perAccount, Key(r))
  /\ perAddress' = Release(perAddress, req[r].address, now)
  /\ req' = [req EXCEPT ![r] = Idle]
  /\ UNCHANGED <<now, users, registrations, wasted>>

-----------------------------------------------------------------------------
(* Registration.                                                           *)

\* Mutant: the registration is counted once it succeeded.
RegisterUncounted(r, a, e) ==
  /\ req[r] = Idle
  /\ RetryAfter(registrations[a], RegisterLimit, now) = 0
  /\ req' = [req EXCEPT ![r] = [pc |-> "register", address |-> a, email |-> e, at |-> now]]
  /\ UNCHANGED <<now, rows, limiters, wasted>>

Register(r, a, e) ==
  /\ req[r] = Idle
  /\ RetryAfter(registrations[a], RegisterLimit, now) = 0
  /\ registrations' = Record(registrations, a, now)
  /\ req' = [req EXCEPT ![r] = [pc |-> "register", address |-> a, email |-> e, at |-> now]]
  /\ UNCHANGED <<now, rows, perAccount, perAddress, wasted>>

\* The password is hashed, the first session made.
Hash(r) ==
  /\ req[r].pc = "register"
  /\ req' = [req EXCEPT ![r] = [pc |-> "enrol", address |-> @.address, email |-> @.email,
                                at |-> @.at, expires |-> now + SessionTtl]]
  /\ UNCHANGED <<now, rows, limiters, wasted>>

\* Mutant: the unique key on the address is missing.
EnrolUnchecked(r) ==
  /\ req[r].pc = "enrol"
  /\ \E u \in UserIds \ spent, k \in Tokens \ spent :
       /\ users' = users \cup {[id |-> u, email |-> req[r].email]}
       /\ sessions' = sessions \cup {[token |-> k, user |-> u, expires |-> req[r].expires]}
       /\ spent' = spent \cup {u, k}
  /\ req' = [req EXCEPT ![r] = Idle]
  /\ UNCHANGED <<now, limiters, wasted>>

\* createUserWithSession: one transaction, refused by the unique key when the
\* address is taken.
Enrol(r) ==
  /\ req[r].pc = "enrol"
  /\ \A x \in users : x.email # req[r].email
  /\ \E u \in UserIds \ spent, k \in Tokens \ spent :
       /\ users' = users \cup {[id |-> u, email |-> req[r].email]}
       /\ sessions' = sessions \cup {[token |-> k, user |-> u, expires |-> req[r].expires]}
       /\ spent' = spent \cup {u, k}
  /\ req' = [req EXCEPT ![r] = Idle]
  /\ UNCHANGED <<now, limiters, wasted>>

-----------------------------------------------------------------------------
(* Sessions and the account's end.                                         *)

\* findUserBySession: the session exists, its user too, and it has not expired.
Authenticates(s) == s \in sessions /\ s.user \in Ids /\ s.expires > now

Logout(s) ==
  /\ sessions' = sessions \ {s}
  /\ UNCHANGED <<now, users, spent, limiters, req, wasted>>

\* Mutant: the purge compares the other way round.
PurgeUnexpired ==
  /\ sessions' = {s \in sessions : s.expires <= now}
  /\ UNCHANGED <<now, users, spent, limiters, req, wasted>>

\* deleteExpiredSessions, at start and then every hour.
Purge ==
  /\ sessions' = {s \in sessions : ~(s.expires <= now)}
  /\ UNCHANGED <<now, users, spent, limiters, req, wasted>>

\* DELETE /auth/me: the cookie names the account, the password is verified.
BeginErase(r, s) ==
  /\ req[r] = Idle
  /\ Authenticates(s)
  /\ req' = [req EXCEPT ![r] = [pc |-> "erase", user |-> s.user]]
  /\ UNCHANGED <<now, rows, limiters, wasted>>

\* deleteAccount.  Sessions cascade; a second deletion finds nothing.
Erase(r) ==
  /\ req[r].pc = "erase"
  /\ users' = {x \in users : x.id # req[r].user}
  /\ sessions' = {s \in sessions : s.user # req[r].user}
  /\ req' = [req EXCEPT ![r] = Idle]
  /\ UNCHANGED <<now, spent, limiters, wasted>>

-----------------------------------------------------------------------------

\* A wrong password, a taken address, a foreign key, any database error.  A
\* sign-in stays counted as the failure it was recorded as.
Refuse(r) ==
  /\ req[r] # Idle
  /\ wasted' = IF req[r].pc \in SigningIn
                 THEN [wasted EXCEPT ![req[r].address] =
                         [t \in Times |-> @[t] + IF t <= req[r].at THEN 1 ELSE 0]]
                 ELSE wasted
  /\ req' = [req EXCEPT ![r] = Idle]
  /\ UNCHANGED <<now, rows, limiters>>

\* The API process restarts: the limiters start empty, the rows remain.
Restart ==
  /\ perAccount' = [k \in Addresses \X Emails |-> <<>>]
  /\ perAddress' = [a \in Addresses |-> <<>>]
  /\ registrations' = [a \in Addresses |-> <<>>]
  /\ wasted' = [a \in Addresses |-> [t \in Times |-> 0]]
  /\ req' = [r \in Requests |-> Idle]
  /\ UNCHANGED <<now, rows>>

Tick ==
  /\ now < MaxTime
  /\ now' = now + 1
  /\ UNCHANGED <<rows, limiters, req, wasted>>

AccNext ==
  \/ \E r \in Requests, a \in Addresses, e \in Emails : Login(r, a, e) \/ Register(r, a, e)
  \/ \E r \in Requests : LookUp(r) \/ Accept(r) \/ OpenSession(r)
  \/ \E r \in Requests : Hash(r) \/ Enrol(r)
  \/ \E r \in Requests, s \in sessions : BeginErase(r, s)
  \/ \E r \in Requests : Erase(r) \/ Refuse(r)
  \/ \E s \in sessions : Logout(s)
  \/ Purge
  \/ Restart
  \/ Tick

AccSpec == AccInit /\ [][AccNext]_accVars

-----------------------------------------------------------------------------

\* Two registrations that overlap never give one address two accounts
\* (the comment in createUserWithSession).
OneAccountPerEmail ==
  \A x, y \in users : x.email = y.email => x = y

\* Deleting an account revokes every session for good, also those of sign-ins
\* that had found the account before and finish after ("Sessions" in
\* docs/architecture.md).
SessionsBelongToAccounts ==
  \A s \in sessions : s.user \in Ids

\* Registrations whose hash is running never exceed the limit of their
\* address, however many arrive before the first one ends ("Counted before
\* hashing" in routes.ts).
HashingIsBounded ==
  \A a \in Addresses :
    Cardinality({r \in Requests : /\ req[r].pc \in Registering
                                  /\ req[r].address = a
                                  /\ req[r].at + Window > now}) <= RegisterLimit

\* An address that waits as long as it was told may try again, and not one
\* tick earlier (Retry-After of the 429 answer).
RefusalsAreExact ==
  \A a \in Addresses :
    LET wait == RetryAfter(perAddress[a], AddressLimit, now)
    IN wait > 0 => /\ RetryAfter(perAddress[a], AddressLimit, now + wait) = 0
                   /\ RetryAfter(perAddress[a], AddressLimit, (now + wait) - 1) > 0

\* Successful sign-ins cost their address nothing, in whatever order sign-ins
\* overlap: what is counted never exceeds what failed or is still running.
SuccessesCostNothing ==
  \A a \in Addresses :
    LET first == IF now < Window THEN 0 ELSE now - Window + 1
        running == {r \in Requests : /\ req[r].pc \in SigningIn
                                     /\ req[r].address = a
                                     /\ req[r].at >= first}
    IN Len(Recent(perAddress[a], now)) <= Cardinality(running) + wasted[a][first]

\* A session that would still authenticate only ends by signing out of it or
\* with its account: the purge, other sessions of the user and restarts
\* never end it.
SessionsEndForAReason ==
  [][\A s \in sessions \ sessions' :
       \/ s.expires <= now
       \/ s.user \notin {x.id : x \in users'}
       \/ Logout(s)]_accVars

=============================================================================
