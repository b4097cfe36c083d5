------------------------------- MODULE SignIn -------------------------------
(***************************************************************************)
(* Host accounts: sign-up, sign-in with a password or with Google,         *)
(* recovery, sign-out and deletion of the account.  A request is a handler *)
(* of internal/webapp/app.go that stops between its steps: to hash or      *)
(* verify a password, which takes an authentication slot, to ask Google,   *)
(* and to wait for the database, where every operation of                  *)
(* internal/store/store.go is one statement or one transaction.            *)
(*                                                                         *)
(* Passwords, sets of recovery codes and session tokens are numbered in    *)
(* order of issue; a password and the set of codes issued with it share a  *)
(* number.  Number 0 stands for what nobody was given: a wrong guess.      *)
(***************************************************************************)
EXTENDS RateLimiter, Sequences

CONSTANTS
  Request,              \* handlers that may be at work together
  Username, Subject,    \* of native accounts, and Google's
  AuthSlots,            \* how many may hash or verify at a time
  Slip,                 \* the recovery codes issued together (eight)
  SessionTTL,
  AuthWindow, LoginLimit, RecoverLimit,  \* of authUsers
  MaxBuckets,           \* above which the limiter forgets old buckets
  MaxUsers, MaxPasswords, MaxSessions, MaxRefused, MaxTime

ASSUME SignInAssumption ==
  /\ IsFiniteSet(Request)
  /\ AuthSlots \in Nat \ {0}
  /\ SessionTTL \in Nat \ {0} /\ AuthWindow \in Nat \ {0}
  /\ LoginLimit \in Nat \ {0} /\ RecoverLimit \in Nat \ {0}
  /\ MaxBuckets \in Nat
  /\ "native" \notin Subject

VARIABLES
  now,
  users,        \* user -> its Google subject, or Native
  credentials,  \* username -> [user, password]
  codes,        \* user -> its recovery codes not used yet
  sessions,     \* token -> [user, expires; password, began, since: history]
  hosts,        \* users who own a party
  requests,     \* Request -> what its handler is at
  slots,        \* authentication slots taken
  buckets,      \* of authUsers
  nextUser, nextSession,
  spent,        \* history: resets each set of codes has served
  passes        \* history: when each key was let through, since the start

vars == <<now, users, credentials, codes, sessions, hosts, requests, slots,
          buckets, nextUser, nextSession, spent, passes>>

database == <<users, credentials, codes, sessions, hosts, nextUser,
              nextSession, spent>>

limiter == <<buckets, passes>>

----------------------------------------------------------------------------
Native == "native"

Password == Nat
NextPassword == Len(spent) + 1

CodesOf(k) == [set : {k}, slip : Slip]

Code == [set : Nat, slip : Slip]

(* A native account has one credential, a Google account none.             *)
PasswordIn(table, user) ==
  IF \E u \in DOMAIN table : table[u].user = user
  THEN table[CHOOSE u \in DOMAIN table : table[u].user = user].password
  ELSE 0

PasswordOf(user) == PasswordIn(credentials, user)

Key == {"login", "recover"} \X Username

LimitOf(key) == IF key[1] = "login" THEN LoginLimit ELSE RecoverLimit

MaxPasses(key) == 2 * LimitOf(key)

Idle == [stage |-> "idle"]
Answering == [stage |-> "answer"]

(* Stages in which the handler holds an authentication slot, which its     *)
(* deferred release gives back however it returns.                         *)
Holding == {"signup", "login", "verify", "recover", "answer"}

Work ==
  [stage : {"idle"}]
  \cup [stage : {"answer"}]
  \cup [stage : {"signup"}, username : Username]
  \cup [stage : {"login"}, username : Username, guess : Password, began : Nat]
  \cup [stage : {"verify"}, user : Nat, password : Password,
        guess : Password, began : Nat]
  \cup [stage : {"recover"}, username : Username, code : Code]
  \cup [stage : {"google"}, subject : Subject, began : Nat]
  \cup [stage : {"session"}, user : Nat, began : Nat]
  \cup [stage : {"delete"}, user : Nat]

SessionRow == [user : Nat, expires : Nat, password : Password, began : Nat,
               since : Password]

Live(token) == token \in DOMAIN sessions /\ sessions[token].expires > now

SessionsOf(user) == {t \in DOMAIN sessions : sessions[t].user = user}

CredentialsOf(user) == {u \in DOMAIN credentials : credentials[u].user = user}

----------------------------------------------------------------------------
Init ==
  /\ now = 0
  /\ users = <<>> /\ credentials = <<>> /\ codes = <<>> /\ sessions = <<>>
  /\ hosts = {}
  /\ requests = [r \in Request |-> Idle]
  /\ slots = 0 /\ buckets = <<>>
  /\ nextUser = 1 /\ nextSession = 1
  /\ spent = <<>> /\ passes = [key \in Key |-> <<>>]

Tick ==
  /\ now < MaxTime
  /\ now' = now + 1
  /\ UNCHANGED <<database, requests, slots, limiter>>

Becomes(r, work) == requests' = [requests EXCEPT ![r] = work]

(* What every handler that works with passwords starts with, and ends with *)
(* by a deferred release.  A handler that finds no slot says so and stops. *)
TakeAuthSlot(r, work) ==
  IF slots < AuthSlots
  THEN slots' = slots + 1 /\ Becomes(r, work)
  ELSE UNCHANGED <<slots, requests>>

Let(key) ==
  /\ Len(passes[key]) < MaxPasses(key)
  /\ key \in DOMAIN buckets => buckets[key].count < LimitOf(key) + MaxRefused
  /\ buckets' = AfterTry(buckets, key, AuthWindow, now, MaxBuckets)
  /\ passes' = IF Allows(buckets, key, LimitOf(key), AuthWindow, now)
               THEN [passes EXCEPT ![key] = Append(@, now)] ELSE passes

(* The limiter comes first and counts the try whatever becomes of it.      *)
StartLimited(r, key, work) ==
  /\ requests[r] = Idle
  /\ Let(key)
  /\ IF Allows(buckets, key, LimitOf(key), AuthWindow, now)
     THEN TakeAuthSlot(r, work)
     ELSE UNCHANGED <<slots, requests>>
  /\ UNCHANGED <<now, database>>

----------------------------------------------------------------------------
Signup(r, u) ==
  /\ requests[r] = Idle
  /\ TakeAuthSlot(r, [stage |-> "signup", username |-> u])
  /\ UNCHANGED <<now, database, limiter>>

(* The user, the credential, eight codes and the first session, or nothing *)
(* when the username is taken.                                             *)
CreateLocalUser(r) ==
  /\ requests[r].stage = "signup"
  /\ Becomes(r, Answering)
  /\ IF requests[r].username \in DOMAIN credentials
     THEN UNCHANGED database
     ELSE /\ nextUser <= MaxUsers /\ nextSession <= MaxSessions
          /\ NextPassword <= MaxPasswords
          /\ users' = Put(users, nextUser, Native)
          /\ credentials' = Put(credentials, requests[r].username,
                                [user |-> nextUser, password |-> NextPassword])
          /\ codes' = Put(codes, nextUser, CodesOf(NextPassword))
          /\ sessions' = Put(sessions, nextSession,
                             [user |-> nextUser, expires |-> now + SessionTTL,
                              password |-> NextPassword, began |-> NextPassword,
                              since |-> NextPassword])
          /\ spent' = Append(spent, 0)
          /\ nextUser' = nextUser + 1 /\ nextSession' = nextSession + 1
          /\ UNCHANGED hosts
  /\ UNCHANGED <<now, slots, limiter>>

Login(r, u, guess) ==
  StartLimited(r, <<"login", u>>,
               [stage |-> "login", username |-> u, guess |-> guess,
                began |-> Len(spent)])

(* The row is read once; the password is compared with it for as long as   *)
(* Argon2 takes, and the session is created without looking again.  For an *)
(* unknown username a dummy is verified, to the same end.                  *)
LocalCredentialByUsername(r) ==
  /\ requests[r].stage = "login"
  /\ LET u == requests[r].username
     IN Becomes(r, IF u \in DOMAIN credentials
                   THEN [stage |-> "verify", user |-> credentials[u].user,
                         password |-> credentials[u].password,
                         guess |-> requests[r].guess,
                         began |-> requests[r].began]
                   ELSE Answering)
  /\ UNCHANGED <<now, database, slots, limiter>>

(* A session is for a user that still exists, as its foreign key demands;  *)
(* trusting the row read before Argon2 would be a bug.                     *)
StillAssumed(user) == user < nextUser

Exists(user) == user \in DOMAIN users

CreateSession(user, password, began) ==
  IF Exists(user)
  THEN /\ nextSession <= MaxSessions
       /\ sessions' = Put(sessions, nextSession,
                          [user |-> user, expires |-> now + SessionTTL,
                           password |-> password, began |-> began,
                           since |-> PasswordOf(user)])
       /\ nextSession' = nextSession + 1
       /\ UNCHANGED <<users, credentials, codes, hosts, nextUser, spent>>
  ELSE UNCHANGED database

(* Accepting any password that was ever this account's would be a bug.     *)
MatchesOnceIssued(work) == work.guess # 0 /\ work.guess <= work.password

Matches(work) == work.guess = work.password

VerifyAndStart(r) ==
  /\ requests[r].stage = "verify"
  /\ IF Matches(requests[r])
     THEN CreateSession(requests[r].user, requests[r].guess, requests[r].began)
     ELSE UNCHANGED database
  /\ Becomes(r, Answering)
  /\ UNCHANGED <<now, slots, limiter>>

----------------------------------------------------------------------------
Recover(r, u, code) ==
  StartLimited(r, <<"recover", u>>,
               [stage |-> "recover", username |-> u, code |-> code])

(* What a reset leaves of the old codes: none.  Deleting only the one that *)
(* was used would be a bug.                                                *)
OtherCodes(user, code) == codes[user] \ {code}

RemainingCodes(user, code) == {}

(* A reset signs the account out everywhere; keeping the sessions would be *)
(* a bug.                                                                  *)
NoSessions(user) == {}

SignedOut(user) == SessionsOf(user)

RecoverLocalUser(r) ==
  LET u == requests[r].username
      code == requests[r].code
  IN
  /\ requests[r].stage = "recover"
  /\ Becomes(r, Answering)
  /\ IF u \in DOMAIN credentials /\ code \in codes[credentials[u].user]
     THEN LET user == credentials[u].user
          IN /\ NextPassword <= MaxPasswords
             /\ credentials' = [credentials EXCEPT ![u].password = NextPassword]
             /\ sessions' = Without(sessions, SignedOut(user))
             /\ codes' = [codes EXCEPT ![user] = RemainingCodes(user, code)
                                                 \cup CodesOf(NextPassword)]
             /\ spent' = Append([spent EXCEPT ![code.set] = @ + 1], 0)
             /\ UNCHANGED <<users, hosts, nextUser, nextSession>>
     ELSE UNCHANGED database
  /\ UNCHANGED <<now, slots, limiter>>

----------------------------------------------------------------------------
(* Sign-in with Google needs no slot: the answer of Google, the row of the *)
(* account, then its session.                                              *)
GoogleCallback(r, g) ==
  /\ requests[r] = Idle
  /\ Becomes(r, [stage |-> "google", subject |-> g, began |-> Len(spent)])
  /\ UNCHANGED <<now, database, slots, limiter>>

UpsertGoogleUser(r) ==
  /\ requests[r].stage = "google"
  /\ LET g == requests[r].subject
         known == {user \in DOMAIN users : users[user] = g}
     IN IF known # {}
        THEN /\ \E user \in known :
                  Becomes(r, [stage |-> "session", user |-> user,
                              began |-> requests[r].began])
             /\ UNCHANGED <<users, nextUser>>
        ELSE /\ nextUser <= MaxUsers
             /\ users' = Put(users, nextUser, g)
             /\ nextUser' = nextUser + 1
             /\ Becomes(r, [stage |-> "session", user |-> nextUser,
                            began |-> requests[r].began])
  /\ UNCHANGED <<now, credentials, codes, sessions, hosts, nextSession, spent,
                 slots, limiter>>

StartUserSession(r) ==
  /\ requests[r].stage = "session"
  /\ CreateSession(requests[r].user, 0, requests[r].began)
  /\ Becomes(r, Idle)
  /\ UNCHANGED <<now, slots, limiter>>

----------------------------------------------------------------------------
(* A live session may sign out, own a party, and delete its account.       *)
Logout(token) ==
  /\ Live(token)
  /\ sessions' = Without(sessions, {token})
  /\ UNCHANGED <<now, users, credentials, codes, hosts, requests, slots,
                 limiter, nextUser, nextSession, spent>>

ChangeParties(token) ==
  /\ Live(token)
  /\ LET user == sessions[token].user
     IN hosts' = IF user \in hosts THEN hosts \ {user} ELSE hosts \cup {user}
  /\ UNCHANGED <<now, users, credentials, codes, sessions, requests, slots,
                 limiter, nextUser, nextSession, spent>>

DeleteAccount(r, token) ==
  /\ requests[r] = Idle
  /\ Live(token)
  /\ Becomes(r, [stage |-> "delete", user |-> sessions[token].user])
  /\ UNCHANGED <<now, database, slots, limiter>>

(* Refused while the user owns a party; else leaves nothing of the user.   *)
DeleteUserWithoutParties(r) ==
  LET user == requests[r].user
  IN
  /\ requests[r].stage = "delete"
  /\ Becomes(r, Idle)
  /\ IF user \in DOMAIN users \ hosts
     THEN /\ sessions' = Without(sessions, SessionsOf(user))
          /\ codes' = Without(codes, {user})
          /\ credentials' = Without(credentials, CredentialsOf(user))
          /\ users' = Without(users, {user})
          /\ UNCHANGED <<hosts, nextUser, nextSession, spent>>
     ELSE UNCHANGED database
  /\ UNCHANGED <<now, slots, limiter>>

----------------------------------------------------------------------------
(* A handler returns: it has answered, or a step of it failed.  A slot     *)
(* kept when a step fails would be a bug.                                  *)
ReturnKeepingSlot(r) ==
  /\ requests[r] # Idle
  /\ slots' = IF requests[r].stage = "answer" THEN slots - 1 ELSE slots
  /\ Becomes(r, Idle)
  /\ UNCHANGED <<now, database, limiter>>

Return(r) ==
  /\ requests[r] # Idle
  /\ slots' = IF requests[r].stage \in Holding THEN slots - 1 ELSE slots
  /\ Becomes(r, Idle)
  /\ UNCHANGED <<now, database, limiter>>

(* The process dies: handlers, slots and buckets go, the database stays.   *)
Crash ==
  /\ requests' = [r \in Request |-> Idle]
  /\ slots' = 0 /\ buckets' = <<>>
  /\ passes' = [key \in Key |-> <<>>]
  /\ UNCHANGED <<now, database>>

Guess == 0..Len(spent)

Start(r) ==
  \/ \E u \in Username :
       \/ Signup(r, u)
       \/ \E guess \in Guess : Login(r, u, guess)
       \/ \E code \in [set : Guess, slip : Slip] : Recover(r, u, code)
  \/ \E g \in Subject : GoogleCallback(r, g)
  \/ \E token \in DOMAIN sessions : DeleteAccount(r, token)

Step(r) ==
  \/ CreateLocalUser(r)
  \/ LocalCredentialByUsername(r) \/ VerifyAndStart(r)
  \/ RecoverLocalUser(r)
  \/ UpsertGoogleUser(r) \/ StartUserSession(r)
  \/ DeleteUserWithoutParties(r)
  \/ Return(r)

Next ==
  \/ Tick \/ Crash
  \/ \E r \in Request : Start(r) \/ Step(r)
  \/ \E token \in DOMAIN sessions : Logout(token) \/ ChangeParties(token)

Spec == Init /\ [][Next]_vars

----------------------------------------------------------------------------
(* Properties.                                                             *)

(* Rows of their types, under keys already issued, that refer to users     *)
(* that exist: a session is never created for an account deleted while its *)
(* owner was signing in.                                                   *)
TypeOK ==
  /\ now \in Nat /\ slots \in Nat
  /\ {nextUser, nextSession} \subseteq Nat \ {0}
  /\ spent \in Seq(Nat)
  /\ requests \in [Request -> Work]
  /\ IsTable(users, {Native} \cup Subject) /\ IssuedBelow(users, nextUser)
  /\ IsTable(credentials, [user : DOMAIN users, password : DOMAIN spent])
  /\ DOMAIN credentials \subseteq Username
  /\ IsTable(codes, SUBSET [set : DOMAIN spent, slip : Slip])
  /\ DOMAIN codes \subseteq DOMAIN users
  /\ IsTable(sessions, SessionRow) /\ IssuedBelow(sessions, nextSession)
  /\ \A t \in DOMAIN sessions : sessions[t].user \in DOMAIN users
  /\ hosts \subseteq DOMAIN users
  /\ IsTable(buckets, Bucket) /\ DOMAIN buckets \subseteq Key
  /\ passes \in [Key -> Seq(Nat)]

(* The slots taken are those of the handlers at work: a handler that fails *)
(* or finds its account gone gives its slot back, and never twice, so      *)
(* signing in does not die of earlier failures.                            *)
SlotsAreReturned ==
  /\ slots = Cardinality({r \in Request : requests[r].stage \in Holding})
  /\ slots <= AuthSlots

(* A set of recovery codes resets a password at most once, whichever of    *)
(* its codes are tried and however recoveries overlap; the account always  *)
(* has the complete set issued with its present password, so its owner is  *)
(* never left without a way back.                                          *)
CodesServeOnce ==
  /\ \A k \in DOMAIN spent : spent[k] <= 1
  /\ \A u \in DOMAIN credentials :
       codes[credentials[u].user] = CodesOf(credentials[u].password)

(* A reset ends the sessions: every session of an account was created      *)
(* under its present password, and was opened by that password unless its  *)
(* login was already at work when the password was replaced.  (A login     *)
(* that verifies the old password while the reset commits still gets its   *)
(* session; login does not look again.)                                    *)
ResetEndsSessions ==
  \A t \in DOMAIN sessions :
    /\ sessions[t].since = PasswordOf(sessions[t].user)
    /\ \/ sessions[t].password = sessions[t].since
       \/ sessions[t].began < sessions[t].since

(* However tries are spread over windows and buckets forgotten, fewer than *)
(* twice the limit are let through in any span shorter than a window.      *)
GuessesAreBounded ==
  \A key \in Key :
    \A i, j \in DOMAIN passes[key] :
      j - i = 2 * LimitOf(key) - 1
        => passes[key][j] - passes[key][i] >= AuthWindow

(* What the tables say of each session and of each account's password.    *)
Entry(row) == [account |-> row.user, began |-> row.began,
               former |-> row.password # row.since]

Passwords == [user \in DOMAIN users |-> PasswordOf(user)]
Entries == [t \in DOMAIN sessions |-> Entry(sessions[t])]

Account == INSTANCE AccountLife
  WITH opened <- nextUser - 1, issued <- Len(spent), entered <- nextSession - 1,
       password <- Passwords, session <- Entries

(* Signing in implements AccountLife: whatever handlers are at work        *)
(* together, a reset replaces a password of that account alone and for     *)
(* good, and nobody enters an account that is closed, or by a password     *)
(* replaced before the login began.                                        *)
AccountsLive == Account!AccountSpec
=============================================================================
