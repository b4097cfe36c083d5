---------------------------- MODULE SignInProofs ----------------------------
(***************************************************************************)
(* Theorems about host accounts, for any number of handlers, accounts,     *)
(* slots and codes, and any limits.                                        *)
(***************************************************************************)
EXTENDS SignIn, TablesProofs, FiniteSetTheorems, TLAPS

(* A stage decides which fields a request has.                             *)
LEMMA WorkFields ==
  ASSUME NEW w \in Work
  PROVE  /\ w.stage \in {"idle", "answer", "signup", "login", "verify",
                         "recover", "google", "session", "delete"}
         /\ w.stage = "idle" => w = Idle
         /\ w.stage = "signup" => w.username \in Username
         /\ w.stage = "login" => w.username \in Username /\ w.guess \in Nat
                                 /\ w.began \in Nat
         /\ w.stage = "verify" => w.user \in Nat /\ w.password \in Nat
                                  /\ w.guess \in Nat /\ w.began \in Nat
         /\ w.stage = "recover" => w.username \in Username /\ w.code \in Code
         /\ w.stage = "google" => w.subject \in Subject /\ w.began \in Nat
         /\ w.stage = "session" => w.user \in Nat /\ w.began \in Nat
         /\ w.stage = "delete" => w.user \in Nat
<1>1. CASE w \in [stage : {"idle"}] \cup [stage : {"answer"}]
            \cup [stage : {"signup"}, username : Username]
  BY <1>1 DEF Idle
<1>2. CASE w \in [stage : {"login"}, username : Username, guess : Password,
                  began : Nat]
  BY <1>2 DEF Password
<1>3. CASE w \in [stage : {"verify"}, user : Nat, password : Password,
                  guess : Password, began : Nat]
  BY <1>3 DEF Password
<1>4. CASE w \in [stage : {"recover"}, username : Username, code : Code]
  BY <1>4
<1>5. CASE w \in [stage : {"google"}, subject : Subject, began : Nat]
  BY <1>5
<1>6. CASE w \in [stage : {"session"}, user : Nat, began : Nat]
            \cup [stage : {"delete"}, user : Nat]
  BY <1>6
<1> QED
  BY <1>1, <1>2, <1>3, <1>4, <1>5, <1>6 DEF Work

(* What a step does to the requests and the slots.                         *)
Stands == UNCHANGED <<requests, slots>>
Takes(r) ==
  \E work \in Work :
    /\ work.stage \in Holding /\ requests[r] = Idle
    /\ slots < AuthSlots /\ slots' = slots + 1
    /\ Becomes(r, work)
Moves(r) ==
  \E work \in Work :
    /\ work.stage \in Holding <=> requests[r].stage \in Holding
    /\ slots' = slots
    /\ Becomes(r, work)
Clears == slots' = 0 /\ requests' = [r \in Request |-> Idle]

LEMMA RequestSteps ==
  TypeOK /\ Next => \/ Stands \/ Clears
                    \/ \E r \in Request : Takes(r) \/ Moves(r) \/ Return(r)
<1> SUFFICES ASSUME TypeOK, Next
             PROVE  \/ Stands \/ Clears
                    \/ \E r \in Request : Takes(r) \/ Moves(r) \/ Return(r)
  OBVIOUS
<1>0. requests \in [Request -> Work] /\ spent \in Seq(Nat) /\ Len(spent) \in Nat
  BY DEF TypeOK
<1>i. Idle \in Work /\ Answering \in Work /\ Idle.stage = "idle"
      /\ Answering.stage = "answer"
  BY DEF Work, Idle, Answering
<1>1. CASE Tick \/ \E token \in DOMAIN sessions : Logout(token) \/ ChangeParties(token)
  BY <1>1 DEF Tick, Logout, ChangeParties, Stands
<1>2. CASE Crash
  BY <1>2 DEF Crash, Clears
<1>3. ASSUME NEW r \in Request, Start(r)
      PROVE  Stands \/ Takes(r) \/ Moves(r)
  <2>1. ASSUME NEW u \in Username, Signup(r, u)
        PROVE  Stands \/ Takes(r)
    <3> DEFINE w == [stage |-> "signup", username |-> u]
    <3>1. w \in Work /\ w.stage \in Holding
      BY DEF Work, Holding
    <3> HIDE DEF w
    <3>2. requests[r] = Idle /\ TakeAuthSlot(r, w)
      BY <2>1 DEF Signup, w
    <3> QED
      BY <3>1, <3>2 DEF TakeAuthSlot, Stands, Takes
  <2>2. ASSUME NEW u \in Username, NEW guess \in Guess, Login(r, u, guess)
        PROVE  Stands \/ Takes(r)
    <3> DEFINE w == [stage |-> "login", username |-> u, guess |-> guess,
                     began |-> Len(spent)]
    <3>1. w \in Work /\ w.stage \in Holding
      BY <1>0 DEF Work, Holding, Guess, Password
    <3> HIDE DEF w
    <3>2. StartLimited(r, <<"login", u>>, w)
      BY <2>2 DEF Login, w
    <3> QED
      BY <3>1, <3>2 DEF StartLimited, TakeAuthSlot, Stands, Takes
  <2>3. ASSUME NEW u \in Username, NEW code \in [set : Guess, slip : Slip],
               Recover(r, u, code)
        PROVE  Stands \/ Takes(r)
    <3> DEFINE w == [stage |-> "recover", username |-> u, code |-> code]
    <3>0. code \in Code
      BY <1>0 DEF Code, Guess
    <3>1. w \in Work /\ w.stage \in Holding
      BY <3>0 DEF Work, Holding
    <3> HIDE DEF w
    <3>2. StartLimited(r, <<"recover", u>>, w)
      BY <2>3 DEF Recover, w
    <3> QED
      BY <3>1, <3>2 DEF StartLimited, TakeAuthSlot, Stands, Takes
  <2>4. ASSUME NEW g \in Subject, GoogleCallback(r, g)
        PROVE  Moves(r)
    <3> DEFINE w == [stage |-> "google", subject |-> g, began |-> Len(spent)]
    <3>1. w \in Work /\ w.stage \notin Holding
      BY <1>0 DEF Work, Holding
    <3>2. requests[r].stage \notin Holding
      BY <2>4, <1>i DEF GoogleCallback, Holding
    <3> QED
      BY <2>4, <3>1, <3>2 DEF GoogleCallback, Moves
  <2>5. ASSUME NEW token \in DOMAIN sessions, DeleteAccount(r, token)
        PROVE  Moves(r)
    <3> DEFINE w == [stage |-> "delete", user |-> sessions[token].user]
    <3>1. w \in Work /\ w.stage \notin Holding
      BY DEF Work, Holding, TypeOK, IsTable, SessionRow
    <3>2. requests[r].stage \notin Holding
      BY <2>5, <1>i DEF DeleteAccount, Holding
    <3> QED
      BY <2>5, <3>1, <3>2 DEF DeleteAccount, Moves
  <2> QED
    BY <1>3, <2>1, <2>2, <2>3, <2>4, <2>5 DEF Start
<1>4. ASSUME NEW r \in Request, Step(r)
      PROVE  Moves(r) \/ Return(r)
  <2>1. CASE CreateLocalUser(r) \/ VerifyAndStart(r) \/ RecoverLocalUser(r)
    BY <2>1, <1>i DEF CreateLocalUser, VerifyAndStart, RecoverLocalUser, Moves,
       Holding
  <2>2. CASE LocalCredentialByUsername(r)
    <3> DEFINE u == requests[r].username
               w == [stage |-> "verify", user |-> credentials[u].user,
                     password |-> credentials[u].password,
                     guess |-> requests[r].guess, began |-> requests[r].began]
    <3>1. requests[r].stage = "login" /\ requests[r].guess \in Nat
          /\ requests[r].began \in Nat
      BY <2>2, <1>0, WorkFields DEF LocalCredentialByUsername
    <3>2. CASE u \in DOMAIN credentials
      <4>1. credentials[u].user \in Nat /\ credentials[u].password \in Nat
        BY <3>2, <1>0 DEF TypeOK, IsTable, IssuedBelow
      <4>2. w \in Work /\ w.stage = "verify"
        BY <4>1, <3>1 DEF Work, Password
      <4>3. Becomes(r, w) /\ slots' = slots
        BY <2>2, <3>2 DEF LocalCredentialByUsername
      <4> QED
        BY <4>2, <4>3, <3>1 DEF Moves, Holding
    <3>3. CASE u \notin DOMAIN credentials
      BY <2>2, <3>1, <3>3, <1>i DEF LocalCredentialByUsername, Moves, Holding
    <3> QED
      BY <3>2, <3>3
  <2>3. CASE UpsertGoogleUser(r)
    <3>1. requests[r].stage = "google" /\ requests[r].began \in Nat
      BY <2>3, <1>0, WorkFields DEF UpsertGoogleUser
    <3>2. \A user \in Nat : [stage |-> "session", user |-> user,
                             began |-> requests[r].began] \in Work
      BY <3>1 DEF Work
    <3>3. nextUser \in Nat /\ \A user \in DOMAIN users : user \in Nat
      BY DEF TypeOK, IssuedBelow
    <3>4. PICK user \in Nat : Becomes(r, [stage |-> "session", user |-> user,
                                          began |-> requests[r].began])
      BY <2>3, <3>3 DEF UpsertGoogleUser
    <3> QED
      BY <2>3, <3>1, <3>2, <3>4 DEF UpsertGoogleUser, Moves, Holding
  <2>4. CASE StartUserSession(r) \/ DeleteUserWithoutParties(r)
    BY <2>4, <1>i DEF StartUserSession, DeleteUserWithoutParties, Moves, Holding
  <2>5. CASE Return(r)
    BY <2>5
  <2> QED
    BY <1>4, <2>1, <2>2, <2>3, <2>4, <2>5 DEF Step
<1> QED
  BY <1>1, <1>2, <1>3, <1>4 DEF Next

(* A handler takes its slot once and gives it back once.                   *)
Held == {r \in Request : requests[r].stage \in Holding}

LEMMA SlotsStep ==
  TypeOK /\ SlotsAreReturned /\ [Next]_vars
    => SlotsAreReturned' /\ slots' \in Nat /\ requests' \in [Request -> Work]
<1> SUFFICES ASSUME TypeOK, SlotsAreReturned, [Next]_vars
             PROVE  SlotsAreReturned' /\ slots' \in Nat
                    /\ requests' \in [Request -> Work]
  OBVIOUS
<1> USE SignInAssumption DEF SignInAssumption
<1>0. requests \in [Request -> Work] /\ slots = Cardinality(Held)
      /\ slots <= AuthSlots /\ AuthSlots \in Nat
  BY DEF TypeOK, SlotsAreReturned, Held
<1>1. /\ Held \in SUBSET Request /\ Held' \in SUBSET Request
      /\ IsFiniteSet(Held) /\ Cardinality(Held) \in Nat
      /\ IsFiniteSet(Held') /\ Cardinality(Held') \in Nat
  BY FS_Subset, FS_CardinalityType DEF Held
<1>i. Idle \in Work /\ Idle.stage \notin Holding
  BY DEF Work, Idle, Holding
<1>2. SUFFICES slots' = Cardinality(Held') /\ slots' <= AuthSlots
               /\ requests' \in [Request -> Work]
  BY <1>1, <1>2 DEF SlotsAreReturned, Held
<1>3. CASE Stands
  BY <1>0, <1>3 DEF Stands, Held
<1>4. CASE Clears
  <2>1. Held' = {}
    BY <1>4, <1>i DEF Clears, Held
  <2> QED
    BY <2>1, <1>0, <1>4, <1>i, FS_EmptySet DEF Clears
<1>5. ASSUME NEW r \in Request, Takes(r)
      PROVE  slots' = Cardinality(Held') /\ slots' <= AuthSlots
             /\ requests' \in [Request -> Work]
  <2>1. Held' = Held \cup {r} /\ r \notin Held /\ requests' \in [Request -> Work]
    BY <1>0, <1>5, <1>i DEF Takes, Becomes, Held
  <2>2. Cardinality(Held') = Cardinality(Held) + 1
    BY <2>1, <1>1, FS_AddElement
  <2> QED
    BY <2>1, <2>2, <1>0, <1>1, <1>5 DEF Takes
<1>6. ASSUME NEW r \in Request, Moves(r)
      PROVE  slots' = Cardinality(Held') /\ slots' <= AuthSlots
             /\ requests' \in [Request -> Work]
  <2>1. Held' = Held /\ requests' \in [Request -> Work]
    BY <1>0, <1>6 DEF Moves, Becomes, Held
  <2> QED
    BY <2>1, <1>0, <1>6 DEF Moves
<1>7. ASSUME NEW r \in Request, Return(r)
      PROVE  slots' = Cardinality(Held') /\ slots' <= AuthSlots
             /\ requests' \in [Request -> Work]
  <2>0. requests' = [requests EXCEPT ![r] = Idle]
    BY <1>7 DEF Return, Becomes
  <2>1. Held' = Held \ {r} /\ requests' \in [Request -> Work]
    BY <1>0, <2>0, <1>i DEF Held
  <2>2. CASE requests[r].stage \in Holding
    <3>1. r \in Held /\ slots' = slots - 1
      BY <2>2, <1>7 DEF Held, Return
    <3>2. Cardinality(Held') = Cardinality(Held) - 1
      BY <3>1, <2>1, <1>1, FS_RemoveElement
    <3> QED
      BY <3>1, <3>2, <2>1, <1>0, <1>1
  <2>3. CASE requests[r].stage \notin Holding
    <3>1. Held' = Held /\ slots' = slots
      BY <2>3, <2>1, <1>7 DEF Held, Return
    <3> QED
      BY <3>1, <2>1, <1>0
  <2> QED
    BY <2>2, <2>3
<1>8. CASE UNCHANGED vars
  BY <1>3, <1>8 DEF vars, Stands
<1> QED
  BY <1>3, <1>4, <1>5, <1>6, <1>7, <1>8, RequestSteps

----------------------------------------------------------------------------
(* What a step does to the limiter and the clock.                          *)
LEMMA LimiterSteps ==
  Next => \/ UNCHANGED <<now, limiter>>
          \/ now' = now + 1 /\ UNCHANGED limiter
          \/ /\ now' = now /\ buckets' = <<>>
             /\ passes' = [key \in Key |-> <<>>]
          \/ \E key \in Key : now' = now /\ Let(key)
<1> SUFFICES ASSUME Next
             PROVE  \/ UNCHANGED <<now, limiter>>
                    \/ now' = now + 1 /\ UNCHANGED limiter
                    \/ /\ now' = now /\ buckets' = <<>>
                       /\ passes' = [key \in Key |-> <<>>]
                    \/ \E key \in Key : now' = now /\ Let(key)
  OBVIOUS
<1> USE DEF limiter
<1>1. CASE Tick \/ \E token \in DOMAIN sessions : Logout(token) \/ ChangeParties(token)
  BY <1>1 DEF Tick, Logout, ChangeParties
<1>2. CASE Crash
  BY <1>2 DEF Crash
<1>3. ASSUME NEW r \in Request, Start(r)
      PROVE  UNCHANGED <<now, limiter>> \/ \E key \in Key : now' = now /\ Let(key)
  <2>1. ASSUME NEW u \in Username
        PROVE  <<"login", u>> \in Key /\ <<"recover", u>> \in Key
    BY DEF Key
  <2> QED
    BY <1>3, <2>1 DEF Start, Signup, Login, Recover, StartLimited,
       GoogleCallback, DeleteAccount
<1>4. ASSUME NEW r \in Request, Step(r)
      PROVE  UNCHANGED <<now, limiter>>
  <2>1. CASE UpsertGoogleUser(r)
    BY <2>1 DEF UpsertGoogleUser
  <2> QED
    BY <1>4, <2>1 DEF Step, CreateLocalUser, LocalCredentialByUsername, VerifyAndStart,
       RecoverLocalUser, StartUserSession, DeleteUserWithoutParties, Return
<1> QED
  BY <1>1, <1>2, <1>3, <1>4 DEF Next

LEMMA LimiterTypes ==
  TypeOK /\ [Next]_vars
    => /\ now' \in Nat
       /\ IsTable(buckets', Bucket) /\ DOMAIN buckets' \subseteq Key
       /\ passes' \in [Key -> Seq(Nat)]
<1> SUFFICES ASSUME TypeOK, [Next]_vars
             PROVE  /\ now' \in Nat
                    /\ IsTable(buckets', Bucket) /\ DOMAIN buckets' \subseteq Key
                    /\ passes' \in [Key -> Seq(Nat)]
  OBVIOUS
<1>0. /\ now \in Nat /\ IsTable(buckets, Bucket) /\ DOMAIN buckets \subseteq Key
      /\ passes \in [Key -> Seq(Nat)]
  BY DEF TypeOK
<1>1. CASE UNCHANGED <<now, limiter>> \/ (now' = now + 1 /\ UNCHANGED limiter)
  BY <1>0, <1>1 DEF limiter
<1>2. CASE now' = now /\ buckets' = <<>> /\ passes' = [key \in Key |-> <<>>]
  BY <1>0, <1>2 DEF IsTable
<1>3. ASSUME NEW key \in Key, now' = now, Let(key)
      PROVE  /\ now' \in Nat
             /\ IsTable(buckets', Bucket) /\ DOMAIN buckets' \subseteq Key
             /\ passes' \in [Key -> Seq(Nat)]
  <2> DEFINE counted == Counted(buckets, key, AuthWindow, now)
             tried == Put(buckets, key, counted)
  <2>1. counted \in Bucket
    <3>1. ASSUME NEW b \in Bucket
          PROVE  [b EXCEPT !.count = b.count + 1] \in Bucket
      BY DEF Bucket
    <3>2. [start |-> now, count |-> 1] \in Bucket
      BY <1>0 DEF Bucket
    <3>3. key \in DOMAIN buckets => buckets[key] \in Bucket
      BY <1>0 DEF IsTable
    <3> QED
      BY <3>1, <3>2, <3>3, Zenon DEF Counted
  <2>2. IsTable(tried, Bucket) /\ DOMAIN tried \subseteq Key
    <3> HIDE DEF counted
    <3>1. IsTable(tried, Bucket) /\ DOMAIN tried = DOMAIN buckets \cup {key}
      BY <1>0, <2>1 DEF IsTable, Put
    <3> QED
      BY <3>1, <1>0
  <2>3. PICK K : buckets' = Without(tried, K)
    BY <1>3 DEF Let, AfterTry
  <2>4. IsTable(buckets', Bucket) /\ DOMAIN buckets' \subseteq Key
    <3> HIDE DEF tried
    <3> QED
      BY <2>2, <2>3, WithoutTable
  <2>5. passes' \in [Key -> Seq(Nat)]
    BY <1>0, <1>3 DEF Let
  <2> QED
    BY <2>4, <2>5, <1>0, <1>3
<1>4. CASE UNCHANGED vars
  BY <1>0, <1>4 DEF vars
<1> QED
  BY <1>1, <1>2, <1>3, <1>4, LimiterSteps

----------------------------------------------------------------------------
(* What a step does to the database.                                       *)
NewAccount(u) ==
  /\ u \notin DOMAIN credentials
  /\ users' = Put(users, nextUser, Native)
  /\ credentials' = Put(credentials, u, [user |-> nextUser, password |-> NextPassword])
  /\ codes' = Put(codes, nextUser, CodesOf(NextPassword))
  /\ sessions' = Put(sessions, nextSession,
                     [user |-> nextUser, expires |-> now + SessionTTL,
                      password |-> NextPassword, began |-> NextPassword,
                      since |-> NextPassword])
  /\ spent' = Append(spent, 0)
  /\ nextUser' = nextUser + 1 /\ nextSession' = nextSession + 1
  /\ UNCHANGED hosts
NewGoogle(g) ==
  /\ users' = Put(users, nextUser, g)
  /\ nextUser' = nextUser + 1
  /\ UNCHANGED <<credentials, codes, sessions, hosts, nextSession, spent>>
NewSession(user, password, began) ==
  /\ user \in DOMAIN users
  /\ sessions' = Put(sessions, nextSession,
                     [user |-> user, expires |-> now + SessionTTL,
                      password |-> password, began |-> began,
                      since |-> PasswordOf(user)])
  /\ nextSession' = nextSession + 1
  /\ UNCHANGED <<users, credentials, codes, hosts, nextUser, spent>>
Verified(r) ==
  /\ requests[r].stage = "verify" /\ requests[r].guess = requests[r].password
  /\ NewSession(requests[r].user, requests[r].password, requests[r].began)
Vouched(r) ==
  /\ requests[r].stage = "session"
  /\ NewSession(requests[r].user, 0, requests[r].began)
Reset(u, code) ==
  LET user == credentials[u].user
  IN /\ u \in DOMAIN credentials /\ code \in codes[user]
     /\ credentials' = [credentials EXCEPT ![u].password = NextPassword]
     /\ sessions' = Without(sessions, SessionsOf(user))
     /\ codes' = [codes EXCEPT ![user] = CodesOf(NextPassword)]
     /\ spent' = Append([spent EXCEPT ![code.set] = @ + 1], 0)
     /\ UNCHANGED <<users, hosts, nextUser, nextSession>>
SignOff(T) ==
  /\ sessions' = Without(sessions, T)
  /\ UNCHANGED <<users, credentials, codes, hosts, nextUser, nextSession, spent>>
Parties ==
  /\ hosts' \subseteq hosts \cup {sessions[t].user : t \in DOMAIN sessions}
  /\ UNCHANGED <<users, credentials, codes, sessions, nextUser, nextSession, spent>>
Removal(user) ==
  /\ user \in DOMAIN users \ hosts
  /\ sessions' = Without(sessions, SessionsOf(user))
  /\ codes' = Without(codes, {user})
  /\ credentials' = Without(credentials, CredentialsOf(user))
  /\ users' = Without(users, {user})
  /\ UNCHANGED <<hosts, nextUser, nextSession, spent>>

DatabaseStep ==
  \/ UNCHANGED database
  \/ \E u \in Username : NewAccount(u)
  \/ \E g \in Subject : NewGoogle(g)
  \/ \E r \in Request : Verified(r) \/ Vouched(r)
  \/ \E u \in Username, code \in Code : Reset(u, code)
  \/ \E T \in SUBSET DOMAIN sessions : SignOff(T)
  \/ Parties
  \/ \E user \in DOMAIN users : Removal(user)

LEMMA DatabaseSteps ==
  TypeOK /\ Next => DatabaseStep
<1> SUFFICES ASSUME TypeOK, Next
             PROVE  DatabaseStep
  OBVIOUS
<1>0. requests \in [Request -> Work]
  BY DEF TypeOK
<1>1. CASE Tick \/ Crash
  BY <1>1 DEF Tick, Crash, DatabaseStep
<1>2. ASSUME NEW token \in DOMAIN sessions, Logout(token)
      PROVE  DatabaseStep
  BY <1>2 DEF Logout, SignOff, DatabaseStep
<1>3. ASSUME NEW token \in DOMAIN sessions, ChangeParties(token)
      PROVE  Parties
  BY <1>3 DEF ChangeParties, Parties
<1>4. ASSUME NEW r \in Request, Start(r)
      PROVE  UNCHANGED database
  BY <1>4 DEF Start, Signup, Login, Recover, StartLimited, GoogleCallback,
     DeleteAccount
<1>5. ASSUME NEW r \in Request, CreateLocalUser(r)
      PROVE  DatabaseStep
  <2>1. requests[r].username \in Username
    BY <1>0, <1>5, WorkFields DEF CreateLocalUser
  <2>2. UNCHANGED database \/ NewAccount(requests[r].username)
    BY <1>5 DEF CreateLocalUser, NewAccount
  <2> QED
    BY <2>1, <2>2 DEF DatabaseStep
<1>6. ASSUME NEW r \in Request, VerifyAndStart(r)
      PROVE  DatabaseStep
  <2>1. UNCHANGED database \/ Verified(r)
    BY <1>6 DEF VerifyAndStart, CreateSession, Exists, Matches, Verified, NewSession
  <2> QED
    BY <2>1 DEF DatabaseStep
<1>7. ASSUME NEW r \in Request, RecoverLocalUser(r)
      PROVE  DatabaseStep
  <2> DEFINE u == requests[r].username
             code == requests[r].code
  <2>1. u \in Username /\ code \in Code
    BY <1>0, <1>7, WorkFields DEF RecoverLocalUser
  <2>2. UNCHANGED database \/ Reset(u, code)
    <3>1. {} \cup CodesOf(NextPassword) = CodesOf(NextPassword)
      OBVIOUS
    <3> QED
      BY <1>7, <3>1 DEF RecoverLocalUser, Reset, RemainingCodes, SignedOut
  <2> QED
    BY <2>1, <2>2 DEF DatabaseStep
<1>8. ASSUME NEW r \in Request, UpsertGoogleUser(r)
      PROVE  DatabaseStep
  <2> DEFINE g == requests[r].subject
  <2>1. g \in Subject
    BY <1>0, <1>8, WorkFields DEF UpsertGoogleUser
  <2>2. UNCHANGED database \/ NewGoogle(g)
    BY <1>8 DEF UpsertGoogleUser, NewGoogle, database
  <2> QED
    BY <2>1, <2>2 DEF DatabaseStep
<1>9. ASSUME NEW r \in Request, StartUserSession(r)
      PROVE  DatabaseStep
  <2>1. UNCHANGED database \/ Vouched(r)
    BY <1>9 DEF StartUserSession, CreateSession, Exists, Vouched, NewSession
  <2> QED
    BY <2>1 DEF DatabaseStep
<1>10. ASSUME NEW r \in Request, DeleteUserWithoutParties(r)
       PROVE  DatabaseStep
  <2>1. UNCHANGED database
        \/ (requests[r].user \in DOMAIN users /\ Removal(requests[r].user))
    BY <1>10 DEF DeleteUserWithoutParties, Removal
  <2> QED
    BY <2>1 DEF DatabaseStep
<1>11. ASSUME NEW r \in Request, LocalCredentialByUsername(r) \/ Return(r)
       PROVE  DatabaseStep
  BY <1>11 DEF LocalCredentialByUsername, Return, DatabaseStep
<1>12. Parties \/ UNCHANGED database => DatabaseStep
  BY DEF DatabaseStep
<1> QED
  BY <1>1, <1>2, <1>3, <1>4, <1>5, <1>6, <1>7, <1>8, <1>9, <1>10, <1>11, <1>12
     DEF Next, Step

(* The rows keep their types, their keys and their users.                  *)
DatabaseOK ==
  /\ {nextUser, nextSession} \subseteq Nat \ {0}
  /\ spent \in Seq(Nat)
  /\ IsTable(users, {Native} \cup Subject) /\ IssuedBelow(users, nextUser)
  /\ IsTable(credentials, [user : DOMAIN users, password : DOMAIN spent])
  /\ DOMAIN credentials \subseteq Username
  /\ IsTable(codes, SUBSET [set : DOMAIN spent, slip : Slip])
  /\ DOMAIN codes \subseteq DOMAIN users
  /\ IsTable(sessions, SessionRow) /\ IssuedBelow(sessions, nextSession)
  /\ \A t \in DOMAIN sessions : sessions[t].user \in DOMAIN users
  /\ hosts \subseteq DOMAIN users

LEMMA PasswordOfType ==
  ASSUME DatabaseOK, NEW user
  PROVE  PasswordOf(user) \in 0..Len(spent)
<1>1. spent \in Seq(Nat) /\ Len(spent) \in Nat /\ DOMAIN spent = 1..Len(spent)
  BY DEF DatabaseOK
<1>2. \A u \in DOMAIN credentials : credentials[u].password \in 1..Len(spent)
  BY <1>1 DEF DatabaseOK, IsTable
<1> QED
  BY <1>1, <1>2 DEF PasswordOf, PasswordIn

(* One more set of codes.                                                  *)
LEMMA OneMore ==
  ASSUME NEW s \in Seq(Nat)
  PROVE  /\ Append(s, 0) \in Seq(Nat) /\ Len(Append(s, 0)) = Len(s) + 1
         /\ DOMAIN Append(s, 0) = 1..(Len(s) + 1) /\ DOMAIN s = 1..Len(s)
         /\ Len(s) \in Nat
         /\ \A k \in 1..(Len(s) + 1) :
              Append(s, 0)[k] = IF k = Len(s) + 1 THEN 0 ELSE s[k]
OBVIOUS

(* Tables with fewer rows, and rows of a larger type.                      *)
LEMMA WiderTable ==
  ASSUME NEW f, NEW Row, NEW Wider, Row \subseteq Wider, IsTable(f, Row)
  PROVE  IsTable(f, Wider)
BY DEF IsTable

LEMMA DatabaseTypes ==
  ASSUME DatabaseOK, now \in Nat, requests \in [Request -> Work], DatabaseStep
  PROVE  DatabaseOK'
<1> USE DEF DatabaseOK
<1>0. /\ Len(spent) \in Nat /\ DOMAIN spent = 1..Len(spent)
      /\ nextUser \in Nat \ {0} /\ nextSession \in Nat \ {0}
      /\ SessionTTL \in Nat
  BY SignInAssumption DEF SignInAssumption
<1>1. CASE UNCHANGED database
  BY <1>1 DEF database
<1>2. ASSUME NEW u \in Username, NewAccount(u)
      PROVE  DatabaseOK'
  <2>1. /\ spent' \in Seq(Nat) /\ DOMAIN spent \subseteq DOMAIN spent'
        /\ NextPassword \in DOMAIN spent' /\ NextPassword \in Nat
    BY <1>2, <1>0, OneMore DEF NewAccount, NextPassword
  <2>2. /\ IsTable(users', {Native} \cup Subject) /\ IssuedBelow(users', nextUser')
        /\ DOMAIN users' = DOMAIN users \cup {nextUser}
    <3>1. users' = Put(users, nextUser, Native) /\ nextUser' = nextUser + 1
          /\ Native \in {Native} \cup Subject
      BY <1>2 DEF NewAccount
    <3>2. IsTable(users', {Native} \cup Subject) /\ DOMAIN users' = DOMAIN users \cup {nextUser}
      <4> DEFINE Row == {Native} \cup Subject
      <4>1. IsTable(users, Row) /\ Native \in Row /\ Subject \subseteq Row
        OBVIOUS
      <4> HIDE DEF Row
      <4>2. IsTable(users', Row) /\ DOMAIN users' = DOMAIN users \cup {nextUser}
        BY <3>1, <4>1 DEF IsTable, Put
      <4> QED
        BY <4>2 DEF Row
    <3>3. IssuedBelow(users', nextUser')
      BY <1>0, <3>1, PutIssued, Zenon
    <3> QED
      BY <3>2, <3>3
  <2>3. IsTable(credentials', [user : DOMAIN users', password : DOMAIN spent'])
        /\ DOMAIN credentials' \subseteq Username
    <3> DEFINE Row == [user : DOMAIN users', password : DOMAIN spent']
               row == [user |-> nextUser, password |-> NextPassword]
    <3>1. IsTable(credentials, Row)
      BY <2>1, <2>2 DEF IsTable
    <3>2. row \in Row /\ credentials' = Put(credentials, u, row)
      BY <1>2, <2>1, <2>2 DEF NewAccount
    <3> HIDE DEF Row, row
    <3>3. IsTable(credentials', Row) /\ DOMAIN credentials' = DOMAIN credentials \cup {u}
      BY <3>1, <3>2, PutTable
    <3> QED
      BY <3>3 DEF Row
  <2>4. IsTable(codes', SUBSET [set : DOMAIN spent', slip : Slip])
        /\ DOMAIN codes' \subseteq DOMAIN users'
    <3> DEFINE Row == SUBSET [set : DOMAIN spent', slip : Slip]
    <3>1. IsTable(codes, Row)
      <4>1. SUBSET [set : DOMAIN spent, slip : Slip] \subseteq Row
        BY <2>1
      <4> QED
        BY <4>1, WiderTable
    <3>2. CodesOf(NextPassword) \in Row
      BY <2>1 DEF CodesOf
    <3> HIDE DEF Row
    <3>3. IsTable(codes', Row) /\ DOMAIN codes' = DOMAIN codes \cup {nextUser}
      <4> DEFINE set == CodesOf(NextPassword)
      <4>1. codes' = Put(codes, nextUser, set) /\ set \in Row
        BY <1>2, <3>2 DEF NewAccount
      <4> HIDE DEF set
      <4> QED
        BY <3>1, <4>1, PutTable, Zenon
    <3> QED
      BY <3>3, <2>2 DEF Row
  <2>5. IsTable(sessions', SessionRow) /\ IssuedBelow(sessions', nextSession')
        /\ \A t \in DOMAIN sessions' : sessions'[t].user \in DOMAIN users'
    <3> DEFINE row == [user |-> nextUser, expires |-> now + SessionTTL,
                       password |-> NextPassword, began |-> NextPassword,
                       since |-> NextPassword]
    <3>1. row \in SessionRow /\ row.user = nextUser
      BY <1>0, <2>1 DEF SessionRow, Password
    <3>2. sessions' = Put(sessions, nextSession, row)
      BY <1>2 DEF NewAccount
    <3> HIDE DEF row
    <3>3. IsTable(sessions', SessionRow) /\ IssuedBelow(sessions', nextSession')
          /\ DOMAIN sessions' = DOMAIN sessions \cup {nextSession}
      <4>1. nextSession' = nextSession + 1
        BY <1>2 DEF NewAccount
      <4>2. IsTable(sessions', SessionRow)
            /\ DOMAIN sessions' = DOMAIN sessions \cup {nextSession}
        BY <3>1, <3>2, PutTable, Zenon
      <4>3. IssuedBelow(sessions', nextSession')
        BY <1>0, <3>2, <4>1, PutIssued, Zenon
      <4> QED
        BY <4>2, <4>3
    <3>4. \A t \in DOMAIN sessions' : sessions'[t].user \in DOMAIN users'
      BY <3>1, <3>2, <3>3, <2>2 DEF Put
    <3> QED
      BY <3>3, <3>4
  <2> QED
    BY <2>1, <2>2, <2>3, <2>4, <2>5, <1>0, <1>2 DEF NewAccount
<1>3. ASSUME NEW g \in Subject, NewGoogle(g)
      PROVE  DatabaseOK'
  <2>2. /\ IsTable(users', {Native} \cup Subject) /\ IssuedBelow(users', nextUser')
        /\ DOMAIN users' = DOMAIN users \cup {nextUser}
    <3>1. users' = Put(users, nextUser, g) /\ nextUser' = nextUser + 1
          /\ g \in {Native} \cup Subject
      BY <1>3 DEF NewGoogle
    <3>2. IsTable(users', {Native} \cup Subject) /\ DOMAIN users' = DOMAIN users \cup {nextUser}
      <4> DEFINE Row == {Native} \cup Subject
      <4>1. IsTable(users, Row) /\ Native \in Row /\ Subject \subseteq Row
        OBVIOUS
      <4> HIDE DEF Row
      <4>2. IsTable(users', Row) /\ DOMAIN users' = DOMAIN users \cup {nextUser}
        BY <3>1, <4>1 DEF IsTable, Put
      <4> QED
        BY <4>2 DEF Row
    <3>3. IssuedBelow(users', nextUser')
      BY <1>0, <3>1, PutIssued, Zenon
    <3> QED
      BY <3>2, <3>3
  <2>3. IsTable(credentials', [user : DOMAIN users', password : DOMAIN spent'])
    BY <1>3, <2>2 DEF NewGoogle, IsTable
  <2> QED
    BY <2>2, <2>3, <1>0, <1>3 DEF NewGoogle
<1>4. ASSUME NEW user \in Nat, NEW password \in Nat, NEW began \in Nat,
             NewSession(user, password, began)
      PROVE  DatabaseOK'
  <2> DEFINE row == [user |-> user, expires |-> now + SessionTTL,
                     password |-> password, began |-> began,
                     since |-> PasswordOf(user)]
  <2>1. PasswordOf(user) \in Nat
    BY PasswordOfType, <1>0
  <2>2. row \in SessionRow /\ row.user = user
    BY <1>0, <2>1 DEF SessionRow, Password
  <2>3. sessions' = Put(sessions, nextSession, row)
    BY <1>4 DEF NewSession
  <2> HIDE DEF row
  <2>4. IsTable(sessions', SessionRow) /\ IssuedBelow(sessions', nextSession')
        /\ DOMAIN sessions' = DOMAIN sessions \cup {nextSession}
    <3>1. nextSession' = nextSession + 1
      BY <1>4 DEF NewSession
    <3>2. IsTable(sessions', SessionRow)
          /\ DOMAIN sessions' = DOMAIN sessions \cup {nextSession}
      BY <2>2, <2>3, PutTable, Zenon
    <3>3. IssuedBelow(sessions', nextSession')
      BY <1>0, <2>3, <3>1, PutIssued, Zenon
    <3> QED
      BY <3>2, <3>3
  <2>5. \A t \in DOMAIN sessions' : sessions'[t].user \in DOMAIN users
    BY <2>2, <2>3, <2>4, <1>4 DEF Put, NewSession
  <2> QED
    BY <2>4, <2>5, <1>0, <1>4 DEF NewSession
<1>5. ASSUME NEW r \in Request, Verified(r) \/ Vouched(r)
      PROVE  DatabaseOK'
  <2>1. CASE Verified(r)
    <3>1. requests[r].user \in Nat /\ requests[r].password \in Nat
          /\ requests[r].began \in Nat
      BY <2>1, WorkFields DEF Verified
    <3> QED
      BY <2>1, <3>1, <1>4 DEF Verified
  <2>2. CASE Vouched(r)
    <3>1. requests[r].user \in Nat /\ requests[r].began \in Nat
      BY <2>2, WorkFields DEF Vouched
    <3> QED
      BY <2>2, <3>1, <1>4 DEF Vouched
  <2> QED
    BY <1>5, <2>1, <2>2
<1>6. ASSUME NEW u \in Username, NEW code \in Code, Reset(u, code)
      PROVE  DatabaseOK'
  <2> DEFINE user == credentials[u].user
  <2>1. /\ spent' \in Seq(Nat) /\ DOMAIN spent' = 1..(Len(spent) + 1)
        /\ NextPassword \in DOMAIN spent' /\ DOMAIN spent \subseteq DOMAIN spent'
    BY <1>6, <1>0, OneMore, Bump DEF Reset, NextPassword
  <2>2. IsTable(credentials', [user : DOMAIN users', password : DOMAIN spent'])
        /\ DOMAIN credentials' \subseteq Username
    <3>1. DOMAIN users' = DOMAIN users
      BY <1>6 DEF Reset
    <3>2. credentials' = [x \in DOMAIN credentials |->
            IF x = u THEN [credentials[u] EXCEPT !.password = NextPassword]
            ELSE credentials[x]]
      BY <1>6, Zenon DEF Reset
    <3>3. \A c \in [user : DOMAIN users, password : DOMAIN spent] :
            [c EXCEPT !.password = NextPassword]
              \in [user : DOMAIN users', password : DOMAIN spent']
      BY <2>1, <3>1
    <3>4. \A x \in DOMAIN credentials :
            credentials[x] \in [user : DOMAIN users, password : DOMAIN spent]
      BY DEF IsTable
    <3>5. [user : DOMAIN users, password : DOMAIN spent]
            \subseteq [user : DOMAIN users', password : DOMAIN spent']
      BY <2>1, <3>1
    <3>6. u \in DOMAIN credentials
      BY <1>6 DEF Reset
    <3> QED
      BY <3>2, <3>3, <3>4, <3>5, <3>6 DEF IsTable
  <2>3. IsTable(codes', SUBSET [set : DOMAIN spent', slip : Slip])
        /\ DOMAIN codes' = DOMAIN codes
    <3> DEFINE Row == SUBSET [set : DOMAIN spent', slip : Slip]
    <3>1. SUBSET [set : DOMAIN spent, slip : Slip] \subseteq Row
      BY <2>1
    <3>2. CodesOf(NextPassword) \in Row
      BY <2>1 DEF CodesOf
    <3>3. codes' = [codes EXCEPT ![user] = CodesOf(NextPassword)]
      BY <1>6 DEF Reset
    <3>4. \A x \in DOMAIN codes : codes[x] \in SUBSET [set : DOMAIN spent, slip : Slip]
      BY DEF IsTable
    <3> HIDE DEF Row, user
    <3>5. \A x \in DOMAIN codes' : codes'[x] \in Row
      BY <3>1, <3>2, <3>3, <3>4
    <3> QED
      BY <3>3, <3>5 DEF IsTable, Row
  <2>4. /\ IsTable(sessions', SessionRow) /\ IssuedBelow(sessions', nextSession)
        /\ \A t \in DOMAIN sessions' : sessions'[t].user \in DOMAIN users
    BY <1>6, WithoutTable, WithoutIssued DEF Reset, Without
  <2> QED
    BY <2>1, <2>2, <2>3, <2>4, <1>6 DEF Reset
<1>7. ASSUME NEW T \in SUBSET DOMAIN sessions, SignOff(T)
      PROVE  DatabaseOK'
  <2>1. /\ IsTable(sessions', SessionRow) /\ IssuedBelow(sessions', nextSession)
        /\ \A t \in DOMAIN sessions' : sessions'[t].user \in DOMAIN users
    BY <1>7, WithoutTable, WithoutIssued DEF SignOff, Without
  <2> QED
    BY <2>1, <1>7 DEF SignOff
<1>8. CASE Parties
  BY <1>8 DEF Parties
<1>9. ASSUME NEW user \in DOMAIN users, Removal(user)
      PROVE  DatabaseOK'
  <2>1. /\ IsTable(users', {Native} \cup Subject) /\ IssuedBelow(users', nextUser)
        /\ DOMAIN users' = DOMAIN users \ {user}
    BY <1>9, WithoutTable, WithoutIssued DEF Removal
  <2>2. /\ IsTable(sessions', SessionRow) /\ IssuedBelow(sessions', nextSession)
        /\ \A t \in DOMAIN sessions' : sessions'[t].user \in DOMAIN users'
    BY <2>1, <1>9, WithoutTable, WithoutIssued DEF Removal, Without, SessionsOf
  <2>3. /\ IsTable(codes', SUBSET [set : DOMAIN spent', slip : Slip])
        /\ DOMAIN codes' \subseteq DOMAIN users'
    <3>1. codes' = Without(codes, {user}) /\ spent' = spent
      BY <1>9 DEF Removal
    <3>2. /\ IsTable(Without(codes, {user}), SUBSET [set : DOMAIN spent, slip : Slip])
          /\ DOMAIN Without(codes, {user}) = DOMAIN codes \ {user}
      BY WithoutTable, Zenon
    <3> QED
      BY <2>1, <3>1, <3>2
  <2>4. /\ IsTable(credentials', [user : DOMAIN users', password : DOMAIN spent'])
        /\ DOMAIN credentials' \subseteq Username
    <3>1. /\ credentials' = Without(credentials, CredentialsOf(user))
          /\ spent' = spent
      BY <1>9 DEF Removal
    <3>2. DOMAIN credentials' = {u \in DOMAIN credentials : credentials[u].user # user}
      BY <3>1 DEF Without, CredentialsOf
    <3>3. ASSUME NEW u \in DOMAIN credentials'
          PROVE  credentials'[u] \in [user : DOMAIN users', password : DOMAIN spent']
      <4>1. u \in DOMAIN credentials /\ credentials[u].user # user
            /\ credentials'[u] = credentials[u]
        BY <3>1, <3>2, <3>3 DEF Without
      <4>2. credentials[u] \in [user : DOMAIN users, password : DOMAIN spent]
        BY <4>1 DEF IsTable
      <4> QED
        BY <2>1, <3>1, <4>1, <4>2
    <3>4. credentials' = [u \in DOMAIN credentials' |-> credentials'[u]]
      BY <3>1 DEF Without
    <3> QED
      BY <3>2, <3>3, <3>4 DEF IsTable
  <2> QED
    BY <2>1, <2>2, <2>3, <2>4, <1>9 DEF Removal
<1> QED
  BY <1>1, <1>2, <1>3, <1>5, <1>6, <1>7, <1>8, <1>9 DEF DatabaseStep

----------------------------------------------------------------------------
(* A user has at most one credential; passwords are never given twice, and *)
(* the set of codes of a present password has served no reset.             *)
Unique(table) ==
  \A u, v \in DOMAIN table :
    table[u].user = table[v].user \/ table[u].password = table[v].password => u = v

AccountInv ==
  /\ CodesServeOnce
  /\ Unique(credentials)
  /\ \A u \in DOMAIN credentials :
       /\ users[credentials[u].user] = Native
       /\ credentials[u].user \in DOMAIN codes
       /\ spent[credentials[u].password] = 0

LEMMA AccountsStep ==
  ASSUME DatabaseOK, AccountInv, DatabaseStep
  PROVE  AccountInv'
<1> USE DEF AccountInv, CodesServeOnce
<1>0. /\ spent \in Seq(Nat) /\ Len(spent) \in Nat /\ DOMAIN spent = 1..Len(spent)
      /\ NextPassword = Len(spent) + 1
      /\ nextUser \notin DOMAIN users
      /\ \A u \in DOMAIN credentials :
           /\ credentials[u].user \in DOMAIN users
           /\ credentials[u].password \in 1..Len(spent)
           /\ credentials[u].user # nextUser /\ credentials[u].password # NextPassword
           /\ credentials[u] = [user |-> credentials[u].user,
                               password |-> credentials[u].password]
  BY DEF DatabaseOK, IsTable, IssuedBelow, NextPassword
<1>1. CASE UNCHANGED <<users, credentials, codes, spent>>
  BY <1>1 DEF Unique
<1>2. ASSUME NEW u \in Username, NewAccount(u)
      PROVE  AccountInv'
  <2>1. /\ credentials' = Put(credentials, u, [user |-> nextUser,
                                              password |-> NextPassword])
        /\ users' = Put(users, nextUser, Native)
        /\ codes' = Put(codes, nextUser, CodesOf(NextPassword))
        /\ u \notin DOMAIN credentials
    BY <1>2 DEF NewAccount
  <2>2. /\ DOMAIN spent' = 1..(Len(spent) + 1)
        /\ \A k \in 1..(Len(spent) + 1) :
             spent'[k] = IF k = Len(spent) + 1 THEN 0 ELSE spent[k]
    BY <1>0, <1>2, OneMore DEF NewAccount
  <2>3. Unique(credentials')
    BY <1>0, <2>1 DEF Unique, Put
  <2>4. \A v \in DOMAIN credentials' :
          /\ users'[credentials'[v].user] = Native
          /\ credentials'[v].user \in DOMAIN codes'
          /\ spent'[credentials'[v].password] = 0
          /\ codes'[credentials'[v].user] = CodesOf(credentials'[v].password)
    BY <1>0, <2>1, <2>2 DEF Put
  <2>5. \A k \in DOMAIN spent' : spent'[k] <= 1
    BY <1>0, <2>2
  <2> QED
    BY <2>3, <2>4, <2>5
<1>3. ASSUME NEW g \in Subject, NewGoogle(g)
      PROVE  AccountInv'
  BY <1>0, <1>3 DEF NewGoogle, Put, Unique
<1>4. ASSUME NEW r \in Request, Verified(r) \/ Vouched(r)
      PROVE  AccountInv'
  BY <1>1, <1>4 DEF Verified, Vouched, NewSession
<1>5. ASSUME NEW u \in Username, NEW code \in Code, Reset(u, code)
      PROVE  AccountInv'
  <2> DEFINE user == credentials[u].user
             old == credentials[u].password
             bumped == [spent EXCEPT ![code.set] = @ + 1]
  <2>1. u \in DOMAIN credentials /\ code \in codes[user] /\ users' = users
        /\ codes' = [codes EXCEPT ![user] = CodesOf(NextPassword)]
        /\ spent' = Append(bumped, 0)
    BY <1>5 DEF Reset
  <2>2. code.set = old /\ spent[old] = 0
    <3>1. codes[user] = CodesOf(old) /\ spent[old] = 0
      BY <2>1
    <3>2. \A c \in CodesOf(old) : c.set = old
      BY DEF CodesOf
    <3> QED
      BY <2>1, <3>1, <3>2
  <2>3. /\ bumped \in Seq(Nat) /\ Len(bumped) = Len(spent)
        /\ \A k \in DOMAIN spent : bumped[k] = IF k = old THEN 1 ELSE spent[k]
    BY <1>0, <2>2, Bump
  <2>4. /\ DOMAIN spent' = 1..(Len(spent) + 1)
        /\ \A k \in 1..(Len(spent) + 1) :
             spent'[k] = IF k = Len(spent) + 1 THEN 0
                         ELSE IF k = old THEN 1 ELSE spent[k]
    <3> HIDE DEF bumped, old
    <3>1. /\ DOMAIN Append(bumped, 0) = 1..(Len(bumped) + 1)
          /\ \A k \in 1..(Len(bumped) + 1) :
               Append(bumped, 0)[k] = IF k = Len(bumped) + 1 THEN 0 ELSE bumped[k]
      BY <2>3, OneMore
    <3> QED
      BY <1>0, <2>1, <2>3, <3>1
  <2>5. /\ DOMAIN credentials' = DOMAIN credentials
        /\ \A v \in DOMAIN credentials :
             /\ credentials'[v].user = credentials[v].user
             /\ credentials'[v].password = IF v = u THEN NextPassword
                                           ELSE credentials[v].password
    <3>1. credentials' = [x \in DOMAIN credentials |->
            IF x = u THEN [credentials[u] EXCEPT !.password = NextPassword]
            ELSE credentials[x]]
      BY <1>5, Zenon DEF Reset
    <3>2. [credentials[u] EXCEPT !.password = NextPassword]
            = [user |-> user, password |-> NextPassword]
      BY <1>0, <2>1
    <3> QED
      BY <3>1, <3>2
  <2>6. Unique(credentials')
    BY <1>0, <2>1, <2>5 DEF Unique
  <2>7. ASSUME NEW v \in DOMAIN credentials'
        PROVE  /\ users'[credentials'[v].user] = Native
               /\ credentials'[v].user \in DOMAIN codes'
               /\ spent'[credentials'[v].password] = 0
               /\ codes'[credentials'[v].user] = CodesOf(credentials'[v].password)
    <3>1. CASE v = u
      BY <1>0, <2>1, <2>4, <2>5, <3>1
    <3>2. CASE v # u
      <4>1. credentials[v].user # user /\ credentials[v].password # old
        BY <2>1, <2>5, <3>2 DEF Unique
      <4> QED
        BY <1>0, <2>1, <2>4, <2>5, <3>2, <4>1
    <3> QED
      BY <3>1, <3>2
  <2>8. \A k \in DOMAIN spent' : spent'[k] <= 1
    BY <1>0, <2>4
  <2> QED
    BY <2>6, <2>7, <2>8
<1>6. ASSUME NEW user \in DOMAIN users, Removal(user)
      PROVE  AccountInv'
  BY <1>0, <1>6 DEF Removal, Without, CredentialsOf, Unique
<1>7. CASE UNCHANGED database \/ Parties
           \/ \E T \in SUBSET DOMAIN sessions : SignOff(T)
  BY <1>1, <1>7 DEF database, Parties, SignOff
<1> QED
  BY <1>2, <1>3, <1>4, <1>5, <1>6, <1>7 DEF DatabaseStep

----------------------------------------------------------------------------
(* The password of an account, and when it changes.                        *)
LEMMA PasswordOfCredential ==
  ASSUME NEW table, Unique(table), NEW u \in DOMAIN table
  PROVE  PasswordIn(table, table[u].user) = table[u].password
BY DEF Unique, PasswordIn

LEMMA SamePassword ==
  ASSUME NEW one, NEW two, Unique(one), Unique(two), NEW user,
         {u \in DOMAIN one : one[u].user = user}
           = {u \in DOMAIN two : two[u].user = user},
         \A u \in DOMAIN one \cap DOMAIN two :
           one[u].user = user => one[u].password = two[u].password
  PROVE  PasswordIn(one, user) = PasswordIn(two, user)
<1>1. CASE \E u \in DOMAIN one : one[u].user = user
  <2>1. PICK u \in DOMAIN one : one[u].user = user
    BY <1>1
  <2>2. u \in DOMAIN two /\ two[u].user = user
    BY <2>1
  <2>3. /\ PasswordIn(one, one[u].user) = one[u].password
        /\ PasswordIn(two, two[u].user) = two[u].password
    BY <2>2, PasswordOfCredential
  <2> QED
    BY <2>1, <2>2, <2>3
<1>2. CASE ~ \E u \in DOMAIN one : one[u].user = user
  <2>1. ~ \E u \in DOMAIN two : two[u].user = user
    BY <1>2
  <2> QED
    BY <1>2, <2>1 DEF PasswordIn
<1> QED
  BY <1>1, <1>2

LEMMA PasswordChanges ==
  ASSUME DatabaseOK, AccountInv, AccountInv', DatabaseStep, NEW user,
         user # nextUser
  PROVE  \/ PasswordIn(credentials', user) = PasswordIn(credentials, user)
         \/ \E u \in Username, code \in Code :
              Reset(u, code) /\ user = credentials[u].user
              /\ PasswordIn(credentials', user) = Len(spent) + 1
         \/ Removal(user)
<1> USE DEF AccountInv
<1>1. CASE credentials' = credentials
  BY <1>1
<1>2. ASSUME NEW u \in Username, NewAccount(u)
      PROVE  PasswordIn(credentials', user) = PasswordIn(credentials, user)
  <2>1. /\ {v \in DOMAIN credentials : credentials[v].user = user}
           = {v \in DOMAIN credentials' : credentials'[v].user = user}
        /\ \A v \in DOMAIN credentials \cap DOMAIN credentials' :
             credentials[v].password = credentials'[v].password
    BY <1>2 DEF NewAccount, Put
  <2> QED
    BY <2>1, SamePassword
<1>3. ASSUME NEW u \in Username, NEW code \in Code, Reset(u, code)
      PROVE  \/ PasswordIn(credentials', user) = PasswordIn(credentials, user)
             \/ /\ user = credentials[u].user
                /\ PasswordIn(credentials', user) = Len(spent) + 1
  <2>1. /\ DOMAIN credentials' = DOMAIN credentials /\ u \in DOMAIN credentials
        /\ \A v \in DOMAIN credentials :
             /\ credentials'[v].user = credentials[v].user
             /\ credentials'[v].password = IF v = u THEN Len(spent) + 1
                                           ELSE credentials[v].password
    <3>1. /\ credentials' = [x \in DOMAIN credentials |->
               IF x = u THEN [credentials[u] EXCEPT !.password = NextPassword]
               ELSE credentials[x]]
          /\ u \in DOMAIN credentials
      BY <1>3, Zenon DEF Reset
    <3>2. credentials[u] = [user |-> credentials[u].user,
                            password |-> credentials[u].password]
      BY <3>1 DEF DatabaseOK, IsTable
    <3>3. [credentials[u] EXCEPT !.password = NextPassword]
            = [user |-> credentials[u].user, password |-> Len(spent) + 1]
      BY <3>2 DEF NextPassword
    <3> QED
      BY <3>1, <3>3
  <2>2. CASE user = credentials[u].user
    BY <2>1, <2>2, PasswordOfCredential
  <2>3. CASE user # credentials[u].user
    <3>1. {v \in DOMAIN credentials : credentials[v].user = user}
            = {v \in DOMAIN credentials' : credentials'[v].user = user}
      BY <2>1
    <3>2. \A v \in DOMAIN credentials \cap DOMAIN credentials' :
            credentials[v].user = user
              => credentials[v].password = credentials'[v].password
      BY <2>1, <2>3
    <3> QED
      BY <3>1, <3>2, SamePassword
  <2> QED
    BY <2>2, <2>3
<1>4. ASSUME NEW other \in DOMAIN users, Removal(other), user # other
      PROVE  PasswordIn(credentials', user) = PasswordIn(credentials, user)
  <2>1. /\ {v \in DOMAIN credentials : credentials[v].user = user}
           = {v \in DOMAIN credentials' : credentials'[v].user = user}
        /\ \A v \in DOMAIN credentials \cap DOMAIN credentials' :
             credentials[v].password = credentials'[v].password
    BY <1>4 DEF Removal, Without, CredentialsOf
  <2> QED
    BY <2>1, SamePassword
<1>5. CASE UNCHANGED database \/ Parties
           \/ (\E T \in SUBSET DOMAIN sessions : SignOff(T))
           \/ (\E r \in Request : Verified(r) \/ Vouched(r))
           \/ (\E g \in Subject : NewGoogle(g))
  BY <1>1, <1>5 DEF database, Parties, SignOff, Verified, Vouched, NewSession, NewGoogle
<1> QED
  BY <1>2, <1>3, <1>4, <1>5 DEF DatabaseStep

----------------------------------------------------------------------------
(* A handler that has verified a password, or been vouched for by Google,  *)
(* holds what is still true, or was at work before the last reset.         *)
WorkOK(w, people, table, issued, next) ==
  /\ w.stage \in {"login", "verify", "google", "session"} => w.began <= issued
  /\ w.stage \in {"verify", "session"} => w.user < next
  /\ w.stage = "verify" /\ w.user \in DOMAIN people
       => \/ w.password = PasswordIn(table, w.user)
          \/ w.began < PasswordIn(table, w.user)
  /\ w.stage = "session" /\ w.user \in DOMAIN people => people[w.user] # Native

WorkInv ==
  \A r \in Request :
    WorkOK(requests[r], users, credentials, Len(spent), nextUser)

RowOK(row, table) ==
  /\ row.since = PasswordIn(table, row.user)
  /\ row.password = row.since \/ row.began < row.since

LEMMA RowsOK ==
  ResetEndsSessions <=> \A t \in DOMAIN sessions : RowOK(sessions[t], credentials)
BY DEF ResetEndsSessions, RowOK, PasswordOf

LEMMA WorkKept ==
  ASSUME DatabaseOK, AccountInv, AccountInv', DatabaseStep, NEW w \in Work,
         WorkOK(w, users, credentials, Len(spent), nextUser)
  PROVE  WorkOK(w, users', credentials', Len(spent'), nextUser')
<1>0. /\ spent \in Seq(Nat) /\ Len(spent) \in Nat /\ nextUser \in Nat
      /\ nextUser \notin DOMAIN users
  BY DEF DatabaseOK, IssuedBelow
<1>1. Len(spent') \in Nat /\ Len(spent) <= Len(spent')
  <2>1. CASE spent' = spent
    BY <1>0, <2>1
  <2>2. CASE \E u \in Username : NewAccount(u)
    BY <1>0, <2>2, OneMore DEF NewAccount
  <2>3. ASSUME NEW u \in Username, NEW code \in Code, Reset(u, code)
        PROVE  Len(spent') \in Nat /\ Len(spent) <= Len(spent')
    <3> DEFINE bumped == [spent EXCEPT ![code.set] = @ + 1]
    <3>1. bumped \in Seq(Nat) /\ Len(bumped) = Len(spent)
      BY <1>0, Bump
    <3>2. spent' = Append(bumped, 0)
      BY <2>3 DEF Reset
    <3> HIDE DEF bumped
    <3>3. Len(Append(bumped, 0)) = Len(bumped) + 1
      BY <3>1, OneMore
    <3> QED
      BY <3>1, <3>2, <3>3, <1>0
  <2> QED
    BY <2>1, <2>2, <2>3 DEF DatabaseStep, database, NewGoogle, Verified, Vouched,
       NewSession, SignOff, Parties, Removal
<1>2. nextUser' \in Nat /\ nextUser <= nextUser'
      /\ DOMAIN users' \subseteq DOMAIN users \cup {nextUser}
      /\ \A user \in DOMAIN users \cap DOMAIN users' : users'[user] = users[user]
  <2>1. CASE \E u \in Username : NewAccount(u)
    BY <1>0, <2>1 DEF NewAccount, Put
  <2>2. CASE \E g \in Subject : NewGoogle(g)
    BY <1>0, <2>2 DEF NewGoogle, Put
  <2>3. CASE \E user \in DOMAIN users : Removal(user)
    BY <1>0, <2>3 DEF Removal, Without
  <2>4. CASE users' = users /\ nextUser' = nextUser
    BY <1>0, <2>4
  <2> QED
    BY <2>1, <2>2, <2>3, <2>4 DEF DatabaseStep, database, Verified, Vouched, NewSession,
       SignOff, Parties, Reset
<1>3. w.stage \in {"login", "verify", "google", "session"}
        => w.began \in Nat /\ w.began <= Len(spent)
  BY WorkFields DEF WorkOK
<1>4. w.stage \in {"verify", "session"} => w.user \in Nat /\ w.user < nextUser
  BY WorkFields DEF WorkOK
<1>5. ASSUME w.stage = "verify", w.user \in DOMAIN users'
      PROVE  \/ w.password = PasswordIn(credentials', w.user)
             \/ w.began < PasswordIn(credentials', w.user)
  <2>1. w.user # nextUser /\ w.user \in DOMAIN users
    BY <1>0, <1>2, <1>4, <1>5
  <2>2. ~ Removal(w.user)
    BY <1>5 DEF Removal, Without
  <2>3. \/ PasswordIn(credentials', w.user) = PasswordIn(credentials, w.user)
        \/ PasswordIn(credentials', w.user) = Len(spent) + 1
    BY <2>1, <2>2, PasswordChanges
  <2> QED
    BY <1>0, <1>3, <1>5, <2>1, <2>3 DEF WorkOK
<1>6. ASSUME w.stage = "session", w.user \in DOMAIN users'
      PROVE  users'[w.user] # Native
  BY <1>0, <1>2, <1>4, <1>6 DEF WorkOK
<1> QED
  BY <1>0, <1>1, <1>2, <1>3, <1>4, <1>5, <1>6 DEF WorkOK

LEMMA NewWork ==
  ASSUME TypeOK, DatabaseOK, AccountInv, WorkInv, Next, NEW r \in Request
  PROVE  \/ requests'[r] = requests[r]
         \/ WorkOK(requests'[r], users', credentials', Len(spent'), nextUser')
<1> DEFINE Good == \/ requests'[r] = requests[r]
                  \/ WorkOK(requests'[r], users', credentials', Len(spent'), nextUser')
<1> USE SignInAssumption DEF SignInAssumption
<1>0. /\ requests \in [Request -> Work] /\ spent \in Seq(Nat) /\ Len(spent) \in Nat
      /\ nextUser \in Nat /\ nextUser \notin DOMAIN users
  BY DEF TypeOK, IssuedBelow
<1>1. ASSUME NEW w, w.stage \in {"idle", "answer", "signup", "recover", "delete"}
      PROVE  \A people, table, issued, next : WorkOK(w, people, table, issued, next)
  BY <1>1 DEF WorkOK
<1>2. ASSUME NEW w, w.stage \in {"login", "google"}, w.began = Len(spent)
      PROVE  WorkOK(w, users, credentials, Len(spent), nextUser)
  BY <1>0, <1>2 DEF WorkOK
<1>i. Idle.stage = "idle" /\ Answering.stage = "answer"
  BY DEF Idle, Answering
<1>3. CASE Tick \/ \E token \in DOMAIN sessions : Logout(token) \/ ChangeParties(token)
  BY <1>3 DEF Tick, Logout, ChangeParties
<1>4. CASE Crash
  BY <1>0, <1>1, <1>4, <1>i DEF Crash
<1>5. ASSUME NEW x \in Request, Start(x)
      PROVE  Good
  <2>1. ASSUME NEW w, Becomes(x, w), UNCHANGED database,
               \/ w.stage \in {"idle", "answer", "signup", "recover", "delete"}
               \/ w.stage \in {"login", "google"} /\ w.began = Len(spent)
        PROVE  Good
    <3>1. WorkOK(w, users, credentials, Len(spent), nextUser)
      BY <1>1, <1>2, <2>1
    <3> QED
      BY <1>0, <2>1, <3>1 DEF Becomes, database
  <2>2. ASSUME NEW u \in Username, Signup(x, u)
        PROVE  Good
    <3> DEFINE w == [stage |-> "signup", username |-> u]
    <3>1. requests' = requests \/ Becomes(x, w)
      BY <2>2 DEF Signup, TakeAuthSlot
    <3>2. UNCHANGED database /\ w.stage = "signup"
      BY <2>2 DEF Signup
    <3> QED
      BY <2>1, <3>1, <3>2
  <2>3. ASSUME NEW u \in Username, NEW guess \in Guess, Login(x, u, guess)
        PROVE  Good
    <3> DEFINE w == [stage |-> "login", username |-> u, guess |-> guess,
                     began |-> Len(spent)]
    <3>1. requests' = requests \/ Becomes(x, w)
      BY <2>3 DEF Login, StartLimited, TakeAuthSlot
    <3>2. UNCHANGED database /\ w.stage = "login" /\ w.began = Len(spent)
      BY <2>3 DEF Login, StartLimited
    <3> QED
      BY <2>1, <3>1, <3>2
  <2>4. ASSUME NEW u \in Username, NEW code \in [set : Guess, slip : Slip],
               Recover(x, u, code)
        PROVE  Good
    <3> DEFINE w == [stage |-> "recover", username |-> u, code |-> code]
    <3>1. requests' = requests \/ Becomes(x, w)
      BY <2>4 DEF Recover, StartLimited, TakeAuthSlot
    <3>2. UNCHANGED database /\ w.stage = "recover"
      BY <2>4 DEF Recover, StartLimited
    <3> QED
      BY <2>1, <3>1, <3>2
  <2>5. ASSUME NEW g \in Subject, GoogleCallback(x, g)
        PROVE  Good
    BY <2>1, <2>5 DEF GoogleCallback
  <2>6. ASSUME NEW token \in DOMAIN sessions, DeleteAccount(x, token)
        PROVE  Good
    BY <2>1, <2>6 DEF DeleteAccount
  <2> QED
    BY <1>5, <2>2, <2>3, <2>4, <2>5, <2>6 DEF Start
<1>6. ASSUME NEW x \in Request, CreateLocalUser(x) \/ VerifyAndStart(x)
               \/ RecoverLocalUser(x) \/ StartUserSession(x)
               \/ DeleteUserWithoutParties(x) \/ Return(x)
      PROVE  Good
  <2>1. Becomes(x, Idle) \/ Becomes(x, Answering)
    BY <1>6 DEF CreateLocalUser, VerifyAndStart, RecoverLocalUser, StartUserSession,
       DeleteUserWithoutParties, Return
  <2> QED
    BY <1>0, <1>1, <1>i, <2>1 DEF Becomes
<1>7. ASSUME NEW x \in Request, LocalCredentialByUsername(x)
      PROVE  Good
  <2> DEFINE u == requests[x].username
             w == [stage |-> "verify", user |-> credentials[u].user,
                   password |-> credentials[u].password,
                   guess |-> requests[x].guess, began |-> requests[x].began]
  <2>1. Becomes(x, Answering) \/ (u \in DOMAIN credentials /\ Becomes(x, w))
    BY <1>7 DEF LocalCredentialByUsername
  <2>2. UNCHANGED <<users, credentials, spent, nextUser>>
    BY <1>7 DEF LocalCredentialByUsername, database
  <2>3. ASSUME u \in DOMAIN credentials
        PROVE  WorkOK(w, users, credentials, Len(spent), nextUser)
    <3>1. requests[x].began <= Len(spent)
      BY <1>7 DEF LocalCredentialByUsername, WorkInv, WorkOK
    <3>2. w.user < nextUser
      BY <2>3 DEF DatabaseOK, IsTable, IssuedBelow
    <3>3. w.password = PasswordIn(credentials, w.user)
      BY <2>3, PasswordOfCredential DEF AccountInv
    <3>4. w.stage = "verify" /\ w.began = requests[x].began
      OBVIOUS
    <3> HIDE DEF w
    <3> QED
      BY <3>1, <3>2, <3>3, <3>4 DEF WorkOK
  <2> HIDE DEF w
  <2> QED
    BY <1>0, <1>1, <1>i, <2>1, <2>2, <2>3 DEF Becomes
<1>8. ASSUME NEW x \in Request, UpsertGoogleUser(x)
      PROVE  Good
  <2>1. requests[x].stage = "google" /\ requests[x].subject \in Subject
        /\ requests[x].began <= Len(spent)
    BY <1>0, <1>8, WorkFields DEF UpsertGoogleUser, WorkInv, WorkOK
  <2>2. PICK user : /\ Becomes(x, [stage |-> "session", user |-> user,
                                    began |-> requests[x].began])
                    /\ user < nextUser'
                    /\ user \in DOMAIN users' => users'[user] # Native
    <3> DEFINE g == requests[x].subject
               known == {user \in DOMAIN users : users[user] = g}
    <3>0. g # Native
      BY <2>1 DEF Native
    <3>1. CASE known # {}
      BY <1>8, <3>0, <3>1 DEF UpsertGoogleUser, TypeOK, IssuedBelow
    <3>2. CASE known = {}
      <4>1. /\ users' = Put(users, nextUser, g) /\ nextUser' = nextUser + 1
            /\ Becomes(x, [stage |-> "session", user |-> nextUser,
                           began |-> requests[x].began])
        BY <1>8, <3>2 DEF UpsertGoogleUser
      <4> QED
        BY <1>0, <3>0, <4>1 DEF Put
    <3> QED
      BY <3>1, <3>2
  <2> DEFINE w == [stage |-> "session", user |-> user, began |-> requests[x].began]
  <2>3. w.stage = "session" /\ w.user = user /\ w.began = requests[x].began
    OBVIOUS
  <2>4. spent' = spent /\ credentials' = credentials
    BY <1>8 DEF UpsertGoogleUser
  <2>5. Becomes(x, w)
    BY <2>2
  <2> HIDE DEF w
  <2>6. WorkOK(w, users', credentials', Len(spent'), nextUser')
    BY <2>1, <2>2, <2>3, <2>4 DEF WorkOK
  <2> QED
    BY <1>0, <2>5, <2>6 DEF Becomes
<1> QED
  BY <1>3, <1>4, <1>5, <1>6, <1>7, <1>8 DEF Next, Step

LEMMA WorkStep ==
  ASSUME TypeOK, DatabaseOK, AccountInv, AccountInv', WorkInv, Next, DatabaseStep
  PROVE  WorkInv'
<1> SUFFICES ASSUME NEW r \in Request
             PROVE  WorkOK(requests'[r], users', credentials', Len(spent'), nextUser')
  BY DEF WorkInv
<1>1. CASE requests'[r] = requests[r]
  <2>1. requests[r] \in Work
        /\ WorkOK(requests[r], users, credentials, Len(spent), nextUser)
    BY DEF TypeOK, WorkInv
  <2>2. PICK w \in Work : w = requests[r]
    BY <2>1
  <2>3. WorkOK(w, users, credentials, Len(spent), nextUser)
    BY <2>1, <2>2
  <2>4. WorkOK(w, users', credentials', Len(spent'), nextUser')
    BY <2>3, WorkKept
  <2> QED
    BY <1>1, <2>2, <2>4
<1> QED
  BY <1>1, NewWork

LEMMA SessionsStep ==
  ASSUME TypeOK, DatabaseOK, AccountInv, AccountInv', WorkInv, ResetEndsSessions,
         DatabaseStep
  PROVE  ResetEndsSessions'
<1>0. /\ spent \in Seq(Nat) /\ Len(spent) \in Nat /\ nextUser \notin DOMAIN users
      /\ \A t \in DOMAIN sessions : RowOK(sessions[t], credentials)
                                    /\ sessions[t].user \in DOMAIN users
  BY RowsOK DEF DatabaseOK, IssuedBelow
<1>1. SUFFICES \A t \in DOMAIN sessions' : RowOK(sessions'[t], credentials')
  BY <1>1 DEF ResetEndsSessions, RowOK, PasswordOf
<1> DEFINE Goal == \A t \in DOMAIN sessions' : RowOK(sessions'[t], credentials')
<1>4. ASSUME NEW u \in Username, NEW code \in Code, Reset(u, code)
      PROVE  Goal
  <2> DEFINE user == credentials[u].user
  <2>1. /\ DOMAIN sessions' = {t \in DOMAIN sessions : sessions[t].user # user}
        /\ \A t \in DOMAIN sessions' : sessions'[t] = sessions[t]
    BY <1>4 DEF Reset, SessionsOf, Without
  <2>2. ASSUME NEW t \in DOMAIN sessions'
        PROVE  PasswordIn(credentials', sessions[t].user)
                 = PasswordIn(credentials, sessions[t].user)
    <3>1. PICK other \in DOMAIN users : other = sessions[t].user
      BY <1>0, <2>1
    <3>2. other # user
      BY <2>1, <3>1
    <3>3. ASSUME NEW v \in DOMAIN credentials
          PROVE  credentials'[v].user = credentials[v].user
                 /\ (credentials[v].user = other
                       => credentials'[v].password = credentials[v].password)
      BY <1>4, <3>2 DEF Reset, DatabaseOK, IsTable
    <3>4. DOMAIN credentials' = DOMAIN credentials
      BY <1>4 DEF Reset
    <3>5. {v \in DOMAIN credentials : credentials[v].user = other}
            = {v \in DOMAIN credentials' : credentials'[v].user = other}
      BY <3>3, <3>4
    <3>6. PasswordIn(credentials', other) = PasswordIn(credentials, other)
      BY <3>3, <3>4, <3>5, SamePassword DEF AccountInv
    <3> QED
      BY <3>1, <3>6
  <2> QED
    BY <1>0, <2>1, <2>2 DEF RowOK
<1>5. ASSUME NEW user \in DOMAIN users, Removal(user)
      PROVE  Goal
  <2>1. /\ DOMAIN sessions' = {t \in DOMAIN sessions : sessions[t].user # user}
        /\ \A t \in DOMAIN sessions' : sessions'[t] = sessions[t]
    BY <1>5 DEF Removal, SessionsOf, Without
  <2>2. ASSUME NEW t \in DOMAIN sessions'
        PROVE  PasswordIn(credentials', sessions[t].user)
                 = PasswordIn(credentials, sessions[t].user)
    <3>1. PICK other \in DOMAIN users : other = sessions[t].user
      BY <1>0, <2>1
    <3>2. other # user
      BY <2>1, <3>1
    <3>3. /\ {v \in DOMAIN credentials : credentials[v].user = other}
             = {v \in DOMAIN credentials' : credentials'[v].user = other}
          /\ \A v \in DOMAIN credentials \cap DOMAIN credentials' :
               credentials[v].password = credentials'[v].password
      BY <1>5, <3>2 DEF Removal, Without, CredentialsOf
    <3>4. PasswordIn(credentials', other) = PasswordIn(credentials, other)
      BY <3>3, SamePassword DEF AccountInv
    <3> QED
      BY <3>1, <3>4
  <2> QED
    BY <1>0, <2>1, <2>2 DEF RowOK
<1>6. ASSUME NEW u \in Username, NewAccount(u)
      PROVE  Goal
  <2>1. ASSUME NEW user, user # nextUser
        PROVE  PasswordIn(credentials', user) = PasswordIn(credentials, user)
    <3>1. /\ {v \in DOMAIN credentials : credentials[v].user = user}
             = {v \in DOMAIN credentials' : credentials'[v].user = user}
          /\ \A v \in DOMAIN credentials \cap DOMAIN credentials' :
               credentials[v].password = credentials'[v].password
      BY <1>6, <2>1 DEF NewAccount, Put
    <3> QED
      BY <3>1, SamePassword DEF AccountInv
  <2>2. PasswordIn(credentials', nextUser) = NextPassword
    <3>1. u \in DOMAIN credentials' /\ credentials'[u].user = nextUser
          /\ credentials'[u].password = NextPassword
      BY <1>6 DEF NewAccount, Put
    <3> QED
      BY <3>1, PasswordOfCredential DEF AccountInv
  <2>3. /\ DOMAIN sessions' = DOMAIN sessions \cup {nextSession}
        /\ \A t \in DOMAIN sessions' \ {nextSession} : sessions'[t] = sessions[t]
        /\ sessions'[nextSession].user = nextUser
        /\ sessions'[nextSession].password = NextPassword
        /\ sessions'[nextSession].since = NextPassword
    BY <1>6 DEF NewAccount, Put
  <2>4. ASSUME NEW t \in DOMAIN sessions
        PROVE  PasswordIn(credentials', sessions[t].user)
                 = PasswordIn(credentials, sessions[t].user)
    <3>1. PICK user \in DOMAIN users : user = sessions[t].user
      BY <1>0
    <3> QED
      BY <1>0, <2>1, <3>1
  <2> QED
    BY <1>0, <2>2, <2>3, <2>4 DEF RowOK
<1>7. ASSUME NEW user, NEW password, NEW began, NewSession(user, password, began),
             \/ password = PasswordIn(credentials, user)
             \/ began < PasswordIn(credentials, user)
      PROVE  Goal
  <2>1. /\ DOMAIN sessions' = DOMAIN sessions \cup {nextSession}
        /\ \A t \in DOMAIN sessions' \ {nextSession} : sessions'[t] = sessions[t]
        /\ sessions'[nextSession].user = user
        /\ sessions'[nextSession].password = password
        /\ sessions'[nextSession].began = began
        /\ sessions'[nextSession].since = PasswordIn(credentials, user)
        /\ credentials' = credentials
    BY <1>7 DEF NewSession, Put, PasswordOf
  <2> QED
    BY <1>0, <1>7, <2>1 DEF RowOK
<1>8. ASSUME NEW r \in Request, Verified(r)
      PROVE  Goal
  BY <1>7, <1>8 DEF Verified, NewSession, WorkInv, WorkOK
<1>9. ASSUME NEW r \in Request, Vouched(r)
      PROVE  Goal
  <2>1. /\ requests[r].user \in DOMAIN users /\ users[requests[r].user] # Native
    BY <1>9 DEF Vouched, NewSession, WorkInv, WorkOK
  <2>2. PasswordIn(credentials, requests[r].user) = 0
    BY <2>1 DEF PasswordIn, AccountInv
  <2> QED
    BY <1>7, <1>9, <2>2 DEF Vouched
<1>10. ASSUME NEW g \in Subject, NewGoogle(g)
       PROVE  Goal
  BY <1>0, <1>10 DEF NewGoogle
<1>11. CASE UNCHANGED database \/ Parties
            \/ \E T \in SUBSET DOMAIN sessions : SignOff(T)
  BY <1>0, <1>11 DEF database, Parties, SignOff, Without
<1> QED
  BY <1>4, <1>5, <1>6, <1>8, <1>9, <1>10, <1>11 DEF DatabaseStep

----------------------------------------------------------------------------
(* The limiter.  At most L of the tries let through are in the present     *)
(* bucket, its first one opened it, and all but L - 1 of the others are a  *)
(* window older than that.                                                 *)
Past(s, at) ==
  /\ s \in Seq(Nat)
  /\ \A i, j \in 1..Len(s) : i <= j => s[i] <= s[j]
  /\ \A i \in 1..Len(s) : s[i] <= at

Bounded(s, L) ==
  \A i, j \in 1..Len(s) : j - i = 2 * L - 1 => s[j] - s[i] >= AuthWindow

Settled(s, L, at) == \A i \in 1..(Len(s) - L + 1) : s[i] + AuthWindow <= at

InBucket(s, L, b, at) ==
  \E c \in 1..Len(s) :
    /\ b \in Bucket /\ b.start <= at
    /\ c <= L /\ (b.count <= L => c = b.count)
    /\ s[Len(s) - c + 1] = b.start
    /\ \A i \in 1..(Len(s) - c - L + 1) : s[i] + AuthWindow <= b.start

KeyOK(s, L, table, key, at) ==
  /\ Past(s, at)
  /\ Bounded(s, L)
  /\ key \in DOMAIN table => InBucket(s, L, table[key], at)
  /\ key \notin DOMAIN table => Settled(s, L, at)

LimiterInv ==
  \A key \in Key : KeyOK(passes[key], LimitOf(key), buckets, key, now)

LEMMA Elapsed ==
  ASSUME NEW a \in Nat, NEW start \in Nat, NEW window \in Nat, NEW at \in Nat,
         a <= start, at - start >= window
  PROVE  a + window <= at
OBVIOUS

LEMMA EndedSettles ==
  ASSUME NEW s, NEW L \in Nat \ {0}, NEW b, NEW at \in Nat,
         Past(s, at), InBucket(s, L, b, at), Ended(b, AuthWindow, at)
  PROVE  Settled(s, L, at)
<1> SUFFICES ASSUME NEW i \in 1..(Len(s) - L + 1)
             PROVE  s[i] + AuthWindow <= at
  BY DEF Settled
<1>0. AuthWindow \in Nat /\ s \in Seq(Nat) /\ Len(s) \in Nat
      /\ \A j \in 1..Len(s) : s[j] \in Nat
  BY SignInAssumption DEF SignInAssumption, Past
<1>1. PICK c \in 1..Len(s) : b.start \in Nat /\ c <= L /\ s[Len(s) - c + 1] = b.start
  BY DEF InBucket, Bucket
<1> DEFINE k == Len(s) - c + 1
<1>2. k \in 1..Len(s) /\ i \in 1..Len(s) /\ i <= k
  BY <1>0, <1>1
<1>3. s[i] <= s[k]
  BY <1>2 DEF Past
<1>4. s[i] \in Nat /\ s[i] <= b.start
  BY <1>0, <1>1, <1>2, <1>3
<1>5. at - b.start >= AuthWindow
  BY DEF Ended
<1> QED
  BY <1>0, <1>1, <1>4, <1>5, Elapsed, Zenon

LEMMA KeyTick ==
  ASSUME NEW s, NEW L \in Nat \ {0}, NEW table, NEW key, NEW at \in Nat,
         KeyOK(s, L, table, key, at)
  PROVE  KeyOK(s, L, table, key, at + 1)
<1>0. AuthWindow \in Nat /\ s \in Seq(Nat) /\ Len(s) \in Nat
      /\ \A j \in 1..Len(s) : s[j] \in Nat
  BY SignInAssumption DEF SignInAssumption, KeyOK, Past
<1>1. Past(s, at + 1) /\ Bounded(s, L)
  BY <1>0 DEF KeyOK, Past
<1>2. ASSUME key \in DOMAIN table
      PROVE  InBucket(s, L, table[key], at + 1)
  <2>1. PICK c \in 1..Len(s) :
          /\ table[key] \in Bucket /\ table[key].start <= at
          /\ c <= L /\ (table[key].count <= L => c = table[key].count)
          /\ s[Len(s) - c + 1] = table[key].start
          /\ \A i \in 1..(Len(s) - c - L + 1) : s[i] + AuthWindow <= table[key].start
    BY <1>2 DEF KeyOK, InBucket
  <2>2. table[key].start <= at + 1
    BY <2>1 DEF Bucket
  <2> QED
    BY <2>1, <2>2 DEF InBucket
<1>3. ASSUME key \notin DOMAIN table
      PROVE  Settled(s, L, at + 1)
  BY <1>0, <1>3 DEF KeyOK, Settled
<1> QED
  BY <1>1, <1>2, <1>3 DEF KeyOK

(* Forgetting a bucket forgets nothing that still counts.                  *)
LEMMA KeyForgotten ==
  ASSUME NEW s, NEW L \in Nat \ {0}, NEW table, NEW key, NEW at \in Nat,
         KeyOK(s, L, table, key, at), NEW maxBuckets
  PROVE  KeyOK(s, L, Without(table, Forgotten(table, AuthWindow, at, maxBuckets)),
               key, at)
<1> DEFINE K == Forgotten(table, AuthWindow, at, maxBuckets)
           rest == Without(table, K)
<1>0. AuthWindow \in Nat \ {0}
  BY SignInAssumption DEF SignInAssumption
<1> SUFFICES KeyOK(s, L, rest, key, at)
  OBVIOUS
<1>1. CASE key \in DOMAIN table /\ key \in K
  <2>1. InBucket(s, L, table[key], at) /\ Past(s, at)
    BY <1>1 DEF KeyOK
  <2>2. at - table[key].start > 2 * AuthWindow
    BY <1>1 DEF Forgotten
  <2>3. table[key].start \in Nat
    BY <2>1 DEF InBucket, Bucket
  <2>4. Ended(table[key], AuthWindow, at)
    BY <1>0, <2>2, <2>3 DEF Ended
  <2>5. Settled(s, L, at)
    BY <2>1, <2>4, EndedSettles
  <2>6. key \notin DOMAIN rest
    BY <1>1 DEF Without
  <2> HIDE DEF rest
  <2> QED
    BY <2>5, <2>6 DEF KeyOK
<1>2. CASE key \in DOMAIN table /\ key \notin K
  <2>1. key \in DOMAIN rest /\ rest[key] = table[key]
    BY <1>2 DEF Without
  <2> HIDE DEF rest
  <2> QED
    BY <1>2, <2>1 DEF KeyOK
<1>3. CASE key \notin DOMAIN table
  <2>1. key \notin DOMAIN rest
    BY <1>3 DEF Without
  <2> HIDE DEF rest
  <2> QED
    BY <1>3, <2>1 DEF KeyOK
<1> QED
  BY <1>1, <1>2, <1>3

LEMMA KeyTried ==
  ASSUME NEW s, NEW L \in Nat \ {0}, NEW table, NEW key, NEW at \in Nat,
         KeyOK(s, L, table, key, at), NEW b,
         b = Counted(table, key, AuthWindow, at), NEW t,
         t = IF b.count <= L THEN Append(s, at) ELSE s
  PROVE  KeyOK(t, L, Put(table, key, b), key, at)
<1>0. AuthWindow \in Nat \ {0} /\ s \in Seq(Nat) /\ Len(s) \in Nat
      /\ \A j \in 1..Len(s) : s[j] \in Nat
  BY SignInAssumption DEF SignInAssumption, KeyOK, Past
<1>1. key \in DOMAIN Put(table, key, b) /\ Put(table, key, b)[key] = b
  BY DEF Put
<1>2. SUFFICES Past(t, at) /\ Bounded(t, L) /\ InBucket(t, L, b, at)
  BY <1>1, <1>2 DEF KeyOK
<1> DEFINE n == Len(s)
           m == Append(s, at)
<1>3. /\ m \in Seq(Nat) /\ Len(m) = n + 1
      /\ \A i \in 1..n : m[i] = s[i]
      /\ m[n + 1] = at
  BY <1>0
<1>4. Past(m, at)
  BY <1>0, <1>3 DEF KeyOK, Past
<1> HIDE DEF n, m
<1>n. n \in Nat /\ L \in Nat /\ L >= 1 /\ Len(m) = n + 1 /\ Len(s) = n
  BY <1>0, <1>3 DEF n
<1>v. ASSUME NEW i \in 1..n
      PROVE  m[i] = s[i] /\ s[i] \in Nat
  BY <1>0, <1>3 DEF n
(* Where the bound holds for the new try, it holds.                        *)
<1>w. ASSUME \A i \in 1..n : i = n + 2 - 2 * L => s[i] + AuthWindow <= at
      PROVE  Bounded(m, L)
  <2> SUFFICES ASSUME NEW i \in 1..(n + 1), NEW j \in 1..(n + 1), j - i = 2 * L - 1
               PROVE  m[j] - m[i] >= AuthWindow
    BY <1>n DEF Bounded
  <2>1. i \in Int /\ j \in Int /\ i < j /\ i \in 1..n
    BY <1>n
  <2>2. CASE j \in 1..n
    <3>1. s[j] - s[i] >= AuthWindow
      BY <1>n, <2>1, <2>2 DEF KeyOK, Bounded
    <3> QED
      BY <1>v, <2>1, <2>2, <3>1
  <2>3. CASE j = n + 1
    <3>1. i = n + 2 - 2 * L
      BY <1>n, <2>1, <2>3
    <3>2. s[i] + AuthWindow <= at
      BY <1>w, <2>1, <3>1
    <3> QED
      BY <1>0, <1>3, <1>n, <1>v, <2>1, <2>3, <3>2 DEF n
  <2> QED
    BY <1>n, <2>2, <2>3
<1>5. ASSUME key \in DOMAIN table, ~Ended(table[key], AuthWindow, at)
      PROVE  Past(t, at) /\ Bounded(t, L) /\ InBucket(t, L, b, at)
  <2> DEFINE old == table[key]
  <2>1. PICK c \in 1..n : /\ old \in Bucket /\ old.start <= at
                          /\ c <= L /\ (old.count <= L => c = old.count)
                          /\ s[n - c + 1] = old.start
                          /\ \A i \in 1..(n - c - L + 1) : s[i] + AuthWindow <= old.start
    BY <1>5 DEF KeyOK, InBucket, n
  <2>2. b = [old EXCEPT !.count = old.count + 1]
    BY <1>5, Zenon DEF Counted
  <2> HIDE DEF old
  <2>3. b \in Bucket /\ b.start = old.start /\ b.count = old.count + 1
        /\ old.start \in Nat /\ old.count \in Nat
    BY <2>1, <2>2 DEF Bucket
  <2>4. c \in Nat /\ c >= 1 /\ c <= n
    BY <1>n
  <2>5. CASE b.count <= L
    <3>1. t = m
      BY <2>5 DEF m
    <3>2. c = old.count /\ c + 1 <= L /\ c + 1 = b.count
      BY <1>n, <2>1, <2>3, <2>4, <2>5
    <3>3. InBucket(m, L, b, at)
      <4>1. c + 1 \in 1..Len(m)
        BY <1>n, <2>4
      <4>2. /\ Len(m) - (c + 1) + 1 = n - c + 1 /\ n - c + 1 \in 1..n
            /\ Len(m) - (c + 1) - L + 1 = n - c - L + 1
        BY <1>n, <2>4
      <4>3. m[n - c + 1] = b.start
        BY <1>v, <2>1, <2>3, <4>2
      <4>4. \A i \in 1..(n - c - L + 1) : m[i] + AuthWindow <= b.start
        <5> SUFFICES ASSUME NEW i \in 1..(n - c - L + 1)
                     PROVE  m[i] + AuthWindow <= b.start
          OBVIOUS
        <5>1. i \in 1..n
          BY <1>n, <2>4
        <5> QED
          BY <1>v, <2>1, <2>3, <5>1
      <4>5. b.start <= at /\ (b.count <= L => c + 1 = b.count)
        BY <2>1, <2>3, <3>2
      <4> DEFINE d == c + 1
      <4>6. /\ d \in 1..Len(m) /\ d <= L /\ (b.count <= L => d = b.count)
            /\ m[Len(m) - d + 1] = b.start
            /\ \A i \in 1..(Len(m) - d - L + 1) : m[i] + AuthWindow <= b.start
        BY <3>2, <4>1, <4>2, <4>3, <4>4, <4>5
      <4> HIDE DEF d
      <4> QED
        BY <2>3, <4>5, <4>6 DEF InBucket
    <3>4. ASSUME NEW i \in 1..n, i = n + 2 - 2 * L
          PROVE  s[i] + AuthWindow <= at
      <4>0. i \in Nat /\ 1 <= i
        BY <1>n
      <4>1. i \in 1..(n - c - L + 1)
        <5>0. c + 1 <= L /\ i = n + 2 - L - L
          BY <1>n, <3>2, <3>4
        <5>1. i <= n - c - L + 1
          BY <1>n, <2>4, <5>0
        <5> QED
          BY <1>n, <2>4, <4>0, <5>1
      <4>2. s[i] + AuthWindow <= old.start
        BY <2>1, <4>1
      <4>3. s[i] \in Nat
        BY <1>v, Zenon
      <4>4. old.start \in Nat /\ old.start <= at
        BY <2>1, <2>3, Zenon
      <4> QED
        BY <1>0, <4>2, <4>3, <4>4
    <3> QED
      BY <1>4, <1>w, <3>1, <3>3, <3>4
  <2>6. CASE ~(b.count <= L)
    <3>1. t = s
      BY <2>6
    <3>2. c \in 1..Len(s) /\ s[Len(s) - c + 1] = b.start /\ b.start <= at
          /\ \A i \in 1..(Len(s) - c - L + 1) : s[i] + AuthWindow <= b.start
      BY <1>n, <2>1, <2>3
    <3>3. InBucket(s, L, b, at)
      BY <2>1, <2>3, <2>6, <3>2 DEF InBucket
    <3> QED
      BY <3>1, <3>3 DEF KeyOK
  <2> QED
    BY <2>5, <2>6
<1>6. ASSUME key \notin DOMAIN table \/ Ended(table[key], AuthWindow, at)
      PROVE  Past(t, at) /\ Bounded(t, L) /\ InBucket(t, L, b, at)
  <2>1. Settled(s, L, at)
    BY <1>6, EndedSettles DEF KeyOK
  <2>2. b = [start |-> at, count |-> 1]
    BY <1>6 DEF Counted
  <2>3. b \in Bucket /\ b.start = at /\ b.count = 1 /\ t = m
    BY <1>n, <2>2 DEF Bucket, m
  <2>4. ASSUME NEW i \in 1..(n + 1 - L)
        PROVE  i \in 1..n /\ s[i] + AuthWindow <= at
    BY <1>n, <2>1 DEF Settled
  <2>5. InBucket(m, L, b, at)
    <3>1. /\ Len(m) - 1 + 1 = n + 1 /\ Len(m) - 1 - L + 1 = n + 1 - L
          /\ 1 \in 1..Len(m)
      BY <1>n
    <3>2. m[n + 1] = at
      BY <1>3 DEF n, m
    <3>3. \A i \in 1..(n + 1 - L) : m[i] + AuthWindow <= b.start
      BY <1>v, <2>3, <2>4
    <3> QED
      BY <1>n, <2>3, <3>1, <3>2, <3>3 DEF InBucket
  <2>6. ASSUME NEW i \in 1..n, i = n + 2 - 2 * L
        PROVE  s[i] + AuthWindow <= at
    <3>1. i \in 1..(n + 1 - L)
      BY <1>n, <2>6
    <3> QED
      BY <2>4, <3>1
  <2> QED
    BY <1>4, <1>w, <2>3, <2>5, <2>6
<1> QED
  BY <1>5, <1>6

LEMMA LimiterStep ==
  ASSUME TypeOK, LimiterInv, Next
  PROVE  LimiterInv'
<1> SUFFICES ASSUME NEW key \in Key
             PROVE  KeyOK(passes'[key], LimitOf(key), buckets', key, now')
  BY DEF LimiterInv, LimitOf
<1> DEFINE L == LimitOf(key)
<1>0. /\ L \in Nat \ {0} /\ now \in Nat /\ passes \in [Key -> Seq(Nat)]
      /\ DOMAIN buckets \subseteq Key
      /\ KeyOK(passes[key], L, buckets, key, now)
  BY SignInAssumption DEF SignInAssumption, LimitOf, TypeOK, LimiterInv
<1> HIDE DEF L
<1> SUFFICES KeyOK(passes'[key], L, buckets', key, now')
  BY DEF L
<1>1. CASE UNCHANGED <<now, limiter>>
  BY <1>0, <1>1 DEF limiter
<1>2. CASE now' = now + 1 /\ UNCHANGED limiter
  BY <1>0, <1>2, KeyTick DEF limiter
<1>3. CASE now' = now /\ buckets' = <<>> /\ passes' = [k \in Key |-> <<>>]
  <2>1. passes'[key] = <<>> /\ key \notin DOMAIN buckets'
    BY <1>3
  <2>2. Past(<<>>, now) /\ Bounded(<<>>, L) /\ Settled(<<>>, L, now)
    BY <1>0 DEF Past, Bounded, Settled
  <2> QED
    BY <1>3, <2>1, <2>2 DEF KeyOK
<1>4. ASSUME NEW other \in Key, now' = now, Let(other)
      PROVE  KeyOK(passes'[key], L, buckets', key, now')
  <2> DEFINE b == Counted(buckets, other, AuthWindow, now)
             tried == Put(buckets, other, b)
             K == Forgotten(tried, AuthWindow, now, MaxBuckets)
             s == passes[key]
             t == IF b.count <= L THEN Append(s, now) ELSE s
  <2>1. buckets' = Without(tried, K)
    BY <1>4 DEF Let, AfterTry
  <2>2. CASE other = key
    <3>1. passes'[key] = t
      BY <1>0, <1>4, <2>2 DEF Let, Allows, L
    <3>2. KeyOK(t, L, tried, key, now)
      <4> HIDE DEF t, s
      <4>1. t = IF b.count <= L THEN Append(s, now) ELSE s
        BY DEF t
      <4>2. KeyOK(s, L, buckets, key, now)
        BY <1>0 DEF s
      <4>3. b = Counted(buckets, key, AuthWindow, now) /\ tried = Put(buckets, key, b)
        BY <2>2
      <4> HIDE DEF b, tried
      <4> QED
        BY <1>0, <4>1, <4>2, <4>3, KeyTried
    <3> HIDE DEF t, tried
    <3> QED
      BY <1>0, <1>4, <2>1, <3>1, <3>2, KeyForgotten
  <2>3. CASE other # key
    <3>1. passes'[key] = s
      BY <1>0, <1>4, <2>3 DEF Let
    <3>2. /\ key \in DOMAIN tried <=> key \in DOMAIN buckets
          /\ key \in DOMAIN buckets => tried[key] = buckets[key]
      BY <2>3 DEF Put
    <3> HIDE DEF tried
    <3>3. KeyOK(s, L, tried, key, now)
      BY <1>0, <3>2 DEF KeyOK
    <3> HIDE DEF s
    <3> QED
      BY <1>0, <1>4, <2>1, <3>1, <3>3, KeyForgotten
  <2> QED
    BY <2>2, <2>3
<1> QED
  BY <1>1, <1>2, <1>3, <1>4, LimiterSteps

----------------------------------------------------------------------------
(* The inductive invariant.                                                *)
IInv ==
  /\ TypeOK /\ SlotsAreReturned
  /\ AccountInv /\ WorkInv /\ ResetEndsSessions
  /\ LimiterInv

LEMMA Initially ==
  Init => IInv
<1> SUFFICES ASSUME Init
             PROVE  IInv
  OBVIOUS
<1> USE DEF Init
<1>1. Idle \in Work /\ Idle.stage = "idle" /\ "idle" \notin Holding
  BY DEF Idle, Work, Holding
<1>2. requests \in [Request -> Work]
  BY <1>1
<1>3. TypeOK
  BY <1>2 DEF TypeOK, IsTable, IssuedBelow
<1>4. SlotsAreReturned
  <2>1. {r \in Request : requests[r].stage \in Holding} = {}
    BY <1>1
  <2>2. slots = Cardinality({}) /\ slots <= AuthSlots
    BY FS_EmptySet, SignInAssumption DEF SignInAssumption
  <2> QED
    BY <2>1, <2>2 DEF SlotsAreReturned
<1>5. AccountInv /\ ResetEndsSessions
  BY DEF AccountInv, CodesServeOnce, Unique, ResetEndsSessions
<1>6. WorkInv
  BY <1>1 DEF WorkInv, WorkOK
<1>7. LimiterInv
  <2> SUFFICES ASSUME NEW key \in Key
               PROVE  KeyOK(passes[key], LimitOf(key), buckets, key, now)
    BY DEF LimiterInv
  <2>0. LimitOf(key) \in Nat \ {0}
    BY SignInAssumption DEF SignInAssumption, LimitOf
  <2>1. passes[key] = <<>> /\ key \notin DOMAIN buckets
    OBVIOUS
  <2>2. Past(<<>>, now) /\ Bounded(<<>>, LimitOf(key)) /\ Settled(<<>>, LimitOf(key), now)
    BY <2>0 DEF Past, Bounded, Settled
  <2> QED
    BY <2>1, <2>2 DEF KeyOK
<1> QED
  BY <1>3, <1>4, <1>5, <1>6, <1>7 DEF IInv

LEMMA Inductive ==
  IInv /\ [Next]_vars => IInv'
<1> SUFFICES ASSUME IInv, [Next]_vars
             PROVE  IInv'
  OBVIOUS
<1>0. TypeOK /\ SlotsAreReturned /\ AccountInv /\ WorkInv /\ ResetEndsSessions
      /\ LimiterInv
  BY DEF IInv
<1>1. CASE Next
  <2>1. /\ DatabaseOK /\ now \in Nat /\ requests \in [Request -> Work]
        /\ DatabaseStep
    BY <1>0, <1>1, DatabaseSteps DEF TypeOK, DatabaseOK
  <2>2. DatabaseOK'
    BY <2>1, DatabaseTypes
  <2>3. AccountInv'
    BY <1>0, <2>1, AccountsStep
  <2>4. WorkInv'
    BY <1>0, <1>1, <2>1, <2>3, WorkStep
  <2>5. ResetEndsSessions'
    BY <1>0, <2>1, <2>3, SessionsStep
  <2>6. LimiterInv'
    BY <1>0, <1>1, LimiterStep
  <2>7. SlotsAreReturned' /\ slots' \in Nat /\ requests' \in [Request -> Work]
    BY <1>0, SlotsStep
  <2>8. /\ now' \in Nat
        /\ IsTable(buckets', Bucket) /\ DOMAIN buckets' \subseteq Key
        /\ passes' \in [Key -> Seq(Nat)]
    BY <1>0, LimiterTypes
  <2>9. TypeOK'
    BY <2>2, <2>7, <2>8 DEF TypeOK, DatabaseOK
  <2> QED
    BY <2>3, <2>4, <2>5, <2>6, <2>7, <2>9 DEF IInv
<1>2. CASE UNCHANGED vars
  <2> USE DEF vars
  <2>1. TypeOK' /\ SlotsAreReturned'
    BY <1>0, <1>2 DEF TypeOK, SlotsAreReturned
  <2>2. AccountInv' /\ ResetEndsSessions'
    BY <1>0, <1>2 DEF AccountInv, CodesServeOnce, ResetEndsSessions, PasswordOf
  <2>3. WorkInv' /\ LimiterInv'
    BY <1>0, <1>2 DEF WorkInv, LimiterInv
  <2> QED
    BY <2>1, <2>2, <2>3 DEF IInv
<1> QED
  BY <1>1, <1>2

LEMMA Invariant ==
  Spec => []IInv
BY Initially, Inductive, PTL DEF Spec

(* Rows keep their types and refer to users that exist.                    *)
THEOREM TypeCorrect == Spec => []TypeOK
<1>1. IInv => TypeOK
  BY DEF IInv
<1> QED
  BY <1>1, Invariant, PTL

(* Every authentication slot that is taken belongs to a handler at work.   *)
THEOREM SlotsReturned == Spec => []SlotsAreReturned
<1>1. IInv => SlotsAreReturned
  BY DEF IInv
<1> QED
  BY <1>1, Invariant, PTL

(* A set of recovery codes serves one reset, and a present password has a  *)
(* complete set.                                                           *)
THEOREM OneReset == Spec => []CodesServeOnce
<1>1. IInv => CodesServeOnce
  BY DEF IInv, AccountInv
<1> QED
  BY <1>1, Invariant, PTL

(* No session outlives a reset, other than those of logins at work with    *)
(* the old password while it happened.                                     *)
THEOREM ResetSignsOut == Spec => []ResetEndsSessions
<1>1. IInv => ResetEndsSessions
  BY DEF IInv
<1> QED
  BY <1>1, Invariant, PTL

(* In any span shorter than a window fewer than twice the limit are let    *)
(* through, however windows fall and buckets are forgotten.                *)
THEOREM BoundedGuesses == Spec => []GuessesAreBounded
<1>1. IInv => GuessesAreBounded
  <2> SUFFICES ASSUME IInv, NEW key \in Key,
                      NEW i \in DOMAIN passes[key], NEW j \in DOMAIN passes[key],
                      j - i = 2 * LimitOf(key) - 1
               PROVE  passes[key][j] - passes[key][i] >= AuthWindow
    BY DEF GuessesAreBounded
  <2>1. passes[key] \in Seq(Nat) /\ DOMAIN passes[key] = 1..Len(passes[key])
    BY DEF IInv, TypeOK
  <2>2. Bounded(passes[key], LimitOf(key))
    BY DEF IInv, LimiterInv, KeyOK
  <2> QED
    BY <2>1, <2>2 DEF Bounded
<1> QED
  BY <1>1, Invariant, PTL

----------------------------------------------------------------------------
(* Signing in implements AccountLife: what a step does to the database is  *)
(* one of its actions.                                                     *)
LEMMA SameTables ==
  /\ \A f, k, row : Account!Put(f, k, row) = Put(f, k, row)
  /\ \A f, K : Account!Without(f, K) = Without(f, K)
BY DEF Account!Put, Account!Without, Put, Without

LEMMA EntriesPut ==
  ASSUME NEW k, NEW row, sessions' = Put(sessions, k, row)
  PROVE  Entries' = Put(Entries, k, Entry(row))
<1>1. /\ DOMAIN sessions' = DOMAIN sessions \cup {k}
      /\ \A t \in DOMAIN sessions' : sessions'[t] = IF t = k THEN row ELSE sessions[t]
  BY DEF Put
<1>2. Entries' = [t \in DOMAIN sessions' |-> Entry(sessions'[t])]
  BY DEF Entries, Entry
<1> QED
  BY <1>1, <1>2 DEF Entries, Put

LEMMA EntriesWithout ==
  ASSUME NEW K, sessions' = Without(sessions, K)
  PROVE  Entries' = Without(Entries, K)
<1>1. /\ DOMAIN sessions' = DOMAIN sessions \ K
      /\ \A t \in DOMAIN sessions' : sessions'[t] = sessions[t]
  BY DEF Without
<1>2. Entries' = [t \in DOMAIN sessions' |-> Entry(sessions'[t])]
  BY DEF Entries, Entry
<1> QED
  BY <1>1, <1>2 DEF Entries, Without

LEMMA EntriesOf ==
  ASSUME NEW user
  PROVE  Account!OfAccount(user) = SessionsOf(user)
BY DEF Account!OfAccount, SessionsOf, Entries, Entry

LEMMA PasswordsAfter ==
  Passwords' = [user \in DOMAIN users' |-> PasswordIn(credentials', user)]
BY DEF Passwords, PasswordOf

LEMMA SignUpStep ==
  ASSUME DatabaseOK, AccountInv, AccountInv', DatabaseStep,
         NEW u \in Username, NewAccount(u)
  PROVE  Account!SignUp
<1>1. /\ spent \in Seq(Nat) /\ Len(spent') = Len(spent) + 1
      /\ NextPassword = Len(spent) + 1
      /\ nextUser \in Nat /\ nextUser' = nextUser + 1 /\ nextUser \notin DOMAIN users
      /\ nextSession \in Nat /\ nextSession' = nextSession + 1
  BY OneMore DEF NewAccount, DatabaseOK, IssuedBelow, NextPassword
<1>2. DOMAIN users' = DOMAIN users \cup {nextUser}
  BY DEF NewAccount, Put
<1>3. PasswordIn(credentials', nextUser) = NextPassword
  <2>1. u \in DOMAIN credentials' /\ credentials'[u].user = nextUser
        /\ credentials'[u].password = NextPassword
    BY DEF NewAccount, Put
  <2> QED
    BY <2>1, PasswordOfCredential DEF AccountInv
<1>4. ASSUME NEW user \in DOMAIN users
      PROVE  PasswordIn(credentials', user) = PasswordIn(credentials, user)
  <2>1. user # nextUser
    BY <1>1
  <2>2. ~Removal(user) /\ \A v \in Username, code \in Code : ~Reset(v, code)
    BY <1>1, <1>2 DEF Removal, Reset, Without
  <2> QED
    BY <2>1, <2>2, PasswordChanges
<1>5. Passwords' = Put(Passwords, nextUser, NextPassword)
  BY <1>2, <1>3, <1>4, PasswordsAfter DEF Passwords, PasswordOf, Put
<1>6. Entries' = Put(Entries, nextSession, [account |-> nextUser,
                                            began |-> NextPassword, former |-> FALSE])
  <2> DEFINE row == [user |-> nextUser, expires |-> now + SessionTTL,
                     password |-> NextPassword, began |-> NextPassword,
                     since |-> NextPassword]
  <2>1. Entry(row) = [account |-> nextUser, began |-> NextPassword, former |-> FALSE]
    BY DEF Entry
  <2>2. sessions' = Put(sessions, nextSession, row)
    BY DEF NewAccount
  <2> HIDE DEF row
  <2> QED
    BY <2>1, <2>2, EntriesPut
<1>7. nextUser' - 1 = nextUser /\ nextSession' - 1 = nextSession
      /\ nextUser - 1 + 1 = nextUser /\ nextSession - 1 + 1 = nextSession
  BY <1>1
<1> QED
  BY <1>1, <1>5, <1>6, <1>7, SameTables DEF Account!SignUp, Account!Begin

LEMMA OpenStep ==
  ASSUME DatabaseOK, NEW g \in Subject, NewGoogle(g)
  PROVE  Account!Open
<1>1. /\ nextUser \in Nat /\ nextUser' = nextUser + 1 /\ nextUser \notin DOMAIN users
      /\ UNCHANGED <<credentials, sessions, nextSession, spent>>
  BY DEF NewGoogle, DatabaseOK, IssuedBelow
<1>2. DOMAIN users' = DOMAIN users \cup {nextUser}
  BY DEF NewGoogle, Put
<1>3. PasswordIn(credentials, nextUser) = 0
  <2>1. \A v \in DOMAIN credentials : credentials[v].user # nextUser
    BY <1>1 DEF DatabaseOK, IsTable
  <2> QED
    BY <2>1 DEF PasswordIn
<1>4. Passwords' = Put(Passwords, nextUser, 0)
  BY <1>1, <1>2, <1>3, PasswordsAfter DEF Passwords, PasswordOf, Put
<1>5. Entries' = Entries
  BY <1>1 DEF Entries, Entry
<1>6. nextUser' - 1 = nextUser /\ nextUser - 1 + 1 = nextUser
  BY <1>1
<1> QED
  BY <1>1, <1>4, <1>5, <1>6, SameTables DEF Account!Open

(* A session goes to an account that is open, under its present password   *)
(* or one replaced after the handler began.                                *)
LEMMA EnterStep ==
  ASSUME DatabaseOK, NEW user, NEW password, NEW began \in 0..Len(spent),
         NewSession(user, password, began),
         \/ password = PasswordIn(credentials, user)
         \/ began < PasswordIn(credentials, user)
  PROVE  Account!AccountNext
<1>1. /\ nextSession \in Nat /\ nextSession' = nextSession + 1
      /\ UNCHANGED <<users, credentials, nextUser, spent>>
      /\ user \in DOMAIN users
  BY DEF NewSession, DatabaseOK
<1>2. PICK former \in BOOLEAN : former = (password # PasswordIn(credentials, user))
  OBVIOUS
<1>3. Entries' = Put(Entries, nextSession, [account |-> user, began |-> began,
                                            former |-> former])
  <2> DEFINE row == [user |-> user, expires |-> now + SessionTTL,
                     password |-> password, began |-> began,
                     since |-> PasswordOf(user)]
  <2>1. Entry(row) = [account |-> user, began |-> began, former |-> former]
    BY <1>2 DEF Entry, PasswordOf
  <2>2. sessions' = Put(sessions, nextSession, row)
    BY DEF NewSession
  <2> HIDE DEF row
  <2> QED
    BY <2>1, <2>2, EntriesPut
<1>4. Passwords' = Passwords
  BY <1>1, PasswordsAfter DEF Passwords, PasswordOf
<1>5. user \in DOMAIN Passwords /\ Passwords[user] = PasswordIn(credentials, user)
  BY <1>1 DEF Passwords, PasswordOf
<1>6. nextSession' - 1 = nextSession /\ nextSession - 1 + 1 = nextSession
  BY <1>1
<1>7. Account!Enter(user, began, former)
  BY <1>1, <1>2, <1>3, <1>4, <1>5, <1>6, SameTables DEF Account!Enter, Account!Begin
<1> QED
  BY <1>5, <1>7 DEF Account!AccountNext

LEMMA ReplaceStep ==
  ASSUME DatabaseOK, AccountInv, AccountInv', DatabaseStep,
         NEW u \in Username, NEW code \in Code, Reset(u, code)
  PROVE  Account!AccountNext
<1> DEFINE user == credentials[u].user
<1>1. /\ u \in DOMAIN credentials /\ code \in codes[user]
      /\ sessions' = Without(sessions, SessionsOf(user))
      /\ spent' = Append([spent EXCEPT ![code.set] = @ + 1], 0)
      /\ UNCHANGED <<users, nextUser, nextSession>>
  BY DEF Reset
<1>2. Len(spent') = Len(spent) + 1 /\ Len(spent) \in Nat
  <2> DEFINE bumped == [spent EXCEPT ![code.set] = @ + 1]
  <2>1. bumped \in Seq(Nat) /\ Len(bumped) = Len(spent)
    BY Bump DEF DatabaseOK
  <2> HIDE DEF bumped
  <2>2. Len(Append(bumped, 0)) = Len(bumped) + 1 /\ Len(bumped) \in Nat
    BY <2>1, OneMore
  <2> QED
    BY <1>1, <2>1, <2>2 DEF bumped
<1>3. /\ user \in DOMAIN users
      /\ PasswordIn(credentials, user) = credentials[u].password
      /\ credentials[u].password # 0
  <2>1. user \in DOMAIN users /\ credentials[u].password \in DOMAIN spent
    BY <1>1 DEF DatabaseOK, IsTable
  <2>2. DOMAIN spent = 1..Len(spent)
    BY DEF DatabaseOK
  <2>3. PasswordIn(credentials, user) = credentials[u].password
    BY <1>1, PasswordOfCredential DEF AccountInv
  <2> QED
    BY <1>2, <2>1, <2>2, <2>3
<1>4. /\ DOMAIN credentials' = DOMAIN credentials
      /\ credentials'[u].user = user /\ credentials'[u].password = Len(spent) + 1
      /\ \A v \in DOMAIN credentials \ {u} : credentials'[v] = credentials[v]
  BY <1>1 DEF Reset, NextPassword, DatabaseOK, IsTable
<1>5. PasswordIn(credentials', user) = Len(spent) + 1
  <2>1. PasswordIn(credentials', credentials'[u].user) = credentials'[u].password
    BY <1>1, <1>4, PasswordOfCredential DEF AccountInv
  <2> QED
    BY <1>4, <2>1
<1>6. ASSUME NEW other, other # user
      PROVE  PasswordIn(credentials', other) = PasswordIn(credentials, other)
  <2>1. {v \in DOMAIN credentials : credentials[v].user = other}
          = {v \in DOMAIN credentials' : credentials'[v].user = other}
    BY <1>4, <1>6
  <2>2. \A v \in DOMAIN credentials \cap DOMAIN credentials' :
          credentials[v].user = other => credentials[v].password = credentials'[v].password
    BY <1>4, <1>6
  <2> QED
    BY <2>1, <2>2, SamePassword DEF AccountInv
<1> HIDE DEF user
<1>7. Passwords' = [Passwords EXCEPT ![user] = Len(spent')]
  BY <1>1, <1>2, <1>3, <1>5, <1>6, PasswordsAfter DEF Passwords, PasswordOf
<1>8. Entries' = Without(Entries, Account!OfAccount(user))
  BY <1>1, EntriesOf, EntriesWithout
<1>9. user \in DOMAIN Passwords /\ Passwords[user] # 0
  BY <1>3 DEF Passwords, PasswordOf
<1>10. Account!Replace(user)
  BY <1>1, <1>2, <1>7, <1>8, <1>9, SameTables DEF Account!Replace
<1> QED
  BY <1>9, <1>10 DEF Account!AccountNext

LEMMA CloseStep ==
  ASSUME DatabaseOK, AccountInv, AccountInv', NEW user \in DOMAIN users, Removal(user)
  PROVE  Account!AccountNext
<1>1. /\ UNCHANGED <<nextUser, nextSession, spent>>
      /\ DOMAIN users' = DOMAIN users \ {user}
  BY DEF Removal, Without
<1>2. ASSUME NEW other, other # user
      PROVE  PasswordIn(credentials', other) = PasswordIn(credentials, other)
  <2>1. /\ {v \in DOMAIN credentials : credentials[v].user = other}
           = {v \in DOMAIN credentials' : credentials'[v].user = other}
        /\ \A v \in DOMAIN credentials \cap DOMAIN credentials' :
             credentials[v].password = credentials'[v].password
    BY <1>2 DEF Removal, Without, CredentialsOf
  <2> QED
    BY <2>1, SamePassword DEF AccountInv
<1>3. Passwords' = Without(Passwords, {user})
  BY <1>1, <1>2, PasswordsAfter DEF Passwords, PasswordOf, Without
<1>4. Entries' = Without(Entries, Account!OfAccount(user))
  BY EntriesOf, EntriesWithout DEF Removal
<1>5. Account!Close(user) /\ user \in DOMAIN Passwords
  BY <1>1, <1>3, <1>4, SameTables DEF Account!Close, Passwords
<1> QED
  BY <1>5 DEF Account!AccountNext

LEMMA LeaveStep ==
  ASSUME NEW T \in SUBSET DOMAIN sessions, SignOff(T)
  PROVE  Account!AccountNext
<1>1. Entries' = Without(Entries, T) /\ Passwords' = Passwords
  BY EntriesWithout, PasswordsAfter DEF SignOff, Passwords, PasswordOf
<1>2. Account!Leave(T) /\ T \in SUBSET DOMAIN Entries
  BY <1>1, SameTables DEF Account!Leave, SignOff, Entries
<1> QED
  BY <1>2 DEF Account!AccountNext

LEMMA AccountLifeStep ==
  ASSUME IInv, IInv', [Next]_vars
  PROVE  Account!AccountNext \/ UNCHANGED Account!accountVars
<1>0. /\ DatabaseOK /\ AccountInv /\ AccountInv' /\ WorkInv
      /\ requests \in [Request -> Work]
  BY DEF IInv, TypeOK, DatabaseOK
<1>1. CASE UNCHANGED <<users, credentials, sessions, nextUser, nextSession, spent>>
  BY <1>1 DEF Account!accountVars, Passwords, PasswordOf, Entries, Entry
<1>2. CASE DatabaseStep
  <2>1. ASSUME NEW u \in Username, NewAccount(u) PROVE Account!AccountNext
    BY <1>0, <1>2, <2>1, SignUpStep DEF Account!AccountNext
  <2>2. ASSUME NEW g \in Subject, NewGoogle(g) PROVE Account!AccountNext
    BY <1>0, <2>2, OpenStep DEF Account!AccountNext
  <2>3. ASSUME NEW r \in Request, Verified(r) PROVE Account!AccountNext
    <3> DEFINE w == requests[r]
    <3>1. w \in Work /\ w.stage = "verify"
          /\ NewSession(w.user, w.password, w.began)
          /\ WorkOK(w, users, credentials, Len(spent), nextUser)
      BY <1>0, <2>3 DEF Verified, WorkInv
    <3>2. w.began \in Nat /\ w.user \in DOMAIN users
      BY <3>1, WorkFields DEF NewSession
    <3>3. /\ w.began <= Len(spent) /\ Len(spent) \in Nat
          /\ \/ w.password = PasswordIn(credentials, w.user)
             \/ w.began < PasswordIn(credentials, w.user)
      BY <1>0, <3>1, <3>2 DEF WorkOK, DatabaseOK
    <3> HIDE DEF w
    <3>4. w.began \in 0..Len(spent)
      BY <3>2, <3>3
    <3> QED
      BY <1>0, <3>1, <3>3, <3>4, EnterStep
  <2>4. ASSUME NEW r \in Request, Vouched(r) PROVE Account!AccountNext
    <3> DEFINE w == requests[r]
    <3>1. w \in Work /\ w.stage = "session" /\ NewSession(w.user, 0, w.began)
          /\ WorkOK(w, users, credentials, Len(spent), nextUser)
      BY <1>0, <2>4 DEF Vouched, WorkInv
    <3>2. w.began \in Nat /\ w.user \in DOMAIN users
      BY <3>1, WorkFields DEF NewSession
    <3>3. /\ w.began <= Len(spent) /\ Len(spent) \in Nat /\ users[w.user] # Native
      BY <1>0, <3>1, <3>2 DEF WorkOK, DatabaseOK
    <3> HIDE DEF w
    <3>4. w.began \in 0..Len(spent)
      BY <3>2, <3>3
    <3>5. PasswordIn(credentials, w.user) = 0
      BY <1>0, <3>3 DEF PasswordIn, AccountInv
    <3> QED
      BY <1>0, <3>1, <3>4, <3>5, EnterStep
  <2>5. ASSUME NEW u \in Username, NEW code \in Code, Reset(u, code)
        PROVE  Account!AccountNext
    BY <1>0, <1>2, <2>5, ReplaceStep
  <2>6. ASSUME NEW T \in SUBSET DOMAIN sessions, SignOff(T) PROVE Account!AccountNext
    BY <2>6, LeaveStep
  <2>7. ASSUME NEW user \in DOMAIN users, Removal(user) PROVE Account!AccountNext
    BY <1>0, <2>7, CloseStep
  <2>8. CASE UNCHANGED database \/ Parties
    BY <1>1, <2>8 DEF database, Parties
  <2> QED
    BY <1>2, <2>1, <2>2, <2>3, <2>4, <2>5, <2>6, <2>7, <2>8 DEF DatabaseStep
<1> QED
  BY <1>1, <1>2, DatabaseSteps DEF IInv, vars

(* Every sign-up, login, reset, sign-out and deletion is a step of         *)
(* AccountLife, for any number of accounts, handlers and crashes.          *)
THEOREM ImplementsAccountLife == Spec => AccountsLive
<1>1. Init => Account!AccountInit
  <2> SUFFICES ASSUME Init PROVE Account!AccountInit
    OBVIOUS
  <2>1. nextUser - 1 = 0 /\ nextSession - 1 = 0 /\ Len(spent) = 0
        /\ DOMAIN users = {} /\ DOMAIN sessions = {}
    BY DEF Init
  <2>2. Passwords = <<>> /\ Entries = <<>>
    BY <2>1 DEF Passwords, Entries
  <2> QED
    BY <2>1, <2>2 DEF Account!AccountInit
<1>2. IInv /\ IInv' /\ [Next]_vars => [Account!AccountNext]_(Account!accountVars)
  BY AccountLifeStep
<1> QED
  BY <1>1, <1>2, Invariant, PTL DEF Spec, AccountsLive, Account!AccountSpec

LEMMA PasswordsPut ==
  ASSUME NEW k, NEW row, Passwords' = Put(Passwords, k, row)
  PROVE  /\ DOMAIN Passwords' = DOMAIN Passwords \cup {k}
         /\ \A user \in DOMAIN Passwords' :
              Passwords'[user] = IF user = k THEN row ELSE Passwords[user]
<1> PICK f : f = Passwords
  OBVIOUS
<1> PICK g : g = Passwords'
  OBVIOUS
<1>1. g = Put(f, k, row)
  OBVIOUS
<1>2. DOMAIN g = DOMAIN f \cup {k} /\ \A x \in DOMAIN g : g[x] = IF x = k THEN row ELSE f[x]
  BY <1>1 DEF Put
<1> QED
  BY <1>2

(* What that promises of what is over: a session that was signed out, or   *)
(* ended by a reset, an account that was closed and a password that was    *)
(* replaced never work again, whatever handlers were at work when they     *)
(* ended.                                                                  *)
Present(k) == \E user \in DOMAIN users : PasswordOf(user) = k

EndedForGood ==
  [][/\ \A t \in 1..(nextSession - 1) :
          t \notin DOMAIN sessions => t \notin DOMAIN sessions'
     /\ \A user \in 1..(nextUser - 1) :
          user \notin DOMAIN users => user \notin DOMAIN users'
     /\ \A k \in DOMAIN spent : ~Present(k) => ~Present(k)']_vars

(* It follows from AccountLife, for any number of accounts.                *)
THEOREM NothingEndedReturns == Spec => EndedForGood
<1> DEFINE Over ==
      /\ \A t \in 1..(nextSession - 1) :
           t \notin DOMAIN Entries => t \notin DOMAIN Entries'
      /\ \A user \in 1..(nextUser - 1) :
           user \notin DOMAIN Passwords => user \notin DOMAIN Passwords'
      /\ \A k \in 1..Len(spent) :
           ~(\E user \in DOMAIN Passwords : Passwords[user] = k)
             => ~(\E user \in DOMAIN Passwords' : Passwords'[user] = k)
           Said ==
      /\ \A t \in 1..(nextSession - 1) :
           t \notin DOMAIN sessions => t \notin DOMAIN sessions'
      /\ \A user \in 1..(nextUser - 1) :
           user \notin DOMAIN users => user \notin DOMAIN users'
      /\ \A k \in DOMAIN spent : ~Present(k) => ~Present(k)'
<1>1. ASSUME IInv, Account!AccountNext PROVE Over
  <2>0. nextSession \in Nat /\ nextUser \in Nat /\ Len(spent) \in Nat
    BY <1>1 DEF IInv, TypeOK
  <2> USE SameTables
  <2>1. CASE Account!SignUp
    <3>1. PICK n, s, p : n = nextUser' - 1 /\ s = nextSession' - 1 /\ p = Len(spent')
      OBVIOUS
    <3>2. /\ n = nextUser - 1 + 1 /\ s = nextSession - 1 + 1 /\ p = Len(spent) + 1
          /\ Passwords' = Put(Passwords, n, p)
          /\ \E row : Entries' = Put(Entries, s, row)
      BY <2>1, <3>1 DEF Account!SignUp, Account!Begin
    <3>3. /\ DOMAIN Passwords' = DOMAIN Passwords \cup {n}
          /\ DOMAIN Entries' = DOMAIN Entries \cup {s}
          /\ \A user \in DOMAIN Passwords' :
               Passwords'[user] = IF user = n THEN p ELSE Passwords[user]
      BY <3>2, PasswordsPut DEF Put
    <3> QED
      BY <2>0, <3>2, <3>3
  <2>2. CASE Account!Open
    <3>1. PICK n : n = nextUser' - 1
      OBVIOUS
    <3>2. n = nextUser - 1 + 1 /\ Passwords' = Put(Passwords, n, 0) /\ Entries' = Entries
      BY <2>2, <3>1 DEF Account!Open
    <3>3. /\ DOMAIN Passwords' = DOMAIN Passwords \cup {n}
          /\ \A user \in DOMAIN Passwords' :
               Passwords'[user] = IF user = n THEN 0 ELSE Passwords[user]
      BY <3>2, PasswordsPut
    <3> QED
      BY <2>0, <3>2, <3>3
  <2>3. ASSUME NEW a, NEW began, NEW former, Account!Enter(a, began, former) PROVE Over
    <3>1. PICK s : s = nextSession' - 1
      OBVIOUS
    <3>2. /\ s = nextSession - 1 + 1 /\ Passwords' = Passwords
          /\ \E row : Entries' = Put(Entries, s, row)
      BY <2>3, <3>1 DEF Account!Enter, Account!Begin
    <3>3. DOMAIN Entries' = DOMAIN Entries \cup {s}
      BY <3>2 DEF Put
    <3> QED
      BY <2>0, <3>2, <3>3
  <2>4. ASSUME NEW a \in DOMAIN Passwords, Account!Replace(a) PROVE Over
    <3>1. /\ DOMAIN Passwords' = DOMAIN Passwords
          /\ \A user \in DOMAIN Passwords :
               Passwords'[user] \in {Passwords[user], Len(spent) + 1}
      BY <2>4 DEF Account!Replace, Passwords
    <3>2. DOMAIN Entries' \subseteq DOMAIN Entries
      BY <2>4 DEF Account!Replace, Without
    <3> QED
      BY <2>0, <3>1, <3>2
  <2>5. ASSUME NEW a \in DOMAIN Passwords, Account!Close(a) PROVE Over
    BY <2>5 DEF Account!Close, Without
  <2>6. ASSUME NEW T, Account!Leave(T) PROVE Over
    BY <2>6 DEF Account!Leave, Without
  <2> QED
    BY <1>1, <2>1, <2>2, <2>3, <2>4, <2>5, <2>6 DEF Account!AccountNext
<1>2. UNCHANGED Account!accountVars => Over
  BY DEF Account!accountVars
<1>3. ASSUME IInv, Over PROVE Said
  <2>1. /\ DOMAIN Entries = DOMAIN sessions /\ DOMAIN Entries' = DOMAIN sessions'
        /\ DOMAIN Passwords = DOMAIN users /\ DOMAIN Passwords' = DOMAIN users'
    BY DEF Entries, Passwords
  <2>2. \A k : /\ Present(k) <=> \E user \in DOMAIN Passwords : Passwords[user] = k
               /\ Present(k)' <=> \E user \in DOMAIN Passwords' : Passwords'[user] = k
    BY PasswordsAfter DEF Present, Passwords, PasswordOf
  <2>3. DOMAIN spent = 1..Len(spent)
    BY <1>3 DEF IInv, TypeOK
  <2> QED
    BY <1>3, <2>1, <2>2, <2>3
<1>4. IInv /\ IInv' /\ [Next]_vars => [Said]_vars
  BY <1>1, <1>2, <1>3, AccountLifeStep
<1> QED
  BY <1>4, Invariant, PTL DEF Spec, EndedForGood
=============================================================================
