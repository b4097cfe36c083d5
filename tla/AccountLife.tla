---------------------------- MODULE AccountLife ----------------------------
(***************************************************************************)
(* What signing in promises about accounts, passwords and sessions, each   *)
(* numbered in order of issue: a password is set once, for one account,    *)
(* and what is replaced, signed out or closed never comes back; a session  *)
(* begins for an open account, by its present password unless a login was  *)
(* at work when the password was replaced, and no session outlives that.   *)
(***************************************************************************)
EXTENDS Tables

VARIABLES
  opened,      \* how many accounts have been opened
  issued,      \* how many passwords have been set
  entered,     \* how many sessions have begun
  password,    \* open account -> its password, 0 for one that has none
  session      \* running session -> [account, began: passwords set when its
               \* login began, former: it was let in by a replaced password]

accountVars == <<opened, issued, entered, password, session>>

AccountInit ==
  /\ opened = 0 /\ issued = 0 /\ entered = 0
  /\ password = <<>> /\ session = <<>>

OfAccount(a) == {t \in DOMAIN session : session[t].account = a}

Begin(a, began, former) ==
  /\ entered' = entered + 1
  /\ session' = Put(session, entered', [account |-> a, began |-> began,
                                        former |-> former])

(* An account without a password, or one with its first session.           *)
Open ==
  /\ opened' = opened + 1
  /\ password' = Put(password, opened', 0)
  /\ UNCHANGED <<issued, entered, session>>

SignUp ==
  /\ opened' = opened + 1 /\ issued' = issued + 1
  /\ password' = Put(password, opened', issued')
  /\ Begin(opened', issued', FALSE)

Enter(a, began, former) ==
  /\ former => began < password[a]
  /\ Begin(a, began, former)
  /\ UNCHANGED <<opened, issued, password>>

Replace(a) ==
  /\ password[a] # 0
  /\ issued' = issued + 1
  /\ password' = [password EXCEPT ![a] = issued']
  /\ session' = Without(session, OfAccount(a))
  /\ UNCHANGED <<opened, entered>>

Leave(T) ==
  /\ session' = Without(session, T)
  /\ UNCHANGED <<opened, issued, entered, password>>

Close(a) ==
  /\ password' = Without(password, {a})
  /\ session' = Without(session, OfAccount(a))
  /\ UNCHANGED <<opened, issued, entered>>

AccountNext ==
  \/ Open \/ SignUp
  \/ \E a \in DOMAIN password :
       \/ \E began \in 0..issued, former \in BOOLEAN : Enter(a, began, former)
       \/ Replace(a) \/ Close(a)
  \/ \E T \in SUBSET DOMAIN session : Leave(T)

AccountSpec == AccountInit /\ [][AccountNext]_accountVars
=============================================================================
