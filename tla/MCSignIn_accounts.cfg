\* Two handlers with a slot each, an account by password or by Google that is
\* reset twice, and tries spread over three seconds: windows of two.
SPECIFICATION Spec
CONSTANTS
  Request = {r1, r2}
  Username = {u1}
  Subject = {g1}
  AuthSlots = 2
  Slip = {s1, s2}
  SessionTTL = 1
  AuthWindow = 2
  LoginLimit = 2
  RecoverLimit = 1
  MaxBuckets = 1
  MaxUsers = 1
  MaxPasswords = 3
  MaxSessions = 2
  MaxRefused = 1
  MaxTime = 2
SYMMETRY Symmetry
CHECK_DEADLOCK FALSE
INVARIANTS
  TypeOK SlotsAreReturned CodesServeOnce ResetEndsSessions GuessesAreBounded
PROPERTIES
  AccountsLive
