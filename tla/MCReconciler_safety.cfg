\* Two changes, one commit nobody reconciles, a crash and an Asterisk
\* restart.
SPECIFICATION Spec
CONSTANTS
  Request = {r1, r2}
  Startup = startup
  Nobody = nobody
  MaxSilent = 1
  MaxCrashes = 1
  MaxPbxRestarts = 1
SYMMETRY Symmetry
CHECK_DEADLOCK FALSE
INVARIANTS TypeOK SuccessIsPublished SuccessIsConsistent
PROPERTIES NeverGoesBack PublishesInOrder
