\* Two requests at a time, no call lost and no handler stopped: a slow post.
SPECIFICATION Spec
CONSTANTS
  Request = {r1, r2}
  Amount = {1, 2}
  DefaultAmount = 1
  MaxStarts = 5
  MaxLate = 0
  MayStop = FALSE
SYMMETRY Symmetry
CHECK_DEADLOCK FALSE
INVARIANT ReadyLimitIsEnforced
