\* No call lost and no handler stopped: a party deleted while it is provisioned.
SPECIFICATION Spec
CONSTANTS
  Request = {r1, r2}
  Amount = {1, 2}
  DefaultAmount = 1
  MaxStarts = 3
  MaxLate = 0
  MayStop = FALSE
SYMMETRY Symmetry
CHECK_DEADLOCK FALSE
INVARIANT ProjectDiesWithItsParty
