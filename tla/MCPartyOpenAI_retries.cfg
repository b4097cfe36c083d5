\* Two handlers at a time, five requests over the party's life, two amounts,
\* two calls given up and still able to take effect.
SPECIFICATION Spec
CONSTANTS
  Request = {r1, r2}
  Amount = {1, 2}
  DefaultAmount = 1
  MaxStarts = 5
  MaxLate = 2
  MayStop = TRUE
SYMMETRY Symmetry
CHECK_DEADLOCK FALSE
INVARIANTS
  TypeOK PausedIsResumable RetiredKeysStayDead LimitWasConfirmed
  KeySurvivesRetries LimitSurvivesRetries
PROPERTY PendingAmountIsFinal
