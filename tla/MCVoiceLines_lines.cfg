\* Two calls, settings or a place that change, and three seconds, in which one
\* minute ends.
SPECIFICATION Spec
CONSTANTS
  Call = {c1, c2}
  None = None
  Minute = 2
  MaxSpeech = 1
  CacheDuration = 1
  JoinLimit = 1
  JoinAudioTTL = 2
  SaveDelay = 1
  MaxChanges = 1
  MaxTime = 2
SYMMETRY Symmetry
INVARIANTS
  TypeOK SilentOnlyWhenCutOff StaleOnlyFromOverlap TimeIsFresh JoinAudioIsKept
