\* The same instance, for what the comment above os.Chtimes promises.
SPECIFICATION Spec
CONSTANTS
  Call = {c1, c2}
  None = None
  Minute = 2
  MaxSpeech = 1
  CacheDuration = 1
  JoinLimit = 1
  JoinAudioTTL = 2
  SaveDelay = 1
  MaxChanges = 1
  MaxTime = 2
SYMMETRY Symmetry
INVARIANT NoStaleMinute
