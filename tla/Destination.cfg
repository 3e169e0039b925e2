SPECIFICATION Spec
CONSTANTS
  d1 = d1
  d2 = d2
  Dest <- MCDest
  Kinds = {"async", "asyncBuffered", "sync", "buffered", "multistream"}
  MaxLines = 2
  MaxErrors = 2
  MaxFlushes = 1
SYMMETRY Alike
INVARIANTS
  TypeOK
  ExitFlushes
  ErrorsAreHeard
PROPERTY
  BrokenIsSilent
CHECK_DEADLOCK FALSE
