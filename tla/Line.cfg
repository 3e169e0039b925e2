SPECIFICATION LineSpec
CONSTANTS
  a = a
  level = level
  error = error
  err = err
  m = m
  Star = Star
  Nothing = Nothing
  LevelKey = level
  ErrorKey = error
  ErrKey = err
  MessageKey = m
  NestedKey = nested
  Key <- MCKey
  Paths <- MCPaths
  Place <- MCPlace
  Formats <- MCFormats
  Objects <- MCObjects
  BoundObjects <- MCBoundObjects
  MaxPaths = 4
  MaxBindings = 2
  MaxPathsLogged = 2
INVARIANTS
  LineTypeOK
  PathsApply
  OnlyPathsApply
  NewestWins
  LevelReadsAsLogged
  LineParses
  LineHides
CHECK_DEADLOCK FALSE
