SPECIFICATION FairSpec
CONSTANTS
  t = t
  p = p
  Target = {t, p}
  Options <- MCOptions
  LineLevels = {20, 30, 50}
  Info = 30
  Absent = Absent
  MaxLine = 2
INVARIANTS
  TypeOK
  OneHook
  ClosesLast
PROPERTIES
  Implements
  ExitCompletes
  EndCompletes
CHECK_DEADLOCK FALSE
