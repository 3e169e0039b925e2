SPECIFICATION Spec
CONSTANTS
  t = t
  p = p
  Target = {t, p}
  Options <- MCOptions
  LineLevels = {20, 30, 50}
  Info = 30
  Absent = Absent
  MaxLine = 2
INVARIANT
  LostBeforeReady
CHECK_DEADLOCK FALSE
