SPECIFICATION Spec
CONSTANTS
  root = root
  c1 = c1
  c2 = c2
  Absent = Absent
  Infinity <- MCInfinity
  Logger <- MCLogger
  Root = root
  Options <- MCOptions
  LevelArgs = {"error", "info"}
  LogLabels = {"info", "error"}
  MaxGiven = 3
  MaxCalls = 2
SYMMETRY Children
INVARIANT
  NoConsoleBelowLevel
CHECK_DEADLOCK FALSE
