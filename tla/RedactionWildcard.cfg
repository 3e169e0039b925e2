SPECIFICATION Spec
CONSTANTS
  a = a
  b = b
  m = m
  Star = Star
  Key <- MCKey
  Paths <- MCPaths
  Place <- MCPlace
  MaxPaths = 4
INVARIANT
  EveryPathApplies
CHECK_DEADLOCK FALSE
