SPECIFICATION Spec
CONSTANTS
  root = root
  c1 = c1
  c2 = c2
  Absent = Absent
  Infinity <- MCInfinity
  CustomLevels <- MCCustomLevels
  UserEnabled <- MCUserEnabled
  Logger <- MCLogger
  Root = root
  RootOptions <- LevelRootOptions
  ChildOptions <- LevelChildOptions
  LevelArgs <- LevelArgsOfLevels
  LogLabels = {"info", "foo"}
  Bindings = {"own"}
  NewBindings = {}
  Formatter <- MCFormatter
  SerializerMap <- MCSerializerMap
  Redact <- MCRedact
  MaxSegments = 2
SYMMETRY Children
INVARIANT
  EveryLineOpens
CHECK_DEADLOCK FALSE
