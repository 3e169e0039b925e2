SPECIFICATION MCSpec
CONSTANTS
  root = root
  c1 = c1
  c2 = c2
  Absent = Absent
  Infinity <- MCInfinity
  CustomLevels <- MCCustomLevels
  UserEnabled <- MCUserEnabled
  Logger <- MCLogger
  Root = root
  RootOptions <- MCRootOptions
  ChildOptions <- MCChildOptions
  LevelArgs <- LevelArgsOfLevels
  LogLabels = {"info", "foo"}
  Bindings = {"own"}
  NewBindings = {"new"}
  Formatter <- MCFormatter
  SerializerMap <- MCSerializerMap
  Redact <- MCRedact
  MaxSegments = 3
SYMMETRY Children
INVARIANTS
  TypeOK
  MethodsFollowLevel
  LevelReadsBack
  KnownLevelOpensLine
  RenderedUnderOwnOptions
PROPERTIES
  LevelStaysInSubtree
  EventTellsTransition
  BindingsAreIsolated
CHECK_DEADLOCK FALSE
