SPECIFICATION Spec
CONSTANTS
  a = a
  b = b
  Instance = {"original", "clone"}
  Original = "original"
  Stream = {a, b}
  HasFlushSync = {a, b}
  StreamLevels = {0, 60}
  NotANumber = NotANumber
  LineLevels = {30, 60, NotANumber}
  CloneLevels = {30, NotANumber}
  Fatal = 60
  Dedupe = {TRUE, FALSE}
  Ids = {1, 2}
  Absent = Absent
  MaxEntries = 2
  MaxId = 2
  MaxLine = 2
  MaxDepth = 2
SYMMETRY Destinations
INVARIANTS
  TypeOK
  OrderedByLevel
  IdsAreUnique
  FanOutExact
  MetadataNotOlder
  EndedIsFlushed
  FatalLeavesNothing
CHECK_DEADLOCK FALSE
