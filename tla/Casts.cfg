SPECIFICATION Spec
CONSTANTS
  c1 = c1
  c2 = c2
  s0 = s0
  s1 = s1
  s2 = s2
  Conns = {c1, c2}
  IdleLimit = 1
  DefaultSize = s0
  Sizes = {s1}
  StartSize = s1
  NewSizes = {s2}
  LogSize = s0
  Makers = {"session", "record", "logscast"}
  MaxTime = 1
  MaxLines = 2
  MaxStamp = 3
  LineSizes = {"short", "long", "huge"}
  MaxInput = 2
  MaxEvents = 3
  MaxOutput = 2
  MaxKeys = 1
  MaxWinch = 1
CHECK_DEADLOCK FALSE
INVARIANTS
  TypeOK
  EchoAfterInput
  CastsGrow
  LogGapsKept
  SeenIsSaved
  WholeLogOrNothing
  CastKeepsGaps
  ReplayIsTheScreen
PROPERTIES
  RecordingEnds
  SignalEndsPlay
