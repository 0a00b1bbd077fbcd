SPECIFICATION Spec
CONSTANTS
  c1 = c1
  c2 = c2
  Conns = {c1, c2}
  ChCap = 1
  MaxOutput = 3
  MaxLoad = 4
CHECK_DEADLOCK FALSE
INVARIANTS
  TypeOK
  LiveIsNewer
  RecordedOnce
PROPERTIES
  
  PrintedIsRecorded
