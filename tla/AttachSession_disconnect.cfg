SPECIFICATION FastSpec
CONSTANTS
  c1 = c1
  Conns = {c1}
  ChCap = 1
  SubCap = 1
  MaxOutput = 1
CHECK_DEADLOCK FALSE
PROPERTY DisconnectIsNoticed
