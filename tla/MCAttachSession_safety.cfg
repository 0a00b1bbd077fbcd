SPECIFICATION Spec
CONSTANTS
  c1 = c1
  c2 = c2
  Conns = {c1, c2}
  ChCap = 1
  SubCap = 1
  MaxOutput = 3
CHECK_DEADLOCK FALSE
SYMMETRY Symmetry
INVARIANTS
  TypeOK
  RecordedInOrder
  SubscribersAreServed
  LiveInOrder
  PumpWaitsForNobody
