SPECIFICATION Spec
CONSTANTS
  w1 = w1
  w2 = w2
  Kinds = {"k8s", "tty", "mux", "logs", "body"}
  Writers = {w1, w2}
  MaxInput = 2
  MaxOutput = 2
CHECK_DEADLOCK FALSE
INVARIANTS
  TypeOK
  InputInOrder
  OneInputUnsent
PROPERTIES
  ImplementsStream
  CloseEndsAll
