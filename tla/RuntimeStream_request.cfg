SPECIFICATION Spec
CONSTANTS
  w1 = w1
  Kinds = {"k8s"}
  Writers = {w1}
  MaxInput = 1
  MaxOutput = 1
CHECK_DEADLOCK FALSE
PROPERTY OutputEndsForAReason
