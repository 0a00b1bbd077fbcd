SPECIFICATION Spec
CONSTANTS
  p1 = p1
  p2 = p2
  d1 = d1
  c1 = c1
  c2 = c2
  k1 = k1
  Posts = {p1, p2}
  Deletes = {d1}
  Conns = {c1, c2}
  Containers = {k1}
  MaxSessions = 1
  None = None
CHECK_DEADLOCK FALSE
SYMMETRY Symmetry
INVARIANTS
  TypeOK
  CapRespected
  NoStreamLeak
  TimerReachable
  NoForgottenSession
  StatusSettles
  NoSilentEnd
  GaugeCountsNoGhost
