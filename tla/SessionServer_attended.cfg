SPECIFICATION Spec
CONSTANTS
  p1 = p1
  c1 = c1
  c2 = c2
  k1 = k1
  Posts = {p1}
  Deletes = {}
  Conns = {c1, c2}
  Containers = {k1}
  MaxSessions = 1
  None = None
CHECK_DEADLOCK FALSE
PROPERTY ExpiresWhenDeserted
