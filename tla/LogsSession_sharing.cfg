SPECIFICATION Spec
CONSTANTS
  c1 = c1
  c2 = c2
  Conns = {c1, c2}
  ChCap = 1
  MaxOutput = 2
  MaxBreaks = 1
CHECK_DEADLOCK FALSE
INVARIANT LogWithoutGaps
PROPERTY NoGoroutineLeak
