SPECIFICATION FlushedSpec
CONSTANTS
  c1 = c1
  c2 = c2
  Conns = {c1, c2}
  ChCap = 1
  MaxOutput = 2
  MaxLoad = 4
CHECK_DEADLOCK FALSE
INVARIANT LiveAfterFlush
