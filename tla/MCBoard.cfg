SPECIFICATION AllSpec
CONSTANTS
  k1 = k1
  k2 = k2
  m1 = m1
  Card = {k1, k2}
  Mate = {m1}
  Always = {m1}
  Urgent = {k2}
  MaxRun = 2
  Limit = 1
  MateLimit = 1
  MaxDepth = 0
  MaxEdit = 2
  MaxFault = 1
INVARIANTS
   PatternsExact
CHECK_DEADLOCK FALSE
