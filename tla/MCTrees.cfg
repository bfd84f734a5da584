SPECIFICATION AllSpec
CONSTANTS
  x1 = x1
  x2 = x2
  x3 = x3
  k1 = k1
  a = a
  b = b
  Nil = Nil
  Cmd = {x1, x2, x3}
  Canceller = {k1}
  None = None
  Gone = Gone
  MaxRun = 3
  MaxRoot = 1
  MaxDepth = 2
  MaxEvent = 2
SYMMETRY Symmetry
INVARIANTS
  TreesSound SchedulesSound
PROPERTIES
  SessionsSound
CHECK_DEADLOCK FALSE
