SPECIFICATION Spec
CONSTANTS
  Version = {v1, v2}
  Setter = {s1, s2}
  None = None
  MaxStart = 1
  MaxFail = 2
  MaxOp = 3
INVARIANTS StopsBeforeInstall
CHECK_DEADLOCK FALSE
