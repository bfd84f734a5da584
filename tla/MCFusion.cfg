SPECIFICATION Spec
CONSTANTS
  MaxRound = 2
  MaxLive = 1
  MaxWait = 1
  MaxFault = 1
  MaxCommand = 1
  Call = {c1, c2}

SYMMETRY Calls
INVARIANTS RoundsSound
PROPERTIES EndsAreFinal
CHECK_DEADLOCK FALSE
