SPECIFICATION AllSpec
CONSTANTS
  Msg = {ma, mb}
  NoMsg = NoMsg
  MaxEdits = 1
  MaxOpens = 2
  MaxDrains = 1
  MaxEvents = 1
  MaxTrouble = 1
  MaxFaults = 0
SYMMETRY Ids
INVARIANTS
  AtMostOnce QueueDiscipline
PROPERTIES
  TombstonesStay
CHECK_DEADLOCK FALSE
