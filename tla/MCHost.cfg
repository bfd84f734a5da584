SPECIFICATION AllSpec
CONSTANTS
  None = None
  Bad = Bad
  NoData <- None
  Invalid <- Bad
  Step <- CrewStep
  Deps <- NoSets
  Callable = {2}
  Extra = {}
  Pipeline = {}
  Script = {}
  MaySpawn <- CrewSpawn
  Data = {}
  Result <- NoResult
  Cond <- NoSets
  Gate <- NoSets
  Route <- Nothing
  Review <- Nothing
  Rejects = {}
  Approval = {}
  Pin <- Nothing
  MaxLaunch = 2
  MaxDisturb = 1
  MaxCancel = 1

  
PROPERTIES
  EndsAreProven SessionFilesExact
CHECK_DEADLOCK FALSE
