SPECIFICATION AllSpec
CONSTANTS
  None = None
  Bad = Bad
  pf = pf
  t = t
  x = x
  y = y
  z = z
  c1 = c1
  c2 = c2
  m = m
  Gone = Gone
  onFiles = onFiles
  onEnd = onEnd
  build = build
  NoData <- None
  Invalid <- Bad
  Step <- BranchStep
  Deps <- BranchDeps
  Callable = {}
  Extra = {6}
  Pipeline = {}
  MaySpawn <- BranchSpawn
  Data <- BranchData
  Result <- BranchResult
  Cond <- BranchCond
  Gate <- BranchGate
  Route <- BranchRoute
  Review <- Nothing
  Rejects = {}
  Approval = {5}
  Pin <- BranchPin
  MaxLaunch = 2
  MaxDisturb = 1
INVARIANTS
  PinnedPassSound BranchesSound TriggersSound
PROPERTIES
  LibrarySound
CHECK_DEADLOCK FALSE
