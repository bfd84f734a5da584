SPECIFICATION AllSpec
CONSTANTS
  None = None
  Bad = Bad
  o1 = o1
  o2 = o2
  pl = pl
  v1 = v1
  v2 = v2
  a = a
  b = b
  k1 = k1
  NoId = NoId
  NoData <- None
  Invalid <- Bad
  Step <- TeamStep
  Deps <- TeamDeps
  Callable = {4}
  Extra = {}
  Pipeline = {3}
  MaySpawn <- TeamSpawn
  Data <- Verdict
  Result <- TeamResult
  Cond <- Nothing4
  Gate <- Nothing4
  Route <- Nothing
  Review <- TeamReview
  Rejects = {"bad"}
  Approval = {3}
  Pin <- Nothing
  MaxLaunch = 2
  MaxDisturb = 2
SYMMETRY Symmetry
INVARIANTS
  DependenciesHold RunSound  
PROPERTIES
  PastKept
CHECK_DEADLOCK FALSE
