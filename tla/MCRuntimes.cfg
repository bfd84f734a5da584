SPECIFICATION AllSpec
CONSTANTS
  x1 = x1
  x2 = x2
  x3 = x3
  y1 = y1
  y2 = y2
  p1 = p1
  d1 = d1
  File = {1, 2}
  Object = {x1, x2, x3}
  Home <- Homes
  Bundle = {y1, y2}
  Sup = {y1, y2}
  Nothing = Nothing
  Name = {1, 2, 3}
  Fold <- FoldCase
  MaxPaths = 3
  MaxDepth = 2
  MaxWorld = 2
SYMMETRY Symmetry
INVARIANTS
  LeasedAsDeclared PermitOpensOwn BundlesWellFormed BridgeSound

  
CHECK_DEADLOCK FALSE
