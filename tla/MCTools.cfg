SPECIFICATION AllSpec
CONSTANTS
  e1 = e1
  e2 = e2
  st = st
  k1 = k1
  k2 = k2
  ca = ca
  ce = ce
  cq = cq
  nl = nl
  mk = mk
  Bad = Bad
  v1 = v1
  v2 = v2
  Host = Host
  NoFolder = NoFolder
  rt = rt
  n0 = n0
  n1 = n1
  big = big
  Absent = Absent
  Ita = Ita
  Conflict = Conflict
  s1 = s1
  s2 = s2
  pr = pr
  x1 = x1
  x2 = x2
  y1 = y1
  y2 = y2
  z1 = z1
  z2 = z2
  t1 = t1
  t2 = t2
  f1 = f1
  f2 = f2
  Test = {e1}
  Step = {st}
  Key = {k1, k2}
  MaxTests = 1
  MaxFault = 1
  MaxWorld = 1
  None = None
SYMMETRY Symmetry
INVARIANTS
  ScriptsSound BackendsSound GitSound 
PROPERTIES
  IndexSound
CHECK_DEADLOCK FALSE
