SPECIFICATION AllSpec
CONSTANTS
  ma = ma
  mb = mb
  saved = saved
  empty = empty
  r0 = r0
  r1 = r1
  NoMsg = NoMsg
  t1 = t1
  t2 = t2
  f1 = f1
  f2 = f2
  f3 = f3
  g1 = g1
  g2 = g2
  good = good
  old = old
  LF = LF
  CR = CR
  ev = ev
  Stray = Stray
  Stores = {"journal", "library", "registry", "outbox", "board"}
  Doc = {empty, ma, mb}
  Rejected = {}
  Empty = empty
  Receipt = {r0, r1}
  NoReceipt = r0
  Offline = Offline
  Kept = 2
  MaxGen = 4
  MaxCrash = 1
  MaxTrouble = 0
  MaxDamage = 0
SYMMETRY Symmetry
INVARIANTS
  StoreSound InOrderThoughSavesFail ProbeExact 
PROPERTIES
  ImplementsRegister DamagedStoresOpen AttachmentsSound
CHECK_DEADLOCK FALSE
