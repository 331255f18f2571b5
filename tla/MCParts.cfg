SPECIFICATION MCSpec
CONSTANTS
  d1 = d1
  d2 = d2
  d3 = d3
  v1 = v1
  v2 = v2
  Device = {d1, d2, d3}
  Vector = {v1, v2}
  VecOf <- MCVecOf
  MayFail = {d3}
  NoVector = NoVector
  Client = {t1, t2}
  Kinds = {"thread", "proc", "vfsnode", "stdfile", "msgqueue", "listener"}
  N = 3
  MaxNormal = 2
  MaxStray = 3
  Nobody = Nobody
  HalfWord = 8
  Interval = 3
  MaxBoot = 2
  MaxLate = 2
  MaxTurn = 1
  m3 = m3
  Mtd = {m1, m2, m3}
  Name <- MCName
  Slots = 2
  MaxUses = 2
  Null = Null
  Letter = {"a", "b"}
  MaxLen = 7
  Ids <- SomeIds
  Onfi <- SomePages
  Boards <- SomeBoards
  Chips <- SomeChips
SYMMETRY Alike
CHECK_DEADLOCK FALSE
INVARIANTS
  SpinsOnlyIfShared
  ChainSound
  PoolSound
  TicksFollowTime
  CompactsRight
  DevicesFound
