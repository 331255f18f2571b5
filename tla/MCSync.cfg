SPECIFICATION Spec
CONSTANTS
  t1 = t1
  t2 = t2
  t3 = t3
  Thread <- Threads
  Sem = Sem
  WaitLists = {Sem}
  RunHeader = RunHeader
  Wild = Wild
  None = None
  TotalTicks = 3
  MaxDepth = 2
  MaxDebt = 5
  MayBlock = TRUE
INVARIANTS MutualExclusion MutexAsserts LinkedOnce PermitsConserved
PROPERTY ImplementsLock
SYMMETRY Symmetry
CHECK_DEADLOCK FALSE
