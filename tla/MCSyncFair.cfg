SPECIFICATION FairSpec
CONSTANTS
  t1 = t1
  t2 = t2
  t3 = t3
  Thread <- Threads
  Sem = Sem
  WaitLists = {Sem}
  RunHeader = RunHeader
  Wild = Wild
  None = None
  TotalTicks = 2
  MaxDepth = 2
  MaxDebt = 3
  MayBlock = FALSE
PROPERTY RoundRobin
