SPECIFICATION Spec
CONSTANTS
  HDR = 24
  WORD = 4
  PageSize = 60
  AddrMod = 65536
  Setups <- MCSetups
INVARIANTS SegmentsTile RingIsFreeSet AllFreedIsWhole
PROPERTY ImplementsAllocator
