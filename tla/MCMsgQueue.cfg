SPECIFICATION Spec
CONSTANTS
  g1 = g1
  g2 = g2
  g3 = g3
  Receiver <- Receivers
  Capacity = 3
  MaxMsgSize = 3
  Word = 4
  WordMod = 256
  Length = {0, 4, 5, 255}
  MaxCount = 5
  MaxPermits = 2
  MaxDebt = 3
INVARIANTS CountIsDistance PermitsSound
PROPERTY ImplementsQueue
SYMMETRY Symmetry
