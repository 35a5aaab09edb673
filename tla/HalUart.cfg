CONSTANTS
  w1 = w1
  w2 = w2
  u1 = u1
  Writers = {w1, w2}
  Urgent = {u1}
  NumBytes = 2
  NumUrgent = 1
  NoByte = NoByte
  TxLength = 1
  RxLength = 1
  Noise = TRUE
  Sessions = 2
SPECIFICATION FairSpec
INVARIANTS NoByteStuck InOrder LostToImmediate
PROPERTIES WriteReturns
