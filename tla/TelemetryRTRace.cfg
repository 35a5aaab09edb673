CONSTANTS
  a = a
  b = b
  s1 = s1
  s2 = s2
  s3 = s3
  s4 = s4
  i1 = i1
  i2 = i2
  Apps = {a, b}
  Slots = {s1, s2, s3, s4}
  NoSlot = NoSlot
  Items = {i1, i2}
  Null = Null
  LastPort = 3
  AcceptQueue = 1
  NumBuffers = 2
  FifoLength = 2
  RxLength = 2
  QueueSize = 1
  Published <- Topics12
  MaxTopics = 1
SPECIFICATION Spec
SYMMETRY Symmetry
INVARIANTS ConnectedIsSubscribed
