CONSTANTS
  c1 = c1
  c2 = c2
  k1 = k1
  k2 = k2
  pa = pa
  pb = pb
  Clients = {c1, c2}
  Slots = {k1, k2}
  NoSlot = NoSlot
  Ports = {pa, pb}
  NoPort = NoPort
  Noise = Noise
  Answer = Answer
  NumBuffers = 2
  ListenQueue = 1
  ReadSize = 3
  RequestSize = 2
  EncodeSize = 4
  ErrorSize = 2
  Commands <- FewCommands
SPECIFICATION Spec
SYMMETRY Interchangeable
CHECK_DEADLOCK FALSE
INVARIANTS TypeOK  NoConnLost EachRunOnce RightKind OwnAnswer
