CONSTANTS
  s1 = s1
  p1 = p1
  p2 = p2
  t1 = t1
  t2 = t2
  s2 = s2
  Conns = {s1, p1, p2}
  Subscribers = {s1}
  Publishers = {p1, p2}
  Topics = {t1}
  NoTopic = NoTopic
  Backlog = 1
  ChanCap = 1
  Mortal = {s1}
  MaxRequests = 1
  Signals = TRUE
  OutOfMemory = TRUE
SPECIFICATION WarmSpec
INVARIANTS NoHandlerOnFreedSubscriber
PROPERTIES EventuallyDelivered DisconnectEndsHandler BacklogServed ShutdownEnds
CHECK_DEADLOCK FALSE
