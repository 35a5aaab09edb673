CONSTANTS
  s1 = s1
  p1 = p1
  p2 = p2
  t1 = t1
  t2 = t2
  s2 = s2
  Conns = {s1,s2, p1}
  Subscribers = {s1,s2}
  Publishers = {p1}
  Topics = {t1}
  NoTopic = NoTopic
  Backlog = 1
  ChanCap = 1
  Mortal = {}
  MaxRequests = 3
  Signals = FALSE
  OutOfMemory = FALSE
SPECIFICATION Spec
INVARIANTS TypeOK AtMostOnce NobodyMissed
CHECK_DEADLOCK FALSE
SYMMETRY Symmetry
CONSTRAINT FewRequests
