CONSTANTS
  m1 = m1
  m2 = m2
  c1 = c1
  Managers = {m1, m2}
  Clients = {c1}
  Loops = 3
  ClientLoops = 5
  Calls = 2
SPECIFICATION Spec
INVARIANTS OkMeansEnabled OncePerCall StatusInOrder
