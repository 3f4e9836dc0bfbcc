SPECIFICATION ContainerSpec
CONSTANTS
  m1 = m1
  m2 = m2
  p1 = p1
  p2 = p2
  p3 = p3
  Managers = {m1, m2}
  Pids = {p1, p2}
  NoPid = NoPid
  NoManager = NoManager
INVARIANTS
  CanStartAgain
