SPECIFICATION Spec
CONSTANTS
  a1 = a1
  a2 = a2
  d1 = d1
  d2 = d2
  c1 = c1
  c2 = c2
  c3 = c3
  openclaw = openclaw
  None = None
  Agents = {a1, a2}
  Daemons = {d1, d2}
  Conns = {c1, c2, c3}
  Ids = {openclaw}
  IdsOf <- SameId
  Modes <- SocketMode
  MaxKills = 0
INVARIANT WaitingMeansNobody
CHECK_DEADLOCK FALSE
