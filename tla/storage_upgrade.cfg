\* A first start that cannot read the legacy master key.
SPECIFICATION Spec
CONSTANTS
  c1 = c1
  c2 = c2
  k1 = k1
  Service = Service
  None = None
  Conns <- MCConns
  Agents <- MCAgents
  MaxOps = 0
  MaxKills = 1
  Replaces = FALSE
  Amidst = FALSE
CHECK_DEADLOCK FALSE
INVARIANTS
  ServiceKeySurvivesUpgrade
