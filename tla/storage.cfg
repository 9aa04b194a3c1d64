\* Two processes on one file, kills at any step, upgrades of every kind.
SPECIFICATION Spec
CONSTANTS
  c1 = c1
  c2 = c2
  k1 = k1
  Service = Service
  None = None
  Conns <- MCConns
  Agents <- MCAgents
  MaxOps = 3
  MaxKills = 1
  Replaces = FALSE
  Amidst = FALSE
CHECK_DEADLOCK FALSE
INVARIANTS
  NoResurrection
  RetiredWhenLifted
PROPERTIES
  ServiceKeyStays
