\* Three connections in a row, one session, prompt and late closes.
SPECIFICATION Spec
CONSTANTS
  s1 = s1
  events = events
  MaxConnections = 3
  SessionKeys <- OneSession
  SessionEvents = events
CHECK_DEADLOCK FALSE
INVARIANTS
  NeverStranded
  HandshakeOnce
  PromptLinkIsClean
PROPERTIES
  Recovers
