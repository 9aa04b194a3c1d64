\* Both transports, generated ids.
SPECIFICATION Spec
CONSTANTS
  c1 = c1
  c2 = c2
  i1 = i1
  i2 = i2
  Calls <- MCCalls
  Ids <- MCIds
  NoId = NoId
  NoCall = NoCall
  MaxFrames = 2
CHECK_DEADLOCK FALSE
INVARIANTS
  WaiterReachable
PROPERTIES
  NoFrameSwallowed
  CloseSettles
  ImplementsSingleUse
