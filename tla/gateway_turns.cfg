\* Two turns of a wallet with two threads, undisturbed and disturbed.
SPECIFICATION Spec
CONSTANTS
  t1 = t1
  t2 = t2
  side = side
  DefaultThid = DefaultThid
  NoTurn = NoTurn
  Turns <- TwoTurns
  Threads <- TwoThreads
  MaxSegments = 2
  Scenarios <- Usual
CHECK_DEADLOCK FALSE
INVARIANTS
  RightThread
  CalmIsExact
  LastIsShown
PROPERTIES
  EveryTurnEnds
