\* One of two tools, a spawned task or a yield across two threads.
SPECIFICATION CardsSpec
CONSTANTS
  bash = bash
  yes = yes
  spawn = spawn
  yield = yield
  side = side
  DefaultThid = DefaultThid
  NoRun = NoRun
  Threads <- TwoThreads
  Tools <- TwoTools
  Deltas <- OneDelta
  Text <- TwoTexts
  Spawns <- OneSpawn
  Yields <- OneYield
  CallSets <- OneCall
  Cap = 2
  MaxOutput = 3
  MaxWire = 2
CHECK_DEADLOCK FALSE
INVARIANTS
  OneCardPerCall
  OutputIsPrefix
  ResultIsTrue
PROPERTIES
  TasksSettle
