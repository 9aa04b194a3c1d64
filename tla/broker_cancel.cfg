\* Teardown at any await of the loop.
SPECIFICATION Spec
CONSTANTS
  h1 = h1
  h2 = h2
  w1 = w1
  w2 = w2
  None = None
  Handles <- TwoHandles
  Wallets <- OneWallet
  Teardowns <- CancelOrStop
  CooldownAfter = 2
  MaxToken = 2
  MaxEntering = 1
  Serial = TRUE
  SlowAwaits = TRUE
  MayCrash = FALSE
  MayForget = FALSE
CHECK_DEADLOCK FALSE
INVARIANTS
  StaleLoopIsCut
PROPERTIES
  StaleLoopsEnd
