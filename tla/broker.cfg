\* One cycle, two wallets, the thresholds of the code; crashes, and forgetting
\* everything, at any await.
SPECIFICATION Spec
CONSTANTS
  h1 = h1
  h2 = h2
  w1 = w1
  w2 = w2
  None = None
  Handles <- TwoHandles
  Wallets <- TwoWallets
  Teardowns <- NoTeardown
  CooldownAfter = 8
  MaxToken = 1
  MaxEntering = 1
  Serial = TRUE
  SlowAwaits = TRUE
  MayCrash = TRUE
  MayForget = TRUE
CHECK_DEADLOCK FALSE
INVARIANTS
  DelayMatchesTier
  SocketOwned
  CallersSeeTruth
  IdentityHasKey
  GrantIsRightful
PROPERTIES
  ReconnectNeverStops
