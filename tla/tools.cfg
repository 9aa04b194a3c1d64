\* Each tool over the relay, with one trouble on the way.
SPECIFICATION Spec
CONSTANTS
  None = None
  main = main
  topic = topic
  RelinkWait = 1
  Timeout = 1
  Grace = 3
  Lag = 1
  MaxTroubles = 1
  Offers <- MCOffers
  MaxAmount = 3
  Networks <- MCNetworks
  Preferences <- MCPreferences
  Wallets <- MCWallets
  Fee = 1
  OptInMbr = 1
  MinSwapLeg = 2
  MaxDoublings = 1
  SlippagePct = 1
  MaxGroupSize = 4
  Commits <- MCCommits
  Root = "c0"
  Extra = "c4"
  Tip = "c3"
  Signed <- MCSigned
  Parents <- MCParents
  Branches <- MCBranches
  Main = main
CHECK_DEADLOCK FALSE
INVARIANTS
  AskedOnce
  BackstopIsLast
  GroupStands
  ChainSigned
  NothingLost
PROPERTIES
  ToolEnds
