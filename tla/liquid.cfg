\* Wallets that finish the peer connections they offer; a server that recounts.
SPECIFICATION Spec
CONSTANTS
  MayStrand = FALSE
  MayRecount = TRUE
CHECK_DEADLOCK FALSE
INVARIANTS
  NeverDeafOrBare
PROPERTIES
  HealthyLinkStays
  OfferAnswered
  KeepsHandle
