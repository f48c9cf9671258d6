CONSTANTS
  m1 = m1
  Orders = {o1, o2}
  Waiters = {w1, w2}
  Markets = {m1}
  MarketOf <- MCMarketOf
  OriginalSize <- MCOriginalSize
  FillSizes = {1}
  MaxFilled = 1
  None = None
  HasTimeout = TRUE
SPECIFICATION Spec
INVARIANTS
  CompletionIsLive
  OneOutcome
  RegistryConsistent
PROPERTIES
  ImplementsLifecycle
