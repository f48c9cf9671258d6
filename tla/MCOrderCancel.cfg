CONSTANTS
  Orders = {o1}
  Waiters = {w1, w2}
  m1 = m1
  Markets = {m1}
  MarketOf <- MCMarketOf
  OriginalSize <- MCOriginalSize
  FillSizes = {1}
  MaxFilled = 2
  None = None
  HasTimeout = TRUE
  KnowsIds = FALSE
  LossyFeed = FALSE
SPECIFICATION FlowSpec
PROPERTIES
  CancelReachesExchange
