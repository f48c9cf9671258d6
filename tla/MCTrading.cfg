CONSTANTS
  None = None
  m1 = m1
  m2 = m2
  Markets = {m1, m2}
  Bridged = {}
  Pipeline <- MCPipeline
  OrOf <- MCOrOf
  NotOf = "Balance"
  MaxDailyLoss = 10
  MaxLosses = 2
  BreakerCooldown = 150
  SoftPct = 20
  HardPct = 30
  MaxPerWindow = 1
  Window = 150
  MaxPerMarket = 3
  MinBalance = 1000000
  MinEdgePct = 3
  MaxVpin = 70
  MaxP95 = 500
  MaxP99 = 1000
  MaxClosed = 1
  HaltThreshold = 1
  ToleranceBps = 0
  Books <- MCBooks
  Readings <- MCReadings
  Curated = {m1}
  BookAges = {10, 20, 40}
  Proposed <- MCProposed
  Exits <- MCExits
  FeeModel <- MCFeeModel
  Deposit = 100
  Sizes = {2}
  ReduceSizes = {1, 2}
  Expiry = 720
  Step = 150
  MaxTime = 300
  MaxEntries = 2
  MaxTrades = 2
  MaxCommands = 1
SPECIFICATION Spec
INVARIANTS
  LedgerAgrees
  PresetsOrdered
  ReconcileFindsAll
PROPERTIES
  EntriesWithinLimits
