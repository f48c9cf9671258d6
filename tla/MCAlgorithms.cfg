SPECIFICATION Spec
CHECK_DEADLOCK FALSE
CONSTANTS
  Null = Null
  NoPrice = NoPrice
  Idle = Idle
  One = 10
  FeeUnit = 100
  MaxCandles = 5
  MaxTrades = 3
INVARIANTS
  LongDominates
  RebalancesSettle
  ChoicesConsistent
  OscillatorsInRange
  IndicatorsConsistent
  OneStory
