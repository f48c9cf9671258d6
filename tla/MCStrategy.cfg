CONSTANTS
  Ticks = {t1, t2}
  Markets = {m1, m2, m3}
  WarmupTicks = 1
  MaxPositions = 2
  LotSize = 2
  MaxHolding = 4
  Fills = {2}
  NoMarket = NoMarket
SPECIFICATION FairSpec
INVARIANTS
  SnapshotCurrent
  MaxPositionsRespected
  EveryFillAccounted
PROPERTIES
  EntryOnlyWhileActive
  TickEnds
