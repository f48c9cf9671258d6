SPECIFICATION Spec
CHECK_DEADLOCK FALSE
CONSTANTS
  One = 10
  FeeUnit = 100
  NoPrice = NoPrice
  MaxFillHistory = 4
  MaxOrderAge = 1
  Calls = {c1, c2}
  Configs <- MCConfigs
  Quotes <- MCQuotes
  MaxTime = 3
  Keys = {k1, k2}
  Callers = {d1, d2}
  Ttl = 1
  MaxSize = 2
  MaxClock = 3
  MaxVersion = 1
  NoCaller = NoCaller
  NoValue = NoValue
  Absent = Absent
  Markets = {m1, m2}
  MaxBooks = 1
  MaxMoves = 2
  MaxWire = 2
  Handlers = {h1, h2}
  MaxListed = 2
  MaxDepth = 2
  MaxEdits = 4
  NoHandler = NoHandler
INVARIANTS
  
  CacheSound
  BooksAgree
PROPERTY
  DeliveredOnce
