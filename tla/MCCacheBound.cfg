SPECIFICATION CacheSpec
CONSTANTS
  Keys = {k1, k2, k3}
  Callers = {c1}
  Ttl = 1
  MaxSize = 2
  MaxClock = 2
  MaxVersion = 0
  NoCaller = NoCaller
  NoValue = NoValue
INVARIANT CacheBounded
