CONSTANTS
  MaxSockets = 3
  Callers = {"connect", "r1", "r2"}
  Subscriptions = {k1}
  MaxBuffer = 2
  MaxAttempts = 2
SPECIFICATION FairSpec
INVARIANTS
  OneSocket
  GenerationIsSocket
PROPERTIES
  HealthySocketKept
  SilenceNoticed
  ReconnectEnds
