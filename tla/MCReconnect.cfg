CONSTANTS
  MaxSockets = 3
  Callers = {"connect", "r1"}
  Subscriptions = {k1}
  MaxBuffer = 1
  MaxAttempts = 2
SPECIFICATION Spec
PROPERTIES
  ReconnectReconnects
