CONSTANTS
  Asker = {w1, w2}
  Ip = {a, b, p}
  Public = {a, b}
  QueueLimit = 2
  CacheLimit = 1
  Stop = Stop
SPECIFICATION Spec
CHECK_DEADLOCK FALSE
INVARIANTS NoStuckPending NoDoubleLookup
PROPERTIES QueuedIsResolved CloseEndsResolver
