SPECIFICATION Spec
CONSTANTS
  MAX_ORDER = 2
  Zones <- OneZone
  FreeRanges <- AllButOne
  Caller = {c1}
  Stale <- Anything
INVARIANT OnlyFreed
