CONSTANTS
  CacheSize = 2
  Limits <- BothLimits
  Memory = 3
SPECIFICATION Spec
INVARIANTS QueueExact BudgetExact EveryCacheFreed
PROPERTIES IsBlockPool
CHECK_DEADLOCK FALSE
