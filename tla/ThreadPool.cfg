SPECIFICATION PoolFairSpec
CONSTANTS
  numThreads_ = 3
  MaxDeals = 7
INVARIANTS
  LoopsAreReady
  DealtEvenly
PROPERTY
  StartReturns
CHECK_DEADLOCK FALSE
