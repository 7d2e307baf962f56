SPECIFICATION FairSpec
CONSTANTS
  e1 = e1
  e2 = e2
  i1 = i1
  i2 = i2
  i3 = i3
  Executors <- OneExecutor
  Items <- ThreeItems
  Concurrency = 2
  Parallel <- OneExecutor
  MaxCrashes = 1
  MaxSignals = 1
  MaxLate = 1
  MaxRetries = 1
CHECK_DEADLOCK FALSE
INVARIANTS InFlightBounded
PROPERTIES PoolKeepsFutures StepEnds
