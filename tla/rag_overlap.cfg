SPECIFICATION Spec
CONSTANTS
  e1 = e1
  e2 = e2
  i1 = i1
  i2 = i2
  i3 = i3
  Executors <- TwoExecutors
  Items <- TwoItems
  Concurrency = 2
  Parallel <- OneExecutor
  MaxCrashes = 0
  MaxSignals = 1
  MaxLate = 1
  MaxRetries = 1
SYMMETRY Symmetry
CHECK_DEADLOCK FALSE
INVARIANTS CountersMatchRows
PROPERTIES ImplementsSheet
