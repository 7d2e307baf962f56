SPECIFICATION FairQuietSpec
CONSTANTS
  w1 = w1
  w2 = w2
  NJobs = 1
  Workers <- TwoWorkers
  N = 5
  Required <- FiveRequired
  RagSteps <- FiveRag
  MaxCrashes = 1
  MaxSignals = 1
  MaxLate = 1
  MaxRetries = 1
CHECK_DEADLOCK FALSE
INVARIANTS SingleExecutor SettledIsFinal ExecutionsBounded
PROPERTIES ImplementsContract RunningStepEnds
