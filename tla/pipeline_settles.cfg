SPECIFICATION FairQuietSpec
CONSTANTS
  w1 = w1
  w2 = w2
  NJobs = 2
  Workers <- TwoWorkers
  N = 4
  Required <- FourRequired
  RagSteps <- FourRag
  MaxCrashes = 0
  MaxSignals = 1
  MaxLate = 1
  MaxRetries = 0
CHECK_DEADLOCK FALSE
PROPERTIES EveryJobSettles
