SPECIFICATION FairQuietSpec
CONSTANTS
  w1 = w1
  w2 = w2
  NJobs = 1
  Workers <- TwoWorkers
  N = 4
  Required <- FourRequired
  RagSteps <- FourRag
  MaxCrashes = 1
  MaxSignals = 0
  MaxLate = 0
  MaxRetries = 0
CHECK_DEADLOCK FALSE
PROPERTIES RunningJobSettles
