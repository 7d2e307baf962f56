SPECIFICATION Spec
CONSTANTS
  c1 = c1
  c2 = c2
  g1 = g1
  Comments <- TwoComments
  Segments <- OneSegment
  ResumeSetupFails = TRUE
  MaxSetupFailures = 1
  MaxInterrupts = 1
  MaxRetries = 0
SYMMETRY Symmetry
CHECK_DEADLOCK FALSE
INVARIANTS AnalysisComplete
