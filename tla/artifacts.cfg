SPECIFICATION Spec
CONSTANTS
  c1 = c1
  c2 = c2
  g1 = g1
  Comments <- TwoComments
  Segments <- OneSegment
  ResumeSetupFails = FALSE
  MaxSetupFailures = 1
  MaxInterrupts = 2
  MaxRetries = 2
SYMMETRY Symmetry
CHECK_DEADLOCK FALSE
INVARIANTS AnalysisComplete ReportTruthful VerdictMatchesReport NetworkFollowsResults
PROPERTY ImplementsContract
