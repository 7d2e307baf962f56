SPECIFICATION Spec
CONSTANTS
  Datasets <- MCDatasets
  Manifests <- MCManifests
  Rows <- MCRows
  Sections <- MCSections
  Cards <- MCCards
  Options <- MCOptions
  BatchSize = 2
  MaxRuns = 2
  MaxEdits = 1
INVARIANTS
  FinishedIsComplete
  LicensedOnly
  LabelsAgree
  ServedWhole
CHECK_DEADLOCK FALSE
