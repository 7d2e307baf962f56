SPECIFICATION Spec
CONSTANTS
  Reports = {report1, report2}
  Formats = {html, pdf}
  Supported = {html}
  Threads = {t1, t2}
  Rolling = FALSE
  MaxDeploys = 2
  MaxArrivals = 4
  None = None
SYMMETRY Symmetry
INVARIANTS Confidential ExportPromised RendersFew OwnFilesOnly WithdrawnStays
CHECK_DEADLOCK FALSE
