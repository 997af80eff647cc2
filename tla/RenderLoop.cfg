SPECIFICATION Spec
CONSTANTS
  MaxUpdates = 1
  MaxLosses = 2
  MaxReports = 1
  MaxResizes = 1
  MaxOps = 2
INVARIANTS
  OneBuilder
  FrameFitsPipelines
PROPERTIES
  LossRecovered
  UpdatesSettle
CHECK_DEADLOCK FALSE
