SPECIFICATION InferSpec
CONSTANTS
  MaxInfer = 2
  Single = {}
  Tiles = 2
  MaxCached = 1
  MaxLate = 1
  Strikes = 2
INVARIANTS
  LabelTellsServer
PROPERTIES
  InfersAnswered
CHECK_DEADLOCK FALSE
