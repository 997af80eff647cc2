SPECIFICATION Spec
CONSTANTS
  Widths = {6}
  Heights = {6}
  XCuts = {3}
  YCuts = {1}
  TargetWidths = {0, 9, 23}
  MinDim = 2
  Interval = 2
  LargeTile = 4
  SmallTile = 3
  BigFrame = 30
  TileShare = 2
  MaxOverlap = 1
  Gate = 5
  GateFrame = 12
  Depth = 2
  RowAlign = 16
INVARIANTS
  CropKeepsContent
  ResultsLand
  TilesBlend
  BarsForgotten
