SPECIFICATION FairSpec
CONSTANTS
  NumSlots = 2
  NativeDepth = 2
  MaxTimeouts = 2
  StaleBehind = 0
  FatalFailures = 2
  HoldAfter = 2
  InitialRunners = {"native", "worker", "none"}
  TargetSized = TRUE
  Drops = TRUE
  Content = {c1}
  MaxFrame = 3
INVARIANTS
  SlotOwnership
  SkipsCountOnce
PROPERTIES
  PresentsInOrder
  SlotsReturn
CHECK_DEADLOCK FALSE
