SPECIFICATION EnhancerSpec
CONSTANTS
  Sides = {"stop", "signal"}
  Settings = {"off", "auto", "manual", "webgpu", "native"}
  MaxSessions = 2
  MaxStimuli = 4
INVARIANTS
  PhaseTellsResources
  RenderersAccounted
  StopsHold
CHECK_DEADLOCK FALSE
