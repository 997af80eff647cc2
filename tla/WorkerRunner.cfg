SPECIFICATION FairSpec
CONSTANTS
  Pipeline = {p1, p2}
  MaxConcurrent = 1
  MaxTimeouts = 2
  MaxNative = 2
  MaxWorker = 2
  MaxRequest = 2
INVARIANTS
  RequestsHeld
  NoIdleSlot
  BuriedNotServed
PROPERTIES
  CallsReturn
CHECK_DEADLOCK FALSE
