SPECIFICATION Spec
CONSTANTS
  MaxCall = 5
  Planar = {3}
  Large = {3}
  MaxInFlight = 2
  UploadBuffers = 2
  MaxHost = 2
INVARIANTS
  SlotsExact
  BodyIsOwn
  OneHost
PROPERTIES
  CallsSettle
CHECK_DEADLOCK FALSE
