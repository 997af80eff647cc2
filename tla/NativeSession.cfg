SPECIFICATION FairSpec
CONSTANTS
  Video = {v1, v2}
  Framed = {v1}
  MaxRequest = 2
  MaxQueue = 3
  MaxEvents = 3
INVARIANTS
  CaptureOnRecord
  PagesRestored
  SessionOwned
  DisabledEnds
PROPERTIES
  SessionsInOrder
  StopsFinish
CHECK_DEADLOCK FALSE
