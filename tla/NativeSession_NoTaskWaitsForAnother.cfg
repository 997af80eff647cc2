SPECIFICATION Spec
CONSTANTS
  Video = {v1, v2}
  Framed = {v1}
  MaxRequest = 1
  MaxQueue = 3
  MaxEvents = 3
INVARIANT NoTaskWaitsForAnother
CHECK_DEADLOCK FALSE
