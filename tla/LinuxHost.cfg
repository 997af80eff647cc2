SPECIFICATION FairSpec
CONSTANTS
  IdleBudget = 3
  RequestBudget = 2
  LineCap = 2
  MaxBody = 2
  MaxPieces = 2
INVARIANTS
  GpuOwned
PROPERTIES
  StopFinishes
  ReadersLetGo
  ForgottenHostExits
CHECK_DEADLOCK FALSE
