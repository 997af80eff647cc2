SPECIFICATION Spec
CONSTANTS
  UserCaps = {480, 405}
  Cooldown = 3
  UpWindow = 3
  MaxChanges = 2
  MaxRefresh = 1
  MaxQueue = 2
INVARIANTS
  PolicyTellsLive
PROPERTIES
  NoFlap
