SPECIFICATION Spec
CONSTANTS
  Caller = {c1}
  None = None
  Quiet = 1
  Hour = 2
  MaxPerHour = 2
  HoldRecheck = 1
  Life = 1
  MaxTime = 1
  MaxSession = 0
  MaxHolds = 0
  MaxFaults = 0
INVARIANTS OutstandingIsUndecided
CHECK_DEADLOCK FALSE
