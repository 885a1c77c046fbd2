SPECIFICATION FairSpec
CONSTANTS
  Caller = {c1}
  None = None
  Quiet = 1
  Hour = 1
  MaxPerHour = 1
  HoldRecheck = 0
  Life = 1
  MaxTime = 2
  MaxSession = 1
  MaxHolds = 1
  MaxFaults = 1
INVARIANTS RateBound ProbeSettles
PROPERTIES AsksPolitely DropsOnlyEndedSessions HoldEnds
CHECK_DEADLOCK FALSE
