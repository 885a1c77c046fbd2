SPECIFICATION FairSpec
CONSTANTS
  c1 = c1
  c2 = c2
  c3 = c3
  i1 = i1
  i2 = i2
  Call <- Calls
  Id <- Ids
  IdOf <- MCIdOf
  Loop = Loop
  None = None
  MaxInFlight = 2
  Burst = 2
  PerToken = 1
  MaxTime = 1
  MaxLines = 2
  MaxFails = 1
INVARIANTS OneAnswer RateBound
PROPERTIES Ends
CHECK_DEADLOCK FALSE
