SPECIFICATION FairSpec
CONSTANTS
  Tool = {t1, t2}
  Retransmissions = 1
  MaxPending = 1
  Attempt = 1
  Window = 1
  MaxHolds = 1
  MaxFaults = 1
INVARIANTS ClosedKeepsNothing Bounded GivenOnce ExecutedOnce
PROPERTIES WaitsForTheMember EveryRequestEnds
CHECK_DEADLOCK FALSE
