SPECIFICATION Spec
CONSTANTS
  Tool = {t1}
  Retransmissions = 0
  MaxPending = 1
  Attempt = 1
  Window = 1
  MaxHolds = 0
  MaxFaults = 0
INVARIANTS ResultOrPending
CHECK_DEADLOCK FALSE
