SPECIFICATION Spec
CONSTANTS
  Dir = {a, b}
  Status = status
  Gone = Gone
  MaxItems = 4
  MaxMoves = 2
  MaxFaults = 2
INVARIANTS KeysStay WipeSays ProbeIsAlone
CHECK_DEADLOCK FALSE
