SPECIFICATION Spec
CONSTANTS
  Call = {c1, c2}
  Id = {i1}
  None = None
  DrainMaxCollect = 2
  MaxMessages = 1
  MaxStatus = 1
  MaxFaults = 1
INVARIANTS NothingLost HandedOnce EveryWaiterIsHeard OneResult DrainReadsUnlinked
PROPERTIES KeepsMail
SYMMETRY Symmetry
CHECK_DEADLOCK FALSE
