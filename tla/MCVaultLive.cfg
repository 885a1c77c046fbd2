SPECIFICATION FairSpec
CONSTANTS
  Call = {c1, c2}
  Id = {i1}
  None = None
  DrainMaxCollect = 2
  MaxMessages = 0
  MaxStatus = 1
  MaxFaults = 1
PROPERTIES StatusIsRead RequestsEnd

CHECK_DEADLOCK FALSE
