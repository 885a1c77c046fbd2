SPECIFICATION Spec
CONSTANTS
  Grant = {g1}
  Presenter = {p1}
  Loop = loop
  ReqId = {i1, i2}
  None = None
  ListTries = 2
  MaxEpoch = 2
  MaxSession = 1
  MaxFaults = 0
INVARIANTS StatementsMatchGrants
PROPERTIES ShownInForce
CHECK_DEADLOCK FALSE
