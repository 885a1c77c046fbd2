SPECIFICATION FairSpec
CONSTANTS
  Grant = {g1}
  Presenter = {}
  Loop = loop
  ReqId = {i1, i2}
  None = None
  ListTries = 2
  MaxEpoch = 2
  MaxSession = 1
  MaxFaults = 1
INVARIANTS PresentableInForce
PROPERTIES NeverGoesBack Converges
CHECK_DEADLOCK FALSE
