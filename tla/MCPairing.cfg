SPECIFICATION PairingSpec
CONSTANTS
  Protectors = {keychain, passphrase}
  Keyed = {keychain}
  None = None
  CanHold = {TRUE}
  FlushRetries = 0
  MaxWrites = 5
  MaxFaults = 2
  MaxTries = 2
INVARIANTS ShownIsResumable ApprovalIsKept ToldIsSo NothingIsKept
CHECK_DEADLOCK FALSE
