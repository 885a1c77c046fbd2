SPECIFICATION ReaderSpec
CONSTANTS
  Protectors = {keychain, passphrase}
  Keyed = {keychain}
  None = None
  CanHold = {TRUE, FALSE}
  FlushRetries = 3
  MaxWrites = 3
  MaxFaults = 2
  Attempts = 2
INVARIANTS SavedSurvives ReplaceSays WipedIsGone WipeFindsTheKey StatusShowsTheState
PROPERTY KeepsState
