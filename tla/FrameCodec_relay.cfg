SPECIFICATION FairSpec
CONSTANTS
  Chans = {ch0, ch3}
  Chunk = 2
  Sizes = {1, 2, 3, 5}
  Encryptions = {FALSE}
  MaxMsgs = 2
  MaxRestarts = 1
INVARIANTS
  OnlyWholeMessages
  ResetCostsOnlyInFlight
PROPERTIES
  EverythingArrives
CHECK_DEADLOCK FALSE
