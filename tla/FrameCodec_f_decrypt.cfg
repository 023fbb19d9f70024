SPECIFICATION FairSpec
CONSTANTS
  Chans = {ch0}
  Chunk = 2
  Sizes = {1, 3}
  Encryptions = {TRUE}
  MaxMsgs = 1
  MaxRestarts = 0
PROPERTIES
  EverythingArrives
CHECK_DEADLOCK FALSE
