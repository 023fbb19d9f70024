SPECIFICATION FairSpec
CONSTANTS
  Devices = {phone, tablet}
  MaxAsked = 1
  MaxStarts = 2
  MaxStops = 1
  MaxDiscoveries = 2
  MaxForeign = 1
  MaxRequests = 3
  MaxConfirmations = 2
  MaxPairs = 1
  MaxCancels = 1
  MaxClicks = 4
  MaxScans = 2
INVARIANTS
  AnsweredForAReason
  WindowKeepsUp
PROPERTIES
  StopIsHeeded
  CallsAreReported
CHECK_DEADLOCK FALSE
