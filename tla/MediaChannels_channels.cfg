SPECIFICATION FairSpec
CONSTANTS
  Devices = {headset, speaker}
  Scenarios <- Everything
  Threshold = 2
  MaxQueue = 2
  MaxPipeline = 1
INVARIANTS
  SoundIsOfThisStream
  LabelTellsTheStream
  PicturesAreShown
PROPERTIES
  SoundFollowsChoice
  ClosedIsQuiet
CHECK_DEADLOCK FALSE
