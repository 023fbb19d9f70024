SPECIFICATION FairSpec
CONSTANTS
  video = video
  audio = audio
  Channels = {video, audio}
  Priority <- OneLevel
  MaxSessions = 2
  Scenarios <- GenerationsAndStartup
INVARIANTS
  SingleGeneration
  StoppedMeansExited
  NoOrphanAtExit
PROPERTIES
  ChannelsReadyMeansAllReady
  SessionResolves
CHECK_DEADLOCK FALSE
