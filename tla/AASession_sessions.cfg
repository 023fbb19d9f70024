SPECIFICATION FairSessionSpec
CONSTANTS
  MaxConns = 2
  MaxChanges = 2
  MaxPings = 1
  Decrypts = {TRUE, FALSE}
  Events = {"phone closes", "closes awaited", "phone quits", "phone confirms", "startup fails"}
INVARIANTS
  ChannelsFollowSession
PROPERTIES
  SdrWhenChannelsUp
  SessionComesUp
CHECK_DEADLOCK FALSE
