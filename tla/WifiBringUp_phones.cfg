SPECIFICATION FairSpec
CONSTANTS
  MaxStarts = 2
  MaxConns = 2
  MaxMessages = 2
  MaxFaults = 1
  Faults = {"fails", "refused", "timeout", "dies", "slow", "sigterm"}
INVARIANTS
  HandshakeOwnsSocket
  TornDown
PROPERTIES
  SentKeyIsCurrent
  PendingServed
CHECK_DEADLOCK FALSE
