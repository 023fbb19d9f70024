SPECIFICATION FairServerSpec
CONSTANTS
  MaxConns = 3
  MaxRestarted = 2
  MaxStopped = 2
  Events = {"bind fails", "no phone", "phone closes", "closes awaited", "stop"}
INVARIANTS
  OneServer
PROPERTIES
  ClosedUnlessRestarted
  RestartCompletes
CHECK_DEADLOCK FALSE
