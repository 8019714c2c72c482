SPECIFICATION Spec
CONSTANTS
  Ids = {s, f}
  MaxRequests = 3
  MaxAsks = 0
  MaxFailures = 0
  MaxCrashes = 0
INVARIANT EveryTurnIsFiled
CHECK_DEADLOCK FALSE
