SPECIFICATION FairSpec
CONSTANTS
  Ids = {s}
  MaxRequests = 1
  MaxAsks = 1
  MaxFailures = 0
  MaxCrashes = 0
PROPERTY EofEndsTheServer
CHECK_DEADLOCK FALSE
