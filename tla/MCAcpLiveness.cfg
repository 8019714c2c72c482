SPECIFICATION FairSpec
CONSTANTS
  Ids = {s, f}
  MaxRequests = 2
  MaxAsks = 2
  MaxFailures = 1
  MaxCrashes = 0
PROPERTY PromptsAreAnswered
CHECK_DEADLOCK FALSE
