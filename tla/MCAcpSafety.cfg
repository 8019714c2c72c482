SPECIFICATION Spec
CONSTANTS
  Ids = {s, f}
  MaxRequests = 3
  MaxAsks = 1
  MaxFailures = 1
  MaxCrashes = 1
INVARIANTS
  TypeOK
  OneTurnPerSession
  UndisturbedTurnsAreFiled
  CancelsReachRunningTurns
  BlockedAreAsked
CONSTRAINT OneTrouble
VIEW View
SYMMETRY Symmetry
CHECK_DEADLOCK FALSE
