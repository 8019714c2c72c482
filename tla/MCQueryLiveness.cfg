SPECIFICATION Spec
CONSTANTS
  Arms <- BothArms
  HookExits <- AllExits
  MaxTurns = 1
  Retries = 1
  RecoveryLimit = 1
  ProseBudget = 1
  MaxFailures = 1
  GoalLimit = 1
  Advisor = TRUE
  Cooldown = 1
  Fallback = TRUE
  Summary = TRUE
  MaxQueries = 1
  MaxCalls = 2
  MaxNotes = 1
  MaxMail = 1
  MaxPerReply = 2
  MaxTroubles = 2
CONSTRAINT FewTroubles
INVARIANTS
  RequestsAreBounded
PROPERTIES
  QueryEnds
CHECK_DEADLOCK FALSE
