SPECIFICATION Spec
CONSTANTS
  Arms <- BothArms
  HookExits <- AllExits
  MaxTurns = 1
  Retries = 1
  RecoveryLimit = 1
  ProseBudget = 1
  MaxFailures = 1
  GoalLimit = 1
  Advisor = TRUE
  Cooldown = 1
  Fallback = TRUE
  Summary = TRUE
  MaxQueries = 2
  MaxCalls = 2
  MaxNotes = 1
  MaxMail = 1
  MaxPerReply = 2
  MaxTroubles = 1
CONSTRAINT FewTroubles
CONSTRAINT HooksSpeakOnce
INVARIANTS
  TypeOK
  RequestsArePaired
  CutsKeepPairs
  RunsAreReported
VIEW View
CHECK_DEADLOCK FALSE
