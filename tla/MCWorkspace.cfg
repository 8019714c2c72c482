SPECIFICATION FairSpec
CONSTANTS
  Machines = {a, b}
  Models = {model}
  Searches = {search}
  a = a
  b = b
  NoBackup = NoBackup
  Uploaders <- OneOfEach
  MaxPuts = 3
  MaxEdits = 1
  MaxGrants = 2
  MaxCommands = 2
  MaxClears = 1
INVARIANTS
  TypeOK
  ModelKeysStayHome
  ModelKeysEndWithTheirEntitlement
  LogoutForgets
PROPERTIES
  ServesARegister
  OwnAccountsSurvive
  ChangesAreTried
CHECK_DEADLOCK FALSE
