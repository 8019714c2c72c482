SPECIFICATION Spec
CONSTANTS
  Machines = {a, b}
  Models = {model}
  Searches = {search}
  a = a
  b = b
  NoBackup = NoBackup
  Uploaders <- OneOfEach
  MaxPuts = 1
  MaxEdits = 1
  MaxGrants = 2
  MaxCommands = 2
  MaxClears = 0
INVARIANT KeysEndWithTheirEntitlement
CHECK_DEADLOCK FALSE
