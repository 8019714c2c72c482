SPECIFICATION Spec
CONSTANTS
  Agents = {}
  NoTask = NoTask
  NoRequest = NoRequest
  Commands <- FirstIsCommand
  MaxQueries = 2
  MaxTurns = 2
  MaxRequests = 1
  MaxPrompts = 2
  MaxTyped = 1
  MaxStops = 1
  GoalActive = TRUE
INVARIANT TypeOK
INVARIANT RemoteTurnsNeverDisplace
PROPERTY StopsEndWhatRan
PROPERTY PromptsInOrder
