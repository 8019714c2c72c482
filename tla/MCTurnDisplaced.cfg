SPECIFICATION Spec
CONSTANTS
  Agents = {}
  NoTask = NoTask
  NoRequest = NoRequest
  Commands <- NoCommands
  MaxQueries = 2
  MaxTurns = 2
  MaxRequests = 0
  MaxPrompts = 1
  MaxTyped = 1
  MaxStops = 0
  GoalActive = FALSE
INVARIANT NoQueryDisplaced
