SPECIFICATION Spec
CONSTANTS
  Agents = {}
  NoTask = NoTask
  NoRequest = NoRequest
  Commands <- NoCommands
  MaxQueries = 1
  MaxTurns = 2
  MaxRequests = 0
  MaxPrompts = 0
  MaxTyped = 1
  MaxStops = 0
  GoalActive = FALSE
PROPERTY StopMeansStop
