SPECIFICATION FairSpec
CONSTANTS
  Agents = {}
  NoTask = NoTask
  NoRequest = NoRequest
  Commands <- NoCommands
  MaxQueries = 2
  MaxTurns = 1
  MaxRequests = 0
  MaxPrompts = 2
  MaxTyped = 0
  MaxStops = 1
  GoalActive = FALSE
PROPERTY QueuedPromptRuns
