SPECIFICATION FairSpec
CONSTANTS
  Agents = {a1}
  NoTask = NoTask
  NoRequest = NoRequest
  Commands <- NoCommands
  MaxQueries = 1
  MaxTurns = 2
  MaxRequests = 2
  MaxPrompts = 1
  MaxTyped = 0
  MaxStops = 0
  GoalActive = FALSE
INVARIANT EveryAskIsOpen
PROPERTY AskedIsShown
PROPERTY CancelledQueriesReturn
