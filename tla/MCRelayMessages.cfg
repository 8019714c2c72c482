SPECIFICATION FairSpec
CONSTANTS
  Polls = {p1, p2}
  Streams = {}
  NoPoll = NoPoll
  EventBuffer = 1
  InboundQueue = 2
  MaxBatch = 1
  MaxEvents = 0
  MaxMessages = 3
  MaxEpoch = 2
INVARIANTS
  NoMessageVanishes
PROPERTIES
  MessagesInOrder
  EveryMessageIsFetched
CHECK_DEADLOCK FALSE
