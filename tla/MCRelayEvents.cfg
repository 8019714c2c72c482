SPECIFICATION FairSpec
CONSTANTS
  Polls = {}
  Streams = {c1}
  NoPoll = NoPoll
  EventBuffer = 2
  InboundQueue = 1
  MaxBatch = 2
  MaxEvents = 4
  MaxMessages = 3
  MaxEpoch = 3
INVARIANTS
  TypeOK
  NothingRetainedIsSkipped
PROPERTIES
  EventsInOrder
  EveryStreamCatchesUp
CHECK_DEADLOCK FALSE
