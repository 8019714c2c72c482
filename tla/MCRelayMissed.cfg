SPECIFICATION Spec
CONSTANTS
  Polls = {p1, p2}
  Streams = {c1}
  NoPoll = NoPoll
  EventBuffer = 1
  InboundQueue = 1
  MaxBatch = 1
  MaxEvents = 1
  MaxMessages = 2
  MaxEpoch = 2
SYMMETRY PollSymmetry
INVARIANT NoMissedMessage
CHECK_DEADLOCK FALSE
