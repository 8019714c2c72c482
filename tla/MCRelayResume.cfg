SPECIFICATION Spec
CONSTANTS
  Polls = {p1}
  Streams = {c1, c2}
  NoPoll = NoPoll
  EventBuffer = 2
  InboundQueue = 1
  MaxBatch = 1
  MaxEvents = 2
  MaxMessages = 2
  MaxEpoch = 2
SYMMETRY StreamSymmetry
INVARIANT ResumeSkipsNothing
CHECK_DEADLOCK FALSE
