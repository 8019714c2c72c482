SPECIFICATION Spec
CONSTANTS
  a = a
  b = b
  Sessions <- TwoSessions
  Kinds <- FewKinds
  None = None
  MaxLinks = 3
  RingLimit = 1
  MaxVisits = 2
  MaxEvents = 2
  MaxTroubles = 2
INVARIANT EveryAnswerGoesHome
CHECK_DEADLOCK FALSE
