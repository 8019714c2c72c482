SPECIFICATION FairSpec
CONSTANTS
  a = a
  b = b
  Sessions <- TwoSessions
  Kinds <- FewKinds
  None = None
  MaxLinks = 3
  RingLimit = 1
  MaxVisits = 2
  MaxEvents = 2
  MaxTroubles = 2
INVARIANTS TypeOK ShownInOrder AnswersGoHome DisconnectedIsFinal
PROPERTY PanesComeBack
CHECK_DEADLOCK FALSE
