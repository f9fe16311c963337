SPECIFICATION FairSpec
CONSTANTS
  Keys = {1, 141, 140}
  QueueLimit = 6
  MaxMoves = 3
  MaxGiveUps = 2
  MaxResets = 1
INVARIANTS OneExchangeAtATime EveryMoveArrives
PROPERTY MovesAreHeard
CHECK_DEADLOCK FALSE
