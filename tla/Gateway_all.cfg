SPECIFICATION FairSpec
CONSTANTS
  k1 = k1
  k2 = k2
  x1 = x1
  x2 = x2
  None = None
  Sockets = {k1, k2}
  Sessions = {x1, x2}
  MaxAttempts = 3
  Threshold = 2
  MaxMoves = 2
  MaxSeq = 2
CHECK_DEADLOCK FALSE
PROPERTY SilenceIsNoticed
PROPERTY Recovers
INVARIANTS NoStall OneConnection EachEventOnce
