CONSTANTS
  p1 = p1 p2 = p2 p3 = p3
  Proc = {p1, p2, p3}
  b1 = b1 b2 = b2 b3 = b3
  Block = {b1, b2, b3}
  None = None
  NUM = 8
  IdxMod = 16
  StartIdx = 15
  MaxRequests = 3
SPECIFICATION FairSpec
INVARIANTS ChainsArePrivate ReturnsTheBlock
ACTION_CONSTRAINT FirstCalls
CHECK_DEADLOCK FALSE
PROPERTIES EveryCallReturns
