CONSTANTS
  p = p q = q r = r
  Proc = {p, q, r}
  Block = {A, B, C, D, E}
  None = None
  MAXOPBLOCKS = 3
  LOGSIZE = 6
  nlog = 6
  OpBlocks = 2
  MaxOps = 3
  MaxCrashes = 2
SPECIFICATION LogSpec
SYMMETRY Symmetry
INVARIANTS QuiescentIsDurable SleepersAreWoken ReservationSuffices
CHECK_DEADLOCK FALSE
PROPERTIES CallsAreAtomic
