CONSTANTS
  p = p q = q
  Proc = {p, q}
  InitProc = p
  None = None
  NINODES = 4
  NINODE = 4
  NFILE = 2
  NOFILE = 2
  NBLOCKS = 5
  PerBlock = 2
  Name = {".", "..", "x", "d", "y"}
  Calls <- SomeCalls
  Others = {"write", "dup", "fork", "exit"}
  MaxCalls = 3
SPECIFICATION Spec
INVARIANTS RefsAreExact BlocksOwnedOnce LinksAreNames NeverPanics
CHECK_DEADLOCK FALSE
