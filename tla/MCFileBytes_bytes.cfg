CONSTANTS
  p = p q = q
  Proc = {p, q}
  NoProc = NoProc
  Mkfs = Mkfs
  File = {1, 2}
  BSIZE = 2
  NDIRECT = 2
  NINDIRECT = 2
  NBLOCKS = 5
  BPB = 3
  MAXOPBLOCKS = 6
  Top = 5
  Memory <- Memories
  Host <- HostFile
  Requests <- Called
  MaxCalls = 3
SPECIFICATION MCSpec
INVARIANTS BlocksAreExact
PROPERTIES ImplementsByteFile
CHECK_DEADLOCK FALSE
