CONSTANTS
  r = r w = w x = x
  Proc = {r, w, x}
  None = None
  Readers = {r, x}
  Writers = {w, x}
  PIPESIZE = 2
  UintMod = 4
  Counts = {1, 3}
  BadAddress = TRUE
  MaxBytes = 5
  MaxKills = 1
SPECIFICATION Spec
INVARIANTS SleepersHaveReason FreedIsUnused
PROPERTIES ImplementsByteStream
CHECK_DEADLOCK FALSE
