CONSTANTS
  c0 = c0 c1 = c1 r1 = r1 r2 = r2 w1 = w1
  Cpu = {c0, c1}
  None = None
  Reader = {r1, r2}
  Writer = {w1}
  INPUT_BUF_SIZE = 3
  UART_TX_BUF_SIZE = 1
  UintMod = 6
  Start = 4
  FifoSize = 2
  Counts = {2}
  Scenes <- MCScenes
  BadAddress = TRUE
SPECIFICATION Spec
INVARIANTS InterruptsMatchLocks SendsInOrder SleepersHaveReason
PROPERTIES ImplementsLineDiscipline CallsReturn
CHECK_DEADLOCK FALSE
