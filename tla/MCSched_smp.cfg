CONSTANTS
  NPROC = 3
  NCPU = 2
  RoundRobin = FALSE
  Priorities = {0,1}
  Calls = {"fork","wait","kill","setpriority"}
SPECIFICATION Spec
INVARIANTS RunsOnce FreedIsOffCpu SchedHoldsOnlyItsLock NoLockCycle NoLostExit
PROPERTIES DispatchesHighestSeen
CONSTRAINT OneSpecial
