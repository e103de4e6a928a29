CONSTANTS
  NPROC = 3
  NCPU = 1
  RoundRobin = TRUE
  Priorities = {}
  Calls = {"fork","wait","exit"}
SPECIFICATION FairSpec
PROPERTIES RunnableRuns OrphanIsReaped
