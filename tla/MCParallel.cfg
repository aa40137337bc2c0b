CONSTANTS
  a = a
  b = b
  c = c
  d = d
  e = e
  Tasks <- MCTasks
  Cores = 2
  FailureMode = "exit"
SPECIFICATION FairSpec
INVARIANTS WithinCores FewFailuresMissed IndInv
PROPERTIES Returns PoolSpec
CHECK_DEADLOCK FALSE
