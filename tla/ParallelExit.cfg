CONSTANTS
  a = a
  b = b
  c = c
  d = d
  e = e
  Tasks <- MCTasks
  Cores = 2
  FailureMode = "exit"
SPECIFICATION Spec
INVARIANT FailureExits
CHECK_DEADLOCK FALSE
