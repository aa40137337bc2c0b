CONSTANTS
  Stage1 = Stage1
  Testcases <- MCTestcases
  CrashSites <- MCCrashSites
  Parent <- MCParent
  IterCnt <- MCIterCnt
  Selected <- NotFrom2
  Cores = 1
  Finj = FALSE
  SameStart <- MCSameStart
  MayFail = FALSE
  AflMayDie = FALSE
  MaxIter = 2
SPECIFICATION FairSpec
CHECK_DEADLOCK FALSE
PROPERTY IterationEnds
