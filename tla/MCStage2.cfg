CONSTANTS
  Stage1 = Stage1
  Testcases <- MCTestcases
  CrashSites <- MCCrashSites
  Parent <- MCParent
  IterCnt <- MCIterCnt
  Selected <- All
  Cores = 2
  Finj = TRUE
  SameStart <- MCSameStart
  MayFail = TRUE
  AflMayDie = TRUE
  MaxIter = 2
SPECIFICATION FairSpec
INVARIANTS RunningHasPid WithinSlots AflBounded InTime IndInv
PROPERTIES NoLostResult NoTestcaseLeaked InputsRun IterationEnds
CHECK_DEADLOCK FALSE
