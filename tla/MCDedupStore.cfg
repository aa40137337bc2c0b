CONSTANTS
  c1 = c1
  c2 = c2
  c3 = c3
  Stage1 = Stage1
  None = None
  Testcases <- MCTestcases
  CrashSites <- MCCrashSites
  Parent <- MCParent
  IterCnt <- MCIterCnt
  Rank <- MCRank
  Contents <- MCContents
  Map <- MCMap
  PMMap <- MCPMMap
  Image <- MCImage
  MaxIter = 2
  Slow <- MCSlow
SPECIFICATION Spec
INVARIANTS JobsComplete IndInv
PROPERTIES StaysDeleted ResultsKept CoverageKept CorpusSpec
CHECK_DEADLOCK FALSE
