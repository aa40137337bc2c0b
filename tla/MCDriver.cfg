CONSTANTS
  seed = seed
  found = found
  cs = cs
  Entries <- MCEntries
  Seeds <- MCSeeds
  TouchesPM <- MCTouchesPM
  CrashSites <- MCCrashSites
  CrashOf <- MCCrashOf
  Finj = TRUE
  MaxIter = 2
SPECIFICATION Spec
INVARIANTS IndInv StoresComplete Stage2AfterTimer ChildTold
PROPERTIES NeverBack LifecycleSpec CorpusSpec NeverLost NothingLost Stage2Starts
CHECK_DEADLOCK FALSE
