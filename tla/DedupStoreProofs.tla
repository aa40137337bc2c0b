-------------------------- MODULE DedupStoreProofs --------------------------
(***************************************************************************)
(* The directories of PMFuzz, for every family of names, all contents and  *)
(* every order in which directories may be listed: types, placeholders     *)
(* that hold, images that outlive their testcases, results that reach      *)
(* @dedup, and PM maps that none of its minimizers loses.                  *)
(***************************************************************************)
EXTENDS DedupStore, TLAPS

-----------------------------------------------------------------------------
(* The operators on directories.                                           *)

(* A testcase without a text has no maps either.                           *)
LEMMA FilesAre ==
  ASSUME NEW f \in Files
  PROVE  /\ f.tc \in File /\ f.map \in File /\ f.pm \in File
         /\ f = [tc |-> f.tc, map |-> f.map, pm |-> f.pm]
         /\ f.tc = None <=> f = NoFiles
  BY ContentsAssumption DEF Files, File, NoFiles

(* Copying files over others: what is missing is as it was.                *)
LEMMA FilesOverIs ==
  ASSUME NEW f \in Files, NEW g \in Files
  PROVE  /\ FilesOver(f, g) \in Files
         /\ FilesOver(f, g).tc = None <=> f.tc = None /\ g.tc = None
         /\ FilesOver(f, NoFiles) = f /\ FilesOver(NoFiles, g) = g
<1>1. /\ f.tc \in File /\ f.map \in File /\ f.pm \in File
      /\ f = [tc |-> f.tc, map |-> f.map, pm |-> f.pm]
      /\ f.tc = None <=> f = NoFiles
  BY FilesAre
<1>2. /\ g.tc \in File /\ g.map \in File /\ g.pm \in File
      /\ g = [tc |-> g.tc, map |-> g.map, pm |-> g.pm]
      /\ g.tc = None <=> g = NoFiles
  BY FilesAre
<1>3. FilesOver(f, NoFiles) = f
  BY <1>1 DEF FilesOver, File1, NoFiles
<1>4. FilesOver(NoFiles, g) = g
  BY <1>2 DEF FilesOver, File1, NoFiles
<1>5. FilesOver(f, g).tc = None <=> f.tc = None /\ g.tc = None
  BY DEF FilesOver, File1
<1>6. FilesOver(f, g) \in Files
  <2>1. CASE f.tc = None
    BY <1>1, <1>4, <2>1
  <2>2. CASE f.tc # None
    BY <1>1, <1>2, <2>2 DEF FilesOver, File1, Files, File
  <2> QED BY <2>1, <2>2
<1> QED BY <1>3, <1>4, <1>5, <1>6

(* What the operators on directories say of one name.                      *)
LEMMA DirAt ==
  ASSUME NEW d \in Dirs, NEW e \in Dirs, NEW S, NEW n \in Testcases
  PROVE  /\ d[n] \in Files
         /\ n \in Has(d) <=> d[n].tc # None
         /\ n \notin Has(d) <=> d[n] = NoFiles
         /\ Over(d, e)[n] = FilesOver(d[n], e[n])
         /\ n \notin Has(d) => Over(d, e)[n] = e[n]
         /\ n \notin Has(e) => Over(d, e)[n] = d[n]
         /\ Without(d, S)[n] = IF n \in S THEN NoFiles ELSE d[n]
         /\ Only(d, S)[n] = IF n \in S THEN d[n] ELSE NoFiles
<1>1. d[n] \in Files /\ e[n] \in Files
  BY DEF Dirs
<1>2. Over(d, e)[n] = FilesOver(d[n], e[n])
  BY DEF Over
<1>3. /\ Without(d, S)[n] = IF n \in S THEN NoFiles ELSE d[n]
      /\ Only(d, S)[n] = IF n \in S THEN d[n] ELSE NoFiles
  BY DEF Without, Only
<1>4. /\ n \in Has(d) <=> d[n].tc # None
      /\ n \in Has(e) <=> e[n].tc # None
  BY DEF Has
<1>5. /\ d[n].tc = None <=> d[n] = NoFiles
      /\ e[n].tc = None <=> e[n] = NoFiles
  BY <1>1, FilesAre
<1>6. /\ n \notin Has(d) => Over(d, e)[n] = e[n]
      /\ n \notin Has(e) => Over(d, e)[n] = d[n]
  BY <1>1, <1>2, <1>4, <1>5, FilesOverIs
<1> QED BY <1>1, <1>2, <1>3, <1>4, <1>5, <1>6

(* Laying one directory over another (a copy), taking names away (a        *)
(* deletion) and keeping only some give directories, of the names          *)
(* expected.                                                               *)
LEMMA DirOps ==
  ASSUME NEW d \in Dirs, NEW e \in Dirs, NEW S
  PROVE  /\ Over(d, e) \in Dirs
         /\ Has(Over(d, e)) = Has(d) \cup Has(e)
         /\ Without(d, S) \in Dirs
         /\ Has(Without(d, S)) = Has(d) \ S
         /\ Only(d, S) \in Dirs
         /\ Has(Only(d, S)) = Has(d) \cap S
<1>1. NoFiles \in Files /\ NoFiles.tc = None
  BY DEF Files, NoFiles
<1>2. \A n \in Testcases : d[n] \in Files /\ e[n] \in Files
  BY DEF Dirs
<1>3. \A n \in Testcases :
        /\ FilesOver(d[n], e[n]) \in Files
        /\ FilesOver(d[n], e[n]).tc = None <=> d[n].tc = None /\ e[n].tc = None
  BY <1>2, FilesOverIs
<1>4. Over(d, e) \in Dirs /\ Has(Over(d, e)) = Has(d) \cup Has(e)
  BY <1>3 DEF Dirs, Over, Has
<1>5. Without(d, S) \in Dirs /\ Has(Without(d, S)) = Has(d) \ S
  BY <1>1, <1>2 DEF Dirs, Without, Has
<1>6. Only(d, S) \in Dirs /\ Has(Only(d, S)) = Has(d) \cap S
  BY <1>1, <1>2 DEF Dirs, Only, Has
<1> QED BY <1>4, <1>5, <1>6

(* A copy has what the original had, where the one copied over agrees.     *)
LEMMA OverWithin ==
  ASSUME NEW f, NEW g, NEW h, Within(f, h), Within(g, h)
  PROVE  /\ Within(FilesOver(f, g), h)
         /\ Within(g, FilesOver(f, g))
  BY DEF Within, FilesOver, File1

(* A directory as makedirs leaves it.                                      *)
LEMMA EmptyDir == Empty \in Dirs /\ Has(Empty) = {}
  BY DEF Dirs, Empty, Has, Files, NoFiles

(* What update_global leaves in @dedup: all it had, as it was, and the     *)
(* names of src that have no placeholder.                                  *)
LEMMA GlobalIs ==
  ASSUME TypeOK, NEW src \in Dirs
  PROVE  /\ GlobalAfter(src) \in Dirs
         /\ NewInGlobal(src) \subseteq Has(src)
         /\ NewInGlobal(src) \cap (Has(gbl) \cup del) = {}
         /\ Has(GlobalAfter(src)) = Has(gbl) \cup NewInGlobal(src)
         /\ Has(src) \subseteq Has(GlobalAfter(src)) \cup del
         /\ \A n \in Has(gbl) : GlobalAfter(src)[n] = gbl[n]
         /\ \A n \in NewInGlobal(src) : GlobalAfter(src)[n] = src[n]
<1> DEFINE new == NewInGlobal(src)
<1>1. /\ gbl \in Dirs /\ Only(src, new) \in Dirs
      /\ Has(Only(src, new)) = Has(src) \cap new
  BY DirOps DEF TypeOK
<1>2. new \subseteq Has(src) /\ new \cap (Has(gbl) \cup del) = {}
  BY DEF NewInGlobal
<1>3. GlobalAfter(src) \in Dirs /\ Has(GlobalAfter(src)) = Has(gbl) \cup new
  <2>1. GlobalAfter(src) = Over(Only(src, new), gbl)
    BY DEF GlobalAfter
  <2> HIDE DEF new
  <2> QED BY <1>1, <1>2, <2>1, DirOps
<1>4. Has(src) \subseteq Has(gbl) \cup new \cup del
  BY DEF NewInGlobal
<1>5. Has(src) \subseteq Testcases /\ Has(gbl) \subseteq Testcases
  BY DEF Has
<1>6. \A n \in Has(gbl) : GlobalAfter(src)[n] = gbl[n]
  <2> SUFFICES ASSUME NEW n \in Has(gbl) PROVE GlobalAfter(src)[n] = gbl[n]
    OBVIOUS
  <2>1. n \in Testcases /\ n \notin Has(Only(src, new))
    BY <1>1, <1>2, <1>5
  <2>2. GlobalAfter(src) = Over(Only(src, new), gbl)
    BY DEF GlobalAfter
  <2> HIDE DEF new
  <2> QED BY <1>1, <2>1, <2>2, DirAt
<1>7. \A n \in new : GlobalAfter(src)[n] = src[n]
  <2> SUFFICES ASSUME NEW n \in new PROVE GlobalAfter(src)[n] = src[n]
    OBVIOUS
  <2>1. n \in Testcases /\ n \notin Has(gbl)
    BY <1>2, <1>5
  <2>2. GlobalAfter(src)[n] = Only(src, new)[n]
    BY <1>1, <2>1, DirAt DEF GlobalAfter
  <2> QED BY <2>1, <2>2, DirAt
<1> QED BY <1>2, <1>3, <1>4, <1>6, <1>7

(* What the minimizers leave in a directory, as it was.                    *)
LEMMA WithoutIs ==
  ASSUME NEW d \in Dirs, NEW S
  PROVE  /\ Without(d, S) \in Dirs
         /\ Has(Without(d, S)) = Has(d) \ S
         /\ \A n \in Has(d) \ S : Without(d, S)[n] = d[n]
<1>1. Without(d, S) \in Dirs /\ Has(Without(d, S)) = Has(d) \ S
  BY DirOps
<1>2. \A n \in Has(d) \ S : n \in Testcases /\ n \notin S
  BY DEF Has
<1> QED BY <1>1, <1>2, DirAt

(* The maps of a directory that has the same files of the names it has.    *)
LEMMA MapsOfPart ==
  ASSUME NEW d, NEW e, Has(e) \subseteq Has(d),
         \A n \in Has(e) : e[n] = d[n], Has(d) \subseteq HasMap(d)
  PROVE  Has(e) \subseteq HasMap(e)
BY DEF HasMap
-----------------------------------------------------------------------------
(* The state in which stage 2 first runs.                                  *)
LEMMA InitInv == Init => TypeOK /\ JobsComplete
<1> SUFFICES ASSUME Init PROVE TypeOK /\ JobsComplete
  OBVIOUS
<1> USE DEF Init
<1>1. 1 \in 1..(MaxIter + 1) /\ 1 <= MaxIter
  BY ContentsAssumption
<1>2. TypeOK
  BY <1>1, EmptyDir DEF TypeOK
<1>3. JobsComplete
  BY EmptyDir DEF JobsComplete
<1> QED BY <1>2, <1>3

(* An abort leaves everything as it is.                                    *)
LEMMA AbortStep ==
  ASSUME TypeOK, JobsComplete, Abort, pc # "bound"
  PROVE  TypeOK' /\ JobsComplete' /\ del \subseteq del' /\ iter' = iter
<1>1. /\ pc' = "aborted"
      /\ UNCHANGED <<stable, iter, queue, tcs, loc, gbl, gimg, del, limg, lcs,
                     gcs, jcs, done, seen, reused>>
  BY DEF Abort
<1>2. /\ Has(gbl)' = Has(gbl) /\ Has(loc)' = Has(loc)
      /\ HasMap(loc)' = HasMap(loc)
  BY <1>1 DEF Has, HasMap
<1> QED BY <1>1, <1>2 DEF TypeOK, JobsComplete

(* minimize_corpus_lcl takes testcases away, and leaves a placeholder for  *)
(* each it takes from @dedup.                                              *)
LEMMA MinimizeStep ==
  ASSUME TypeOK, NEW dir \in Dirs, MinimizeLocal(dir)
  PROVE  /\ tcs' \in Dirs /\ gbl' \in Dirs
         /\ \E dropped \in SUBSET Has(gbl) :
              /\ Has(gbl') = Has(gbl) \ dropped
              /\ del' = del \cup dropped
         /\ \A n \in Has(gbl') : gbl'[n] = gbl[n]
         /\ gimg' = gimg
<1>1. PICK dropped \in SUBSET Testcases :
        /\ tcs'  = Without(dir, dropped)
        /\ gbl'  = Without(gbl, dropped)
        /\ gimg' = gimg
        /\ del'  = del \cup (dropped \cap Has(gbl))
  BY DEF MinimizeLocal, ImagesAfterDrop, Has
<1>2. gbl \in Dirs
  BY DEF TypeOK
<1>3. /\ tcs' \in Dirs /\ gbl' \in Dirs /\ Has(gbl') = Has(gbl) \ dropped
      /\ \A n \in Has(gbl') : gbl'[n] = gbl[n]
  BY <1>1, <1>2, WithoutIs
<1>4. Has(gbl') = Has(gbl) \ (dropped \cap Has(gbl))
  BY <1>3
<1> QED BY <1>1, <1>3, <1>4

(* The results of a job, deduplicated or not, are a directory.             *)
LEMMA Fewest ==
  ASSUME NEW d \in Dirs, NEW f \in FewestAncestors(d)
  PROVE  f \in Dirs
<1>1. \E K : f = Only(d, K)
  BY DEF FewestAncestors
<1> QED BY <1>1, DirOps

(* A termination that collects.                                            *)
LEMMA CollectStep ==
  ASSUME TypeOK, JobsComplete, NEW j \in Jobs, Collect(j),
         pc \in {"scan", "kill_all"}
  PROVE  /\ TypeOK' /\ JobsComplete' /\ del \subseteq del' /\ iter' = iter
         /\ gimg' = gimg
         /\ \E dropped \in SUBSET Has(gbl) :
              Has(gbl') = Has(gbl) \ dropped /\ del' = del \cup dropped
<1>1. Over(Results(j), tcs) \in Dirs
  BY DirOps DEF TypeOK, Results
<1>2. PICK dir \in Dirs : MinimizeLocal(dir)
  BY <1>1, Fewest DEF Collect
<1>3. /\ tcs' \in Dirs /\ gbl' \in Dirs
      /\ \E dropped \in SUBSET Has(gbl) :
           Has(gbl') = Has(gbl) \ dropped /\ del' = del \cup dropped
      /\ \A n \in Has(gbl') : gbl'[n] = gbl[n]
      /\ gimg' = gimg
  BY <1>2, MinimizeStep
<1>4. /\ Has(gbl') \subseteq Has(gbl) /\ del \subseteq del'
      /\ del' \subseteq Testcases \ Has(gbl')
  BY <1>3 DEF TypeOK, Has
<1>5. lcs' \subseteq CrashSites
  BY DEF Collect, DistinctCrashes, OneOfEach, CrashesOf, TypeOK
<1>6. limg' \subseteq Testcases
  BY DEF Collect, TypeOK, Has
<1>7. /\ done' = done \cup {j}
      /\ UNCHANGED <<stable, iter, queue, loc, gcs, jcs, seen, reused, pc>>
  BY DEF Collect
<1>8. TypeOK'
  BY <1>3, <1>4, <1>5, <1>6, <1>7 DEF TypeOK
<1>9. JobsComplete'
  <2>1. Has(gbl) \subseteq HasMap(gbl)
    BY DEF JobsComplete
  <2>2. Has(gbl') \subseteq HasMap(gbl')
    BY <1>3, <1>4, <2>1, MapsOfPart
  <2> QED BY <1>3, <1>4, <1>7, <2>2 DEF JobsComplete
<1> QED BY <1>3, <1>4, <1>7, <1>8, <1>9

(* A termination.                                                          *)
LEMMA TerminateStep ==
  ASSUME TypeOK, JobsComplete, NEW j \in Jobs, Terminate(j)
  PROVE  TypeOK' /\ JobsComplete' /\ del \subseteq del' /\ iter' = iter
<1>1. pc \in {"scan", "kill_all"} /\ (Collect(j) \/ Abort)
  BY DEF Terminate
<1> QED BY <1>1, CollectStep, AbortStep

(* What the end of an iteration offers, and makes of @dedup: everything    *)
(* AFL has saved in it.                                                    *)
LEMMA MergedIs ==
  ASSUME TypeOK
  PROVE  /\ Offer \in Dirs /\ Merged \in Dirs
         /\ NewInGlobal(Offer) \subseteq Testcases
         /\ NewInGlobal(Offer) \cap (Has(gbl) \cup del) = {}
         /\ Has(Merged) = Has(gbl) \cup NewInGlobal(Offer)
         /\ Has(queue) \ Found1 \subseteq Has(Merged) \cup del
         /\ \A n \in Has(gbl) : Merged[n] = gbl[n]
         /\ \A n \in NewInGlobal(Offer) : Merged[n] = Offer[n]
<1>1. tcs \in Dirs /\ Orphans \in Dirs /\ Offer \in Dirs
  BY DirOps DEF TypeOK, Orphans, Offer
<1>2. /\ Has(Offer) = Has(tcs) \cup Has(Orphans)
      /\ Has(Orphans) = Has(queue) \cap (Testcases \ (Found1 \cup Has(tcs)))
  BY <1>1, DirOps DEF TypeOK, Orphans, Offer
<1>3. Has(queue) \ Found1 \subseteq Has(Offer)
  BY <1>2 DEF Has
<1>4. Has(Offer) \subseteq Testcases
  BY DEF Has
<1> QED BY <1>1, <1>3, <1>4, GlobalIs DEF Merged

(* The end of an iteration: nothing is lost, and no placeholder goes.      *)
LEMMA EndStep ==
  ASSUME TypeOK, JobsComplete, EndIteration
  PROVE  /\ TypeOK' /\ JobsComplete' /\ del \subseteq del'
         /\ Has(queue) \ Found1 \subseteq Has(gbl') \cup del'
<1> DEFINE new == NewInGlobal(Offer)
<1>1. /\ Merged \in Dirs /\ new \subseteq Testcases
      /\ new \cap (Has(gbl) \cup del) = {}
      /\ Has(Merged) = Has(gbl) \cup new
      /\ Has(queue) \ Found1 \subseteq Has(Merged) \cup del
  BY MergedIs
<1>2. PICK dropped \in SUBSET Has(Merged) :
        /\ gbl'  = Without(Merged, dropped)
        /\ del'  = del \cup dropped
        /\ gimg' = gimg \cup new
  BY DEF EndIteration, ImagesAfterDrop
<1>3. /\ gbl' \in Dirs /\ Has(gbl') = Has(Merged) \ dropped
      /\ \A n \in Has(gbl') : gbl'[n] = Merged[n]
  BY <1>1, <1>2, WithoutIs
<1>4. /\ gcs' = gcs \cup lcs /\ UNCHANGED <<stable, reused>>
      /\ queue' = Only(queue, Found1)
      /\ tcs' = Empty /\ loc' = Empty /\ limg' = {}
      /\ lcs' = {} /\ jcs' = {} /\ done' = {} /\ iter' = iter + 1
      /\ pc' = IF iter = MaxIter THEN "bound" ELSE "resume"
      /\ pc = "kill_all" /\ CanMinimize
  BY DEF EndIteration, UpdateGlobal, Ending
<1> HIDE DEF new
<1>5. TypeOK'
  <2>1. iter \in 1..MaxIter /\ MaxIter \in Nat
    BY <1>4, ContentsAssumption DEF TypeOK
  <2>2. /\ iter' \in 1..(MaxIter + 1)
        /\ pc' # "bound" => iter' <= MaxIter
        /\ pc' \in {"bound", "resume"}
    BY <1>4, <2>1
  <2>3. queue' \in Dirs
    BY <1>4, DirOps DEF TypeOK
  <2>4. gimg' \subseteq Testcases /\ del' \subseteq Testcases \ Has(gbl')
    <3>1. Has(Merged) \subseteq Testcases
      BY DEF Has
    <3> QED BY <1>1, <1>2, <1>3, <3>1 DEF TypeOK
  <2> QED BY <1>3, <1>4, <2>2, <2>3, <2>4, EmptyDir DEF TypeOK
<1>6. JobsComplete'
  <2>1. Has(Merged) \subseteq HasMap(Merged)
    BY <1>4 DEF CanMinimize
  <2>2. Has(gbl') \subseteq HasMap(gbl')
    BY <1>3, <2>1, MapsOfPart
  <2>3. Has(loc') = {} /\ Has(gbl') \subseteq gimg'
    BY <1>1, <1>2, <1>3, <1>4, EmptyDir DEF JobsComplete
  <2> QED BY <2>2, <2>3 DEF JobsComplete
<1> QED BY <1>1, <1>2, <1>3, <1>5, <1>6

(* An iteration that ends with an exec map missing, or with nothing in     *)
(* @dedup.                                                                 *)
LEMMA MinimizeAbortsStep ==
  ASSUME TypeOK, JobsComplete, MinimizeAborts
  PROVE  TypeOK' /\ JobsComplete' /\ del \subseteq del' /\ iter' = iter
<1> DEFINE new == NewInGlobal(Offer)
<1>1. /\ Merged \in Dirs /\ new \subseteq Testcases
      /\ new \cap (Has(gbl) \cup del) = {}
      /\ Has(Merged) = Has(gbl) \cup new
  BY MergedIs
<1>2. /\ gbl' = Merged /\ gimg' = gimg \cup new /\ pc' = "aborted"
      /\ gcs' = gcs \cup lcs
      /\ UNCHANGED <<stable, iter, queue, tcs, loc, del, limg, lcs, jcs, done,
                     reused>>
      /\ pc = "kill_all"
  BY DEF MinimizeAborts, UpdateGlobal, Ending
<1> HIDE DEF new
<1>3. TypeOK'
  BY <1>1, <1>2 DEF TypeOK
<1>4. /\ Has(loc)' = Has(loc) /\ HasMap(loc)' = HasMap(loc)
      /\ Has(gbl)' = Has(Merged)
  BY <1>2 DEF Has, HasMap
<1>5. JobsComplete'
  BY <1>1, <1>2, <1>4 DEF JobsComplete
<1> QED BY <1>2, <1>3, <1>5
-----------------------------------------------------------------------------
(* Every other step: update_global after stage 1, update_local, AFL.       *)

(* update_global on what stage 1 has found.                                *)
LEMMA CollectStage1Step ==
  ASSUME TypeOK, JobsComplete, CollectStage1
  PROVE  TypeOK' /\ JobsComplete' /\ del \subseteq del' /\ iter' = iter
<1> DEFINE src == Only(queue, Found1)
<1>1. queue \in Dirs /\ src \in Dirs /\ Has(src) = Has(queue) \cap Found1
  BY DirOps DEF TypeOK
<1>2. /\ GlobalAfter(src) \in Dirs
      /\ NewInGlobal(src) \subseteq Has(src)
      /\ Has(GlobalAfter(src)) = Has(gbl) \cup NewInGlobal(src)
      /\ NewInGlobal(src) \cap (Has(gbl) \cup del) = {}
      /\ \A n \in Has(gbl) : GlobalAfter(src)[n] = gbl[n]
      /\ \A n \in NewInGlobal(src) : GlobalAfter(src)[n] = src[n]
  BY <1>1, GlobalIs
<1>3. /\ gbl' = GlobalAfter(src) /\ gimg' = gimg \cup NewInGlobal(src)
      /\ NewInGlobal(src) \subseteq HasMap(queue)
      /\ pc = "loop" /\ pc' = "check"
      /\ UNCHANGED <<stable, iter, queue, tcs, loc, del, limg, lcs, jcs, done,
                     reused>>
  BY DEF CollectStage1, NewOfStage1
<1>4. gcs \subseteq gcs' /\ gcs' \subseteq CrashSites
  BY DEF CollectStage1, CrashesOf, TypeOK
<1>5. Has(src) \subseteq Testcases
  BY DEF Has
<1>6. TypeOK'
  BY <1>2, <1>3, <1>4, <1>5 DEF TypeOK
<1>7. \A n \in NewInGlobal(src) : src[n] = queue[n]
  BY <1>1, <1>2, <1>5, DirAt
<1> HIDE DEF src
<1>8. JobsComplete'
  <2>1. Has(loc') = Has(loc) /\ Has(gbl') = Has(gbl) \cup NewInGlobal(src)
    BY <1>2, <1>3
  <2>2. Has(gbl') \subseteq HasMap(gbl')
    <3> SUFFICES ASSUME NEW n \in Has(gbl') PROVE gbl'[n].map # None
      BY DEF HasMap
    <3>1. CASE n \in Has(gbl)
      BY <1>2, <1>3, <3>1 DEF JobsComplete, HasMap
    <3>2. CASE n \in NewInGlobal(src)
      BY <1>2, <1>3, <1>7, <3>2 DEF HasMap
    <3> QED BY <2>1, <3>1, <3>2
  <2> QED BY <1>3, <2>1, <2>2 DEF JobsComplete
<1> QED BY <1>3, <1>6, <1>8

(* What update_local lays over @dedup_sync.                                *)
LEMMA LocalIs ==
  ASSUME TypeOK
  PROVE  /\ Over(loc, Only(gbl, ToLocal)) \in Dirs
         /\ ToLocal \subseteq Has(gbl) /\ ToLocal \cap Has(loc) = {}
         /\ Has(Over(loc, Only(gbl, ToLocal))) = Has(loc) \cup ToLocal
         /\ \A n \in Has(loc) : Over(loc, Only(gbl, ToLocal))[n] = loc[n]
         /\ \A n \in ToLocal : Over(loc, Only(gbl, ToLocal))[n] = gbl[n]
<1>1. /\ loc \in Dirs /\ gbl \in Dirs /\ Only(gbl, ToLocal) \in Dirs
      /\ Has(Only(gbl, ToLocal)) = Has(gbl) \cap ToLocal
  BY DirOps DEF TypeOK
<1>2. ToLocal \subseteq Has(gbl) /\ ToLocal \cap Has(loc) = {}
  BY DEF ToLocal, Has
<1>3. Has(loc) \subseteq Testcases /\ Has(gbl) \subseteq Testcases
  BY DEF Has
<1>4. /\ Over(loc, Only(gbl, ToLocal)) \in Dirs
      /\ Has(Over(loc, Only(gbl, ToLocal))) = Has(loc) \cup ToLocal
  BY <1>1, <1>2, DirOps
<1>5. ASSUME NEW n \in Has(loc)
      PROVE  Over(loc, Only(gbl, ToLocal))[n] = loc[n]
  <2>1. n \in Testcases /\ n \notin Has(Only(gbl, ToLocal))
    BY <1>1, <1>2, <1>3
  <2> QED BY <1>1, <2>1, DirAt
<1>6. ASSUME NEW n \in ToLocal
      PROVE  Over(loc, Only(gbl, ToLocal))[n] = gbl[n]
  <2>1. n \in Testcases /\ n \notin Has(loc)
    BY <1>2, <1>3
  <2>2. Over(loc, Only(gbl, ToLocal))[n] = Only(gbl, ToLocal)[n]
    BY <1>1, <2>1, DirAt
  <2>3. Only(gbl, ToLocal)[n] = gbl[n]
    BY <1>1, <2>1, DirAt
  <2> QED BY <2>2, <2>3
<1> QED BY <1>2, <1>4, <1>5, <1>6

(* update_local, from the driver or from the head of resume, never aborts. *)
LEMMA UpdateLocalStep ==
  ASSUME TypeOK, JobsComplete, UpdateLocal
  PROVE  /\ TypeOK' /\ JobsComplete' /\ del \subseteq del' /\ iter' = iter
         /\ pc' = "scan" /\ UNCHANGED <<gbl, gimg, del>>
<1>1. pc = "resume" /\ ToLocal \subseteq gimg \cap HasMap(gbl)
  BY DEF UpdateLocal, ToLocal, JobsComplete
<1>2. /\ loc' = Over(loc, Only(gbl, ToLocal))
      /\ jcs' = jcs \cup gcs /\ pc' = "scan"
      /\ UNCHANGED <<stable, iter, queue, tcs, gbl, gimg, del, limg, lcs, gcs,
                     done, seen, reused>>
  BY <1>1 DEF UpdateLocal
<1>3. /\ loc' \in Dirs /\ Has(loc') = Has(loc) \cup ToLocal
      /\ \A n \in Has(loc) : loc'[n] = loc[n]
      /\ \A n \in ToLocal : loc'[n] = gbl[n]
  BY <1>2, LocalIs
<1>4. TypeOK'
  BY <1>1, <1>2, <1>3 DEF TypeOK
<1>5. JobsComplete'
  <2>1. Has(loc') \subseteq HasMap(loc')
    BY <1>1, <1>3 DEF HasMap, JobsComplete
  <2>2. Has(gbl)' = Has(gbl) /\ HasMap(gbl)' = HasMap(gbl)
    BY <1>2 DEF Has, HasMap
  <2> QED BY <1>1, <1>2, <1>3, <2>1, <2>2 DEF JobsComplete
<1> QED BY <1>2, <1>4, <1>5

(* What AFL saves of a testcase: one more file.                            *)
LEMMA NextFileIs ==
  ASSUME TypeOK, NEW n \in Testcases, NEW files \in NextFile(n),
         queue[n].pm = None
  PROVE  files \in Files /\ files.tc # None /\ Within(queue[n], files)
<1>1. queue[n] \in Files
  BY DEF TypeOK, Dirs
<1>2. CASE queue[n].tc = None
  <2>1. queue[n] = NoFiles
    BY <1>1, <1>2, FilesAre
  <2>2. \E c \in Contents : files \in {Whole(c), [NoFiles EXCEPT !.tc = c]}
    BY <1>2 DEF NextFile
  <2> QED
    BY <2>1, <2>2, ContentsAssumption DEF Whole, NoFiles, Files, File, Within
<1>3. CASE queue[n].tc # None
  <2>1. queue[n] \in [tc : Contents, map : File, pm : File]
    BY <1>1, <1>3 DEF Files, NoFiles
  <2>2. \/ queue[n].map = None /\ files = [queue[n] EXCEPT !.map = queue[n].tc]
        \/ queue[n].map # None /\ files = [queue[n] EXCEPT !.pm = queue[n].tc]
    BY <1>3 DEF NextFile
  <2> QED BY <1>3, <2>1, <2>2 DEF Files, File, Within
<1> QED BY <1>2, <1>3

(* AFL saves a testcase in the queue of a running job.                     *)
LEMMA AflSavesStep ==
  ASSUME TypeOK, JobsComplete, NEW n \in Testcases, AflSaves(n)
  PROVE  /\ TypeOK' /\ JobsComplete' /\ del \subseteq del' /\ iter' = iter
         /\ UNCHANGED <<gbl, gimg, del>>
<1>1. PICK files \in NextFile(n) : queue' = [queue EXCEPT ![n] = files]
  BY DEF AflSaves
<1>2. queue' \in Dirs
  <2>1. files \in Files
    BY NextFileIs DEF AflSaves
  <2> QED BY <1>1, <2>1 DEF TypeOK, Dirs
<1>3. /\ UNCHANGED <<stable, iter, tcs, loc, gbl, gimg, del, limg, lcs, gcs,
                      jcs, done, seen, pc>>
      /\ reused' \in BOOLEAN
  BY DEF AflSaves
<1>4. TypeOK'
  BY <1>2, <1>3 DEF TypeOK
<1>5. JobsComplete'
  BY <1>3 DEF JobsComplete, Has, HasMap
<1> QED BY <1>3, <1>4, <1>5

(* Every step keeps the invariant, and does what the action properties     *)
(* say.                                                                    *)
LEMMA Step ==
  ASSUME TypeOK, JobsComplete, [Next]_vars
  PROVE  /\ TypeOK' /\ JobsComplete' /\ del \subseteq del'
         /\ iter' # iter =>
              Has(queue) \ Found1 \subseteq Has(gbl') \cup del'
<1> DEFINE Goal == /\ TypeOK' /\ JobsComplete' /\ del \subseteq del'
                   /\ iter' # iter =>
                        Has(queue) \ Found1 \subseteq Has(gbl') \cup del'
<1>1. CASE CollectStage1
  BY <1>1, CollectStage1Step
<1>2. CASE CollectStage1Aborts \/ CollectionAborts
  BY <1>2, AbortStep DEF CollectStage1Aborts, CollectionAborts, Ending
<1>3. CASE CheckCompleted
  BY <1>3 DEF CheckCompleted, TypeOK, JobsComplete, Has, HasMap
<1>4. CASE UpdateLocal
  BY <1>4, UpdateLocalStep
<1>5. CASE EndScan
  BY <1>5 DEF EndScan, TypeOK, JobsComplete, Has, HasMap
<1>6. CASE MinimizeAborts
  BY <1>6, MinimizeAbortsStep
<1>7. CASE EndIteration
  BY <1>7, EndStep
<1>8. ASSUME NEW j \in Jobs, Terminate(j) PROVE Goal
  BY <1>8, TerminateStep
<1>9. ASSUME NEW n \in Testcases, AflSaves(n) PROVE Goal
  BY <1>9, AflSavesStep
<1>10. CASE UNCHANGED vars
  BY <1>10 DEF vars, TypeOK, JobsComplete, Has, HasMap
<1> QED
  BY <1>1, <1>2, <1>3, <1>4, <1>5, <1>6, <1>7, <1>8, <1>9, <1>10 DEF Next
-----------------------------------------------------------------------------
(* The invariant behind the theorems on the stores: the types, and the     *)
(* images and exec maps that dedup.py relies on.                           *)
THEOREM Invariance == Spec => [](TypeOK /\ JobsComplete)
<1>1. Init => TypeOK /\ JobsComplete
  BY InitInv
<1>2. TypeOK /\ JobsComplete /\ [Next]_vars => (TypeOK /\ JobsComplete)'
  BY Step
<1> QED BY <1>1, <1>2, PTL DEF Spec

(* Types, and no name has both a testcase and a placeholder in @dedup.     *)
THEOREM TypeCorrect == Spec => []TypeOK
  BY Invariance, PTL

(* However testcases are minimized away, and whatever of them was saved    *)
(* when they were collected, the images of @dedup cover all that is there  *)
(* and all that is being fuzzed, and every job has its exec map.           *)
THEOREM JobsHaveFiles == Spec => []JobsComplete
  BY Invariance, PTL

(* So the sanity check of update_local, and its copy of the exec map,      *)
(* never fail.                                                             *)
THEOREM UpdateLocalDone ==
  Spec => [][UpdateLocal => pc' = "scan"]_vars
<1>1. TypeOK /\ JobsComplete /\ [Next]_vars
        => [UpdateLocal => pc' = "scan"]_vars
  BY UpdateLocalStep
<1> QED BY <1>1, Invariance, PTL DEF Spec

(* No step brings back a testcase that has a placeholder, or removes the   *)
(* placeholder.                                                            *)
THEOREM DeletedStaysDeleted == Spec => StaysDeleted
<1>1. TypeOK /\ JobsComplete /\ [Next]_vars
        => [\A n \in del : n \in del' /\ gbl'[n].tc = None]_vars
  <2> SUFFICES ASSUME TypeOK, JobsComplete, [Next]_vars, NEW n \in del
               PROVE  n \in del' /\ gbl'[n].tc = None
    OBVIOUS
  <2>1. TypeOK' /\ n \in del'
    BY Step
  <2> QED BY <2>1 DEF TypeOK, Has
<1> QED BY <1>1, Invariance, PTL DEF Spec, StaysDeleted

(* Whatever AFL has saved when an iteration is collected reaches @dedup.   *)
THEOREM ResultsReachGlobal == Spec => ResultsKept
<1>1. TypeOK /\ JobsComplete /\ [Next]_vars
        => [iter' # iter =>
              Has(queue) \ Found1 \subseteq Has(gbl') \cup del']_vars
  BY Step
<1> QED BY <1>1, Invariance, PTL DEF Spec, ResultsKept
-----------------------------------------------------------------------------
(* DedupStore implements Corpus.                                           *)

(* Images are those of testcases that @dedup has, or had.                  *)
Recorded == gimg \subseteq Has(gbl) \cup del

(* Names that are new and names that go make an update of the Corpus.      *)
LEMMA UpdateBy ==
  ASSUME Recorded,
         NEW new \in SUBSET Testcases, new \cap (Has(gbl) \cup del) = {},
         NEW gone \in SUBSET (Has(gbl) \cup new),
         Has(gbl)' = (Has(gbl) \cup new) \ gone,
         gimg' = gimg \cup new, del' = del \cup gone
  PROVE  Recorded' /\ TheCorpus!Update
<1>1. new \in SUBSET (Testcases \ gimg)
  BY DEF Recorded
<1> QED BY <1>1 DEF Recorded, TheCorpus!Update

(* Every step is an update of the Corpus, or leaves it alone.              *)
LEMMA CorpusStep ==
  ASSUME TypeOK, JobsComplete, Recorded, [Next]_vars
  PROVE  Recorded' /\ [TheCorpus!Update]_(TheCorpus!vars)
<1> DEFINE Goal == Recorded' /\ [TheCorpus!Update]_(TheCorpus!vars)
<1>1. CASE UNCHANGED <<gbl, gimg, del>>
  BY <1>1 DEF Recorded, TheCorpus!vars, Has
<1>2. CASE CollectStage1
  <2> DEFINE src == Only(queue, Found1)
             new == NewInGlobal(src)
  <2>1. src \in Dirs
    BY DirOps DEF TypeOK
  <2>2. /\ Has(gbl)' = Has(gbl) \cup new
        /\ gimg' = gimg \cup new /\ del' = del
        /\ new \cap (Has(gbl) \cup del) = {} /\ new \subseteq Has(src)
    BY <1>2, <2>1, GlobalIs DEF CollectStage1, NewOfStage1
  <2>3. Has(src) \subseteq Testcases
    BY DEF Has
  <2> HIDE DEF src, new
  <2>4. /\ {} \in SUBSET (Has(gbl) \cup new)
        /\ Has(gbl)' = (Has(gbl) \cup new) \ {}
        /\ del' = del \cup {} /\ new \in SUBSET Testcases
    BY <2>2, <2>3
  <2> QED BY <2>2, <2>4, UpdateBy
<1>3. ASSUME NEW j \in Jobs, Collect(j), pc \in {"scan", "kill_all"}
      PROVE  Goal
  <2>1. /\ gimg' = gimg
        /\ \E dropped \in SUBSET Has(gbl) :
             Has(gbl') = Has(gbl) \ dropped /\ del' = del \cup dropped
    BY <1>3, CollectStep
  <2>2. PICK gone \in SUBSET Has(gbl) :
          Has(gbl') = Has(gbl) \ gone /\ del' = del \cup gone
    BY <2>1
  <2>3. /\ {} \in SUBSET Testcases /\ {} \cap (Has(gbl) \cup del) = {}
        /\ gimg' = gimg \cup {}
        /\ gone \in SUBSET (Has(gbl) \cup {})
        /\ Has(gbl)' = (Has(gbl) \cup {}) \ gone
    BY <2>1, <2>2
  <2> QED BY <2>2, <2>3, UpdateBy
<1>4. ASSUME NEW dropped \in SUBSET Has(Merged),
             Has(gbl)' = Has(Merged) \ dropped,
             del' = del \cup dropped,
             gimg' = gimg \cup NewInGlobal(Offer)
      PROVE  Goal
  <2> DEFINE new == NewInGlobal(Offer)
  <2>1. /\ new \subseteq Testcases /\ new \cap (Has(gbl) \cup del) = {}
        /\ Has(Merged) = Has(gbl) \cup new
    BY MergedIs
  <2> HIDE DEF new
  <2>2. /\ new \in SUBSET Testcases /\ dropped \in SUBSET (Has(gbl) \cup new)
        /\ Has(gbl)' = (Has(gbl) \cup new) \ dropped
        /\ gimg' = gimg \cup new
    BY <1>4, <2>1 DEF new
  <2> QED BY <1>4, <2>1, <2>2, UpdateBy
<1>5. CASE MinimizeAborts
  <2>1. /\ Has(gbl)' = Has(Merged) /\ del' = del
        /\ gimg' = gimg \cup NewInGlobal(Offer)
    BY <1>5 DEF MinimizeAborts
  <2>2. /\ {} \in SUBSET Has(Merged) /\ Has(gbl)' = Has(Merged) \ {}
        /\ del' = del \cup {}
    BY <2>1
  <2> QED BY <1>4, <2>1, <2>2
<1>6. CASE EndIteration
  <2>1. PICK dropped \in SUBSET Has(Merged) :
          /\ gbl' = Without(Merged, dropped) /\ del' = del \cup dropped
          /\ gimg' = gimg \cup NewInGlobal(Offer)
    BY <1>6 DEF EndIteration, ImagesAfterDrop
  <2>2. Has(gbl)' = Has(Merged) \ dropped
    BY <2>1, MergedIs, WithoutIs
  <2> QED BY <1>4, <2>1, <2>2
<1>7. ASSUME \/ CollectStage1Aborts \/ CollectionAborts \/ CheckCompleted
             \/ UpdateLocal \/ EndScan \/ UNCHANGED vars \/ Abort
             \/ \E n \in Testcases : AflSaves(n)
      PROVE  UNCHANGED <<gbl, gimg, del>>
  BY <1>7 DEF CollectStage1Aborts, CollectionAborts, CheckCompleted,
              UpdateLocal, EndScan, AflSaves, Abort, vars
<1>8. ASSUME NEW j \in Jobs, Terminate(j) PROVE Goal
  BY <1>1, <1>3, <1>7, <1>8 DEF Terminate
<1> QED BY <1>1, <1>2, <1>5, <1>6, <1>7, <1>8 DEF Next

(* Whatever is collected, minimized or fuzzed again, @dedup keeps to the   *)
(* promise of Corpus: no name is stored twice, no image ever goes.         *)
THEOREM ImplementsCorpus == Spec => CorpusSpec
<1>1. Init => Recorded /\ TheCorpus!Init
  BY EmptyDir DEF Init, Recorded, TheCorpus!Init
<1>2. TypeOK /\ JobsComplete /\ Recorded /\ [Next]_vars => Recorded'
  BY CorpusStep
<1>3. TypeOK /\ JobsComplete /\ Recorded /\ [Next]_vars
        => [TheCorpus!Update]_(TheCorpus!vars)
  BY CorpusStep
<1> QED
  BY <1>1, <1>2, <1>3, Invariance, PTL DEF Spec, CorpusSpec, TheCorpus!Spec

(* So what follows from Corpus holds of @dedup: at any time its images are *)
(* those of the testcases that are there and of those that have been       *)
(* minimized away.                                                         *)
THEOREM ImagesOfAll == Spec => []TheCorpus!Promise
  BY ImplementsCorpus, TheCorpus!PromiseKept, PTL DEF CorpusSpec
-----------------------------------------------------------------------------
(* Minimization keeps the coverage.                                        *)

(* pmfuzz-cmin keeps, for each testcase with a PM map, one with the same,  *)
(* listed no later where listings are stable; and all without a PM map.    *)
LEMMA CminKeeps ==
  ASSUME NEW d, NEW K \in Cmin(d)
  PROVE  /\ K \subseteq Has(d) /\ Has(d) \ HasPM(d) \subseteq K
         /\ \A n \in HasPM(d) : \E k \in K \cap HasPM(d) :
              PMMap[d[k].pm] = PMMap[d[n].pm]
         /\ stable => \A k \in K \cap HasPM(d), n \in HasPM(d) :
              PMMap[d[n].pm] = PMMap[d[k].pm] => Rank[k] <= Rank[n]
<1> DEFINE class == [n \in HasPM(d) |-> PMMap[d[n].pm]]
<1>1. PICK L \in OneOfEach(HasPM(d), class) : K = L \cup (Has(d) \ HasPM(d))
  BY DEF Cmin
<1>2. /\ L \subseteq HasPM(d)
      /\ \A n \in HasPM(d) : \E k \in L : class[k] = class[n]
      /\ stable => \A k \in L, m \in HasPM(d) :
                     class[m] = class[k] => Rank[k] <= Rank[m]
  BY DEF OneOfEach
<1>3. HasPM(d) \subseteq Has(d)
  BY DEF HasPM
<1>4. /\ L = K \cap HasPM(d) /\ K \subseteq Has(d)
      /\ Has(d) \ HasPM(d) \subseteq K
  BY <1>1, <1>2, <1>3
<1>5. \A n \in HasPM(d) : class[n] = PMMap[d[n].pm]
  OBVIOUS
<1> HIDE DEF class
<1> QED BY <1>2, <1>4, <1>5

(* So no PM map is lost to it.                                             *)
LEMMA CminCovers ==
  ASSUME NEW d \in Dirs, NEW K \in Cmin(d)
  PROVE  PMMaps(Without(d, Has(d) \ K)) = PMMaps(d)
<1> DEFINE e == Without(d, Has(d) \ K)
<1>1. /\ K \subseteq Has(d)
      /\ \A n \in HasPM(d) : \E k \in K \cap HasPM(d) :
           PMMap[d[k].pm] = PMMap[d[n].pm]
  BY CminKeeps
<1>2. Has(e) = Has(d) \ (Has(d) \ K) /\ \A n \in Has(e) : e[n] = d[n]
  BY WithoutIs
<1> HIDE DEF e
<1>3. HasPM(e) = K \cap HasPM(d)
  BY <1>1, <1>2 DEF HasPM
<1>4. \A k \in HasPM(e) : e[k] = d[k]
  BY <1>2 DEF HasPM
<1>5. PMMaps(e) = PMMaps(d)
  BY <1>1, <1>3, <1>4 DEF PMMaps
<1> QED BY <1>5 DEF e

(* Files that grow keep their PM maps.                                     *)
LEMMA PMMapsGrow ==
  ASSUME NEW d, NEW e,
         \A n \in Has(d) : n \in Has(e) /\ Within(d[n], e[n])
  PROVE  PMMaps(d) \subseteq PMMaps(e)
BY DEF PMMaps, HasPM, Within

(* Directory t over what directory q has besides, of stage 2, where t has  *)
(* no more than q.                                                         *)
LEMMA OfferOf ==
  ASSUME NEW t \in Dirs, NEW q \in Dirs, Has(t) \cap Found1 = {},
         \A n \in Testcases : Within(t[n], q[n]),
         NEW S, S = Testcases \ (Found1 \cup Has(t))
  PROVE  /\ Over(t, Only(q, S)) \in Dirs
         /\ Has(Over(t, Only(q, S))) = Has(q) \ Found1
         /\ \A n \in Has(t) : /\ n \in Has(Over(t, Only(q, S)))
                              /\ Over(t, Only(q, S))[n] = t[n]
         /\ \A n \in Has(Over(t, Only(q, S))) \ Has(t) :
              Over(t, Only(q, S))[n] = q[n]
         /\ \A n \in Has(Over(t, Only(q, S))) :
              Within(Over(t, Only(q, S))[n], q[n])
<1> DEFINE rest == Only(q, S)
           o    == Over(t, rest)
<1>1. /\ rest \in Dirs /\ o \in Dirs /\ Has(o) = Has(t) \cup Has(rest)
      /\ Has(rest) = Has(q) \cap S
  BY DirOps
<1>2. Has(t) \subseteq Has(q)
  BY DEF Within, Has
<1>3. Has(q) \subseteq Testcases
  BY DEF Has
<1>4. Has(o) = Has(q) \ Found1
  BY <1>1, <1>2, <1>3
<1>5. ASSUME NEW n \in Has(t)
      PROVE  n \in Has(o) /\ o[n] = t[n]
  <2>1. n \in Testcases /\ n \notin Has(rest)
    BY <1>1, <1>2, <1>3
  <2> QED BY <1>1, <2>1, DirAt
<1>6. ASSUME NEW n \in Has(o) \ Has(t)
      PROVE  o[n] = q[n]
  <2>1. n \in Testcases \ (Found1 \cup Has(t))
    BY <1>3, <1>4
  <2>2. o[n] = rest[n]
    BY <1>1, <2>1, DirAt
  <2>3. rest[n] = q[n]
    BY <2>1, DirAt
  <2> QED BY <2>2, <2>3
<1>7. ASSUME NEW n \in Has(o) PROVE Within(o[n], q[n])
  BY <1>3, <1>4, <1>5, <1>6 DEF Within
<1> QED BY <1>1, <1>4, <1>5, <1>6, <1>7

(* So what is offered at the end of an iteration is what AFL has saved in  *)
(* stage 2, as testcases/ has it or the queue.                             *)
LEMMA OfferIs ==
  ASSUME TypeOK, AgreeInv
  PROVE  /\ Offer \in Dirs /\ Has(Offer) = Has(queue) \ Found1
         /\ \A n \in Has(tcs) : n \in Has(Offer) /\ Offer[n] = tcs[n]
         /\ \A n \in Has(Offer) \ Has(tcs) : Offer[n] = queue[n]
         /\ \A n \in Has(Offer) : Within(Offer[n], queue[n])
<1> DEFINE S == Testcases \ (Found1 \cup Has(tcs))
<1>1. Offer = Over(tcs, Only(queue, S))
  BY DEF Offer, Orphans
<1>2. /\ tcs \in Dirs /\ queue \in Dirs /\ Has(tcs) \cap Found1 = {}
      /\ \A n \in Testcases : Within(tcs[n], queue[n])
  BY DEF TypeOK, AgreeInv
<1>3. S = Testcases \ (Found1 \cup Has(tcs))
  OBVIOUS
<1> HIDE DEF S
<1> QED BY <1>1, <1>2, <1>3, OfferOf
-----------------------------------------------------------------------------
(* AgreeInv and CoverageInv, step by step.                                 *)

(* Both speak of these variables only.                                     *)
LEMMA CoverageFrame ==
  ASSUME AgreeInv, CoverageInv, pc # "aborted",
         UNCHANGED <<stable, queue, tcs, loc, gbl, del, seen, reused>>
  PROVE  AgreeInv' /\ CoverageInv'
<1>1. /\ Has(tcs)' = Has(tcs) /\ Has(loc)' = Has(loc)
      /\ Has(gbl)' = Has(gbl) /\ HasPM(loc)' = HasPM(loc)
  BY DEF Has, HasPM
<1>2. Orphans' = Orphans
  BY <1>1 DEF Orphans
<1>3. Offer' = Offer
  BY <1>2 DEF Offer
<1>4. Has(Offer)' = Has(Offer) /\ PMMaps(Offer)' = PMMaps(Offer)
  BY <1>3 DEF PMMaps, Has, HasPM
<1>5. PMMaps(gbl)' = PMMaps(gbl)
  BY DEF PMMaps, Has, HasPM
<1>6. AgreeInv'
  BY <1>1 DEF AgreeInv
<1>7. \A n : Replaced(n)' <=> Replaced(n)
  BY <1>1, <1>4 DEF Replaced
<1> QED BY <1>1, <1>4, <1>5, <1>6, <1>7 DEF CoverageInv

(* The results of a job, with or without those it shares an exec map with: *)
(* no less than what is on offer of them, and no more than AFL has saved.  *)
LEMMA ResultsOffered ==
  ASSUME TypeOK, AgreeInv, NEW j \in Jobs,
         NEW dir \in IF j \in CrashSites
                       THEN FewestAncestors(Over(Results(j), tcs))
                       ELSE {Over(Results(j), tcs)}
  PROVE  /\ dir \in Dirs
         /\ \A n \in Has(dir) : /\ n \in Has(Offer)
                                /\ Within(Offer[n], dir[n])
                                /\ Within(dir[n], queue[n])
<1> DEFINE all == Over(Results(j), tcs)
<1>1. /\ queue \in Dirs /\ tcs \in Dirs /\ Results(j) \in Dirs
      /\ all \in Dirs /\ Has(all) = Has(Results(j)) \cup Has(tcs)
      /\ Has(Results(j)) = Has(queue) \cap Children(j)
  BY DirOps DEF TypeOK, Results
<1>2. Children(j) \cap Found1 = {}
  BY NamesAssumption DEF Children, Found1
<1>3. Has(queue) \subseteq Testcases
  BY DEF Has
<1>4. Has(all) \subseteq Has(Offer)
  BY <1>1, <1>2, OfferIs
<1>5. ASSUME NEW n \in Has(all)
      PROVE  Within(Offer[n], all[n]) /\ Within(all[n], queue[n])
  <2>1. n \in Testcases /\ n \in Has(Offer)
    BY <1>3, <1>4, OfferIs
  <2>2. Within(tcs[n], queue[n])
    BY <2>1 DEF AgreeInv
  <2>3. all[n] = FilesOver(Results(j)[n], tcs[n])
    BY <1>1, <2>1, DirAt
  <2>4. Results(j)[n] = IF n \in Children(j) THEN queue[n] ELSE NoFiles
    BY <1>1, <2>1, DirAt DEF Results
  <2>5. Within(Results(j)[n], queue[n])
    BY <2>4 DEF Within, NoFiles
  <2>6. Within(all[n], queue[n]) /\ Within(tcs[n], all[n])
    BY <2>2, <2>3, <2>5, OverWithin
  <2>7. n \in Has(tcs) => Within(Offer[n], all[n])
    BY <2>6, OfferIs
  <2>8. ASSUME n \notin Has(tcs) PROVE Within(Offer[n], all[n])
    <3>1. all[n] = Results(j)[n] /\ n \in Children(j) /\ Offer[n] = queue[n]
      BY <1>1, <2>1, <2>8, DirAt, OfferIs
    <3>2. all[n] = Offer[n]
      BY <2>4, <3>1
    <3> QED BY <3>2 DEF Within
  <2> QED BY <2>6, <2>7, <2>8
<1>6. CASE dir = all
  BY <1>1, <1>4, <1>5, <1>6
<1>7. ASSUME NEW K, dir = Only(all, K) PROVE
        /\ dir \in Dirs
        /\ \A n \in Has(dir) : n \in Has(all) /\ dir[n] = all[n]
  <2>1. dir \in Dirs /\ Has(dir) = Has(all) \cap K
    BY <1>1, <1>7, DirOps
  <2>2. Has(all) \subseteq Testcases
    BY DEF Has
  <2> HIDE DEF all
  <2>3. \A n \in Has(dir) : dir[n] = all[n]
    BY <1>1, <1>7, <2>1, <2>2, DirAt
  <2> QED BY <2>1, <2>3
<1>8. dir = all \/ \E K : dir = Only(all, K)
  BY DEF FewestAncestors
<1> HIDE DEF all
<1> QED BY <1>4, <1>5, <1>6, <1>7, <1>8

(* What minimize_corpus_lcl leaves: the directories agree, and nothing on  *)
(* offer is withdrawn.  What is kept of the results is on offer as it is.  *)
LEMMA MinimizeAgrees ==
  ASSUME TypeOK, AgreeInv, NEW dir \in Dirs,
         \A n \in Has(dir) : /\ n \in Has(Offer)
                             /\ Within(Offer[n], dir[n])
                             /\ Within(dir[n], queue[n]),
         MinimizeLocal(dir), UNCHANGED <<queue, loc>>, TypeOK'
  PROVE  /\ AgreeInv'
         /\ Has(Offer)' = Has(Offer)
         /\ PMMaps(Offer) \subseteq PMMaps(Offer)'
         /\ PMMaps(dir) \subseteq PMMaps(Offer)'
<1>1. PICK dropped :
        /\ tcs' = Without(dir, dropped) /\ gbl' = Without(gbl, dropped)
        /\ del' = del \cup (dropped \cap Has(gbl))
  BY DEF MinimizeLocal
<1>2. gbl \in Dirs /\ tcs' \in Dirs
  BY DEF TypeOK
<1>3. /\ Has(tcs)' = Has(dir) \ dropped
      /\ \A n \in Has(tcs)' : tcs'[n] = dir[n]
  BY <1>1, WithoutIs DEF Has
<1>4. /\ Has(gbl)' = Has(gbl) \ dropped
      /\ \A n \in Has(gbl)' : gbl'[n] = gbl[n]
  BY <1>1, <1>2, WithoutIs DEF Has
<1>5. Has(Offer) = Has(queue) \ Found1 /\ Has(loc)' = Has(loc)
  BY OfferIs DEF Has
<1>6. AgreeInv'
  <2>1. ASSUME NEW n \in Testcases PROVE Within(tcs'[n], queue'[n])
    <3>1. CASE n \in Has(tcs)'
      BY <1>3, <3>1
    <3>2. CASE n \notin Has(tcs)'
      <4>1. tcs'[n] = NoFiles
        BY <1>2, <3>2, DirAt DEF Has
      <4> QED BY <4>1 DEF Within, NoFiles
    <3> QED BY <3>1, <3>2
  <2>2. Has(tcs)' \cap Found1 = {}
    BY <1>3, <1>5
  <2> QED BY <1>1, <1>4, <1>5, <2>1, <2>2 DEF AgreeInv
<1>7. /\ Has(Offer)' = Has(Offer)
      /\ \A n \in Has(tcs)' : Offer'[n] = tcs'[n]
      /\ \A n \in Has(Offer)' \ Has(tcs)' : Offer'[n] = queue[n]
  <2> DEFINE S == Testcases \ (Found1 \cup Has(tcs'))
  <2>1. Offer' = Over(tcs', Only(queue, S))
    BY DEF Offer, Orphans, Has
  <2>2. /\ tcs' \in Dirs /\ queue \in Dirs /\ Has(tcs') \cap Found1 = {}
        /\ \A n \in Testcases : Within(tcs'[n], queue[n])
    BY <1>6 DEF AgreeInv, TypeOK, Has
  <2>3. /\ Has(Offer') = Has(queue) \ Found1
        /\ \A n \in Has(tcs') : Offer'[n] = tcs'[n]
        /\ \A n \in Has(Offer') \ Has(tcs') : Offer'[n] = queue[n]
    <3>1. S = Testcases \ (Found1 \cup Has(tcs'))
      OBVIOUS
    <3> HIDE DEF S
    <3> QED BY <2>1, <2>2, <3>1, OfferOf
  <2> QED BY <1>5, <2>3 DEF Has
<1>8. ASSUME NEW n \in Has(Offer) PROVE Within(Offer[n], Offer'[n])
  <2>1. CASE n \in Has(tcs)'
    BY <1>3, <1>7, <2>1
  <2>2. CASE n \notin Has(tcs)'
    BY <1>7, <2>2, OfferIs
  <2> QED BY <2>1, <2>2
<1>9. ASSUME NEW n \in Has(dir) PROVE Within(dir[n], Offer'[n])
  <2>1. CASE n \in Has(tcs)'
    BY <1>3, <1>7, <2>1 DEF Within
  <2>2. CASE n \notin Has(tcs)'
    BY <1>7, <2>2
  <2> QED BY <2>1, <2>2
<1>10. /\ PMMaps(Offer) \subseteq PMMaps(Offer')
       /\ PMMaps(dir) \subseteq PMMaps(Offer')
  <2>1. Has(Offer') = Has(Offer)
    BY <1>7 DEF Has
  <2> QED BY <1>8, <1>9, <2>1, PMMapsGrow
<1>11. PMMaps(Offer)' = PMMaps(Offer')
  BY DEF PMMaps, Has, HasPM
<1> QED BY <1>6, <1>7, <1>10, <1>11

(* It loses no PM map: each testcase that it takes from @dedup was dropped *)
(* in favour of one that is on offer, one that stays in @dedup, or one     *)
(* that had been replaced before, by one on offer.                         *)
LEMMA MinimizeCovers ==
  ASSUME TypeOK, AgreeInv, CoverageInv, pc # "aborted", NEW dir \in Dirs,
         \A n \in Has(dir) : n \in Has(Offer),
         Has(Offer)' = Has(Offer), PMMaps(Offer) \subseteq PMMaps(Offer)',
         PMMaps(dir) \subseteq PMMaps(Offer)',
         MinimizeLocal(dir), UNCHANGED <<stable, loc, seen, reused>>
  PROVE  CoverageInv'
<1> DEFINE all == Over(dir, loc)
<1>1. PICK K \in Cmin(all) :
        /\ gbl' = Without(gbl, Has(all) \ K)
        /\ del' = del \cup ((Has(all) \ K) \cap Has(gbl))
  BY DEF MinimizeLocal
<1>2. gbl \in Dirs /\ loc \in Dirs /\ all \in Dirs
  BY DirOps DEF TypeOK
<1>3. Has(all) = Has(dir) \cup Has(loc)
  BY <1>2, DirOps
<1>4. /\ Has(gbl)' = Has(gbl) \ (Has(all) \ K)
      /\ \A n \in Has(gbl)' : gbl'[n] = gbl[n]
  BY <1>1, <1>2, WithoutIs DEF Has
<1>5. /\ Has(loc)' = Has(loc) /\ HasPM(loc)' = HasPM(loc)
      /\ PMMaps(gbl)' = PMMaps(gbl')
  BY DEF PMMaps, Has, HasPM
<1>6. ~reused => Has(Offer)' \cap (Has(gbl)' \cup del') = {}
  BY <1>1, <1>4 DEF CoverageInv
<1>7. ASSUME ~reused, stable
      PROVE  /\ \A n \in Has(loc) \ Has(gbl)' : Replaced(n)'
             /\ seen \subseteq PMMaps(gbl)' \cup PMMaps(Offer)'
  <2>1. Has(Offer) \cap Has(loc) = {}
    BY <1>7 DEF CoverageInv, AgreeInv
  <2>2. /\ \A n \in Has(dir) : all[n] = dir[n]
        /\ \A n \in Has(loc) : all[n] = loc[n]
    <3>1. Has(dir) \subseteq Testcases /\ Has(loc) \subseteq Testcases
      BY DEF Has
    <3>2. \A n \in Has(dir) : n \in Testcases /\ n \notin Has(loc)
      BY <2>1, <3>1
    <3>3. \A n \in Has(loc) : n \in Testcases /\ n \notin Has(dir)
      BY <2>1, <3>1
    <3>4. \A n \in Has(dir) : all[n] = dir[n]
      BY <1>2, <3>2, DirAt
    <3>5. \A n \in Has(loc) : all[n] = loc[n]
      BY <1>2, <3>3, DirAt
    <3> QED BY <3>4, <3>5
  <2>3. /\ K \subseteq Has(all) /\ Has(all) \ HasPM(all) \subseteq K
        /\ \A n \in HasPM(all) : \E k \in K \cap HasPM(all) :
             PMMap[all[k].pm] = PMMap[all[n].pm]
        /\ \A k \in K \cap HasPM(all), n \in HasPM(all) :
             PMMap[all[n].pm] = PMMap[all[k].pm] => Rank[k] <= Rank[n]
    BY <1>7, CminKeeps
  <2>4. \A n \in Has(all) : n \in Testcases /\ Rank[n] \in Nat
    BY NamesAssumption DEF Has, Jobs
  <2> HIDE DEF all
  <2>5. /\ HasPM(all) \subseteq Has(all)
        /\ \A n \in Has(dir) : n \in HasPM(all) => n \in HasPM(dir)
        /\ \A n \in Has(loc) : n \in HasPM(all) <=> n \in HasPM(loc)
    BY <1>3, <2>2 DEF HasPM
  <2>6. ASSUME NEW n \in Has(dir), n \in HasPM(all)
        PROVE  PMMap[all[n].pm] \in PMMaps(Offer)'
    <3>1. PMMap[dir[n].pm] \in PMMaps(dir)
      BY <2>5, <2>6 DEF PMMaps
    <3> QED BY <2>2, <3>1
  (* What is kept of a PM map is on offer or in @dedup. *)
  <2>7. ASSUME NEW k \in K \cap HasPM(all), k \notin Has(dir),
               k \notin Has(gbl)
        PROVE  PMMap[all[k].pm] \in PMMaps(Offer)'
    <3>1. k \in Has(loc) \ Has(gbl) /\ all[k] = loc[k]
      BY <1>3, <2>2, <2>3, <2>7
    <3>2. Replaced(k)
      BY <1>7, <3>1 DEF CoverageInv
    <3>3. ~ \E m \in HasPM(loc) :
              Rank[m] < Rank[k] /\ PMMap[loc[m].pm] = PMMap[loc[k].pm]
      <4> SUFFICES ASSUME NEW m \in HasPM(loc), Rank[m] < Rank[k],
                          PMMap[loc[m].pm] = PMMap[loc[k].pm]
                   PROVE  FALSE
        OBVIOUS
      <4>1. m \in Has(loc)
        BY DEF HasPM
      <4>2. m \in HasPM(all) /\ PMMap[all[m].pm] = PMMap[all[k].pm]
        BY <2>2, <2>5, <3>1, <4>1
      <4>3. Rank[k] <= Rank[m]
        BY <2>3, <2>7, <4>2
      <4> QED BY <2>4, <2>5, <2>7, <4>2, <4>3
    <3> QED BY <3>1, <3>2, <3>3 DEF Replaced
  <2>8. \A n \in Has(loc) \cap Has(gbl) : all[n] = gbl[n]
    BY <2>2 DEF AgreeInv
  <2>9. ASSUME NEW n \in HasPM(all)
        PROVE  PMMap[all[n].pm] \in PMMaps(gbl') \cup PMMaps(Offer)'
    <3>1. PICK k \in K \cap HasPM(all) : PMMap[all[k].pm] = PMMap[all[n].pm]
      BY <2>3
    <3>2. CASE k \in Has(dir) \/ k \notin Has(gbl)
      BY <2>6, <2>7, <3>1, <3>2
    <3>3. CASE k \notin Has(dir) /\ k \in Has(gbl)
      <4>1. k \in Has(gbl') /\ gbl'[k] = all[k]
        BY <1>3, <1>4, <2>3, <2>8, <3>3 DEF Has
      <4>2. k \in HasPM(gbl')
        BY <4>1 DEF HasPM
      <4> QED BY <3>1, <4>1, <4>2 DEF PMMaps
    <3> QED BY <3>2, <3>3
  <2>10. ASSUME NEW n \in HasPM(gbl)
         PROVE  PMMap[gbl[n].pm] \in PMMaps(gbl') \cup PMMaps(Offer)'
    <3>1. n \in Has(gbl) /\ gbl[n].pm # None
      BY DEF HasPM
    <3>2. CASE n \in Has(gbl)'
      <4>1. n \in HasPM(gbl') /\ gbl'[n] = gbl[n]
        BY <1>4, <3>1, <3>2 DEF HasPM, Has
      <4> QED BY <4>1 DEF PMMaps
    <3>3. CASE n \notin Has(gbl)'
      <4>1. n \in Has(all) /\ n \notin Has(dir)
        BY <1>4, <1>7, <3>1, <3>3 DEF CoverageInv
      <4>2. all[n] = gbl[n]
        BY <1>3, <2>8, <3>1, <4>1
      <4>3. n \in HasPM(all)
        BY <3>1, <4>1, <4>2 DEF HasPM
      <4> QED BY <2>9, <4>2, <4>3
    <3> QED BY <3>2, <3>3
  <2>11. seen \subseteq PMMaps(gbl)' \cup PMMaps(Offer)'
    <3>1. PMMaps(gbl) \subseteq PMMaps(gbl') \cup PMMaps(Offer)'
      BY <2>10 DEF PMMaps
    <3> QED BY <1>5, <1>7, <3>1 DEF CoverageInv
  (* What has gone from @dedup and is still a job has been replaced. *)
  <2>12. ASSUME NEW n \in Has(loc) \ Has(gbl)' PROVE Replaced(n)'
    <3>1. CASE Replaced(n)
      BY <1>5, <3>1 DEF Replaced
    <3>2. CASE ~Replaced(n)
      <4>1. n \in Has(gbl) /\ n \in Has(all) \ K
        BY <1>4, <1>7, <2>12, <3>2 DEF CoverageInv
      <4>2. n \in HasPM(all) /\ n \in HasPM(loc) /\ all[n] = loc[n]
        BY <2>2, <2>3, <2>5, <2>12, <4>1
      <4>3. PICK k \in K \cap HasPM(all) :
              PMMap[all[k].pm] = PMMap[all[n].pm]
        BY <2>3, <4>2
      <4>4. Rank[k] <= Rank[n] /\ k # n /\ k \in Has(all)
        BY <2>3, <4>1, <4>2, <4>3
      <4>5. Rank[k] < Rank[n]
        BY <2>4, <4>1, <4>4, NamesAssumption DEF Jobs
      <4>6. k \in Has(dir) \/ (k \in HasPM(loc) /\ all[k] = loc[k])
        BY <1>3, <2>2, <2>5, <4>3, <4>4
      <4>7. CASE k \in Has(dir)
        <5>1. PMMap[loc[n].pm] \in PMMaps(Offer)'
          BY <2>6, <4>2, <4>3, <4>7
        <5> QED BY <1>5, <4>2, <5>1 DEF Replaced
      <4>8. CASE k \in HasPM(loc) /\ all[k] = loc[k]
        <5>1. Rank[k] < Rank[n] /\ PMMap[loc[k].pm] = PMMap[loc[n].pm]
          BY <4>2, <4>3, <4>5, <4>8
        <5> QED BY <1>5, <4>2, <4>8, <5>1 DEF Replaced
      <4> QED BY <4>6, <4>7, <4>8
    <3> QED BY <3>1, <3>2
  <2> QED BY <2>11, <2>12
<1> QED BY <1>5, <1>6, <1>7 DEF CoverageInv

(* An abort, of which CoverageInv says nothing.                            *)
LEMMA AbortCovers ==
  ASSUME AgreeInv, Abort
  PROVE  AgreeInv' /\ CoverageInv'
<1>1. pc' = "aborted" /\ UNCHANGED <<queue, tcs, loc, gbl, del>>
  BY DEF Abort
<1>2. AgreeInv'
  BY <1>1 DEF AgreeInv, Has
<1> QED BY <1>1, <1>2 DEF CoverageInv

(* A termination, whether it collects or aborts.                           *)
LEMMA TerminateCovers ==
  ASSUME TypeOK, JobsComplete, AgreeInv, CoverageInv,
         NEW j \in Jobs, Terminate(j)
  PROVE  AgreeInv' /\ CoverageInv'
<1>1. CASE Collect(j)
  <2>1. PICK dir \in IF j \in CrashSites
                       THEN FewestAncestors(Over(Results(j), tcs))
                       ELSE {Over(Results(j), tcs)} : MinimizeLocal(dir)
    BY <1>1 DEF Collect
  <2>2. /\ UNCHANGED <<stable, queue, loc, seen, reused>>
        /\ pc \in {"scan", "kill_all"}
    BY <1>1 DEF Collect, Terminate
  <2>3. /\ dir \in Dirs
        /\ \A n \in Has(dir) : /\ n \in Has(Offer)
                               /\ Within(Offer[n], dir[n])
                               /\ Within(dir[n], queue[n])
    BY ResultsOffered
  <2>4. TypeOK'
    BY TerminateStep
  <2>5. /\ AgreeInv' /\ Has(Offer)' = Has(Offer)
        /\ PMMaps(Offer) \subseteq PMMaps(Offer)'
        /\ PMMaps(dir) \subseteq PMMaps(Offer)'
    BY <2>1, <2>2, <2>3, <2>4, MinimizeAgrees
  <2>6. CoverageInv'
    BY <2>1, <2>2, <2>3, <2>5, MinimizeCovers
  <2> QED BY <2>5, <2>6
<1>2. CASE Abort
  BY <1>2, AbortCovers
<1> QED BY <1>1, <1>2 DEF Terminate

(* update_global on what stage 1 has found: @dedup only gains.             *)
LEMMA CollectStage1Covers ==
  ASSUME TypeOK, AgreeInv, CoverageInv, CollectStage1
  PROVE  AgreeInv' /\ CoverageInv'
<1> DEFINE src == Only(queue, Found1)
<1>1. src \in Dirs /\ Has(src) \subseteq Found1
  BY DirOps DEF TypeOK
<1>2. /\ gbl' = GlobalAfter(src) /\ seen' = seen \cup PMMaps(gbl')
      /\ UNCHANGED <<stable, queue, tcs, loc, del, reused>> /\ pc = "loop"
  BY DEF CollectStage1
<1>3. /\ Has(gbl') = Has(gbl) \cup NewInGlobal(src)
      /\ NewInGlobal(src) \cap del = {} /\ NewInGlobal(src) \subseteq Found1
      /\ \A n \in Has(gbl) : gbl'[n] = gbl[n]
  BY <1>1, <1>2, GlobalIs
<1>4. PMMaps(gbl) \subseteq PMMaps(gbl')
  BY <1>3, PMMapsGrow DEF Within
<1>5. /\ Has(tcs)' = Has(tcs) /\ Has(loc)' = Has(loc)
      /\ HasPM(loc)' = HasPM(loc) /\ Has(gbl)' = Has(gbl')
      /\ PMMaps(gbl)' = PMMaps(gbl')
  BY <1>2 DEF PMMaps, Has, HasPM
<1>6. Offer' = Offer
  BY <1>2, <1>5 DEF Offer, Orphans
<1>7. Has(Offer)' = Has(Offer) /\ PMMaps(Offer)' = PMMaps(Offer)
  BY <1>6 DEF PMMaps, Has, HasPM
<1>8. Has(Offer) \cap Found1 = {}
  BY OfferIs
<1> HIDE DEF src
<1>9. AgreeInv'
  <2>1. \A n \in Has(loc) \cap Has(gbl') : n \in Has(gbl)
    BY <1>3 DEF AgreeInv
  <2> QED BY <1>2, <1>3, <1>5, <2>1 DEF AgreeInv
<1>10. \A n : Replaced(n)' <=> Replaced(n)
  BY <1>2, <1>5, <1>7 DEF Replaced
<1> QED BY <1>2, <1>3, <1>4, <1>5, <1>7, <1>8, <1>9, <1>10 DEF CoverageInv

(* update_local: what comes to @dedup_sync is in @dedup.                   *)
LEMMA UpdateLocalCovers ==
  ASSUME TypeOK, JobsComplete, AgreeInv, CoverageInv, UpdateLocal
  PROVE  AgreeInv' /\ CoverageInv'
<1>1. /\ loc' = Over(loc, Only(gbl, ToLocal)) /\ pc = "resume"
      /\ UNCHANGED <<stable, queue, tcs, gbl, del, seen, reused>>
  BY UpdateLocalStep DEF UpdateLocal, Abort
<1>2. /\ ToLocal \subseteq Has(gbl)
      /\ Has(loc)' = Has(loc) \cup ToLocal
      /\ \A n \in Has(loc) : loc'[n] = loc[n]
      /\ \A n \in ToLocal : loc'[n] = gbl[n]
  BY <1>1, LocalIs DEF Has
<1>3. /\ Has(tcs)' = Has(tcs) /\ Has(gbl)' = Has(gbl)
      /\ PMMaps(gbl)' = PMMaps(gbl)
  BY <1>1 DEF PMMaps, Has, HasPM
<1>4. Offer' = Offer
  BY <1>1, <1>3 DEF Offer, Orphans
<1>5. Has(Offer)' = Has(Offer) /\ PMMaps(Offer)' = PMMaps(Offer)
  BY <1>4 DEF PMMaps, Has, HasPM
<1>6. AgreeInv'
  BY <1>1, <1>2, <1>3 DEF AgreeInv
<1>7. \A n \in HasPM(loc) : n \in HasPM(loc)' /\ loc'[n] = loc[n]
  BY <1>2 DEF HasPM
<1>8. \A n : Replaced(n) => Replaced(n)'
  BY <1>5, <1>7 DEF Replaced
<1>9. Has(loc)' \ Has(gbl)' \subseteq Has(loc) \ Has(gbl)
  BY <1>2, <1>3
<1> QED BY <1>1, <1>3, <1>5, <1>6, <1>8, <1>9 DEF CoverageInv

(* AFL saves: what it saves in stage 2 adds to what is on offer.           *)
LEMMA AflSavesCovers ==
  ASSUME TypeOK, JobsComplete, AgreeInv, CoverageInv,
         NEW n \in Testcases, AflSaves(n)
  PROVE  AgreeInv' /\ CoverageInv'
<1>1. PICK files \in NextFile(n) : queue' = [queue EXCEPT ![n] = files]
  BY DEF AflSaves
<1>2. /\ files \in Files /\ files.tc # None /\ Within(queue[n], files)
  BY NextFileIs DEF AflSaves
<1>3. /\ UNCHANGED <<stable, tcs, loc, gbl, del, seen>> /\ pc # "aborted"
      /\ pc' = pc
      /\ reused' = (reused \/ (queue[n].tc = None /\ n \in Has(gbl) \cup del))
  BY DEF AflSaves
<1>4. /\ queue \in Dirs /\ queue' \in Dirs
      /\ queue'[n] = files /\ \A m \in Testcases \ {n} : queue'[m] = queue[m]
  BY <1>1, <1>2 DEF TypeOK, Dirs
<1>5. /\ Has(tcs)' = Has(tcs) /\ Has(loc)' = Has(loc) /\ Has(gbl)' = Has(gbl)
      /\ HasPM(loc)' = HasPM(loc) /\ PMMaps(gbl)' = PMMaps(gbl)
  BY <1>3 DEF Has, HasPM, PMMaps
<1>6. Has(queue') = Has(queue) \cup {n}
  BY <1>2, <1>4 DEF Has
<1>7. \A m \in Testcases : Within(queue[m], queue'[m])
  BY <1>2, <1>4 DEF Within
<1>8. AgreeInv'
  BY <1>3, <1>5, <1>7 DEF AgreeInv, Within
<1>9. TypeOK'
  BY AflSavesStep
<1>10. /\ Has(Offer') = Has(queue') \ Found1
       /\ \A m \in Has(tcs) : Offer'[m] = tcs[m]
       /\ \A m \in Has(Offer') \ Has(tcs) : Offer'[m] = queue'[m]
  <2> DEFINE S == Testcases \ (Found1 \cup Has(tcs))
  <2>1. Offer' = Over(tcs, Only(queue', S))
    BY <1>3, <1>5 DEF Offer, Orphans
  <2>2. /\ tcs \in Dirs /\ Has(tcs) \cap Found1 = {}
        /\ \A m \in Testcases : Within(tcs[m], queue'[m])
    BY <1>3, <1>8 DEF AgreeInv, TypeOK
  <2>3. S = Testcases \ (Found1 \cup Has(tcs))
    OBVIOUS
  <2> HIDE DEF S
  <2> QED BY <1>4, <2>1, <2>2, <2>3, OfferOf
<1>11. Has(Offer') \subseteq Has(Offer) \cup ({n} \ Found1)
  BY <1>6, <1>10, OfferIs
<1>12. PMMaps(Offer) \subseteq PMMaps(Offer')
  <2>1. ASSUME NEW m \in Has(Offer)
        PROVE  m \in Has(Offer') /\ Within(Offer[m], Offer'[m])
    <3>1. m \in Has(Offer') /\ m \in Testcases
      <4>1. m \in Has(Offer')
        BY <1>6, <1>10, OfferIs
      <4>2. m \in Testcases
        BY DEF Has
      <4> QED BY <4>1, <4>2
    <3>2. CASE m \in Has(tcs)
      <4>1. Offer[m] = tcs[m]
        BY <3>2, OfferIs
      <4>2. Offer'[m] = tcs[m]
        BY <1>10, <3>2
      <4> QED BY <3>1, <4>1, <4>2 DEF Within
    <3>3. CASE m \notin Has(tcs)
      BY <1>7, <1>10, <3>1, <3>3, OfferIs
    <3> QED BY <3>1, <3>2, <3>3
  <2> QED BY <2>1, PMMapsGrow
<1>13. Has(Offer)' = Has(Offer') /\ PMMaps(Offer)' = PMMaps(Offer')
  BY DEF PMMaps, Has, HasPM
<1>14. ASSUME ~reused' PROVE Has(Offer)' \cap (Has(gbl)' \cup del') = {}
  <2>1. ~reused /\ (queue[n].tc = None => n \notin Has(gbl) \cup del)
    BY <1>3, <1>14
  <2>2. Has(Offer) \cap (Has(gbl) \cup del) = {}
    BY <1>3, <2>1 DEF CoverageInv
  <2>3. queue[n].tc # None /\ n \notin Found1 => n \in Has(Offer)
    BY OfferIs DEF Has
  <2> QED BY <1>3, <1>5, <1>11, <1>13, <2>1, <2>2, <2>3
<1>15. \A m : Replaced(m) => Replaced(m)'
  BY <1>3, <1>5, <1>12, <1>13 DEF Replaced
<1> QED BY <1>3, <1>5, <1>8, <1>12, <1>13, <1>14, <1>15 DEF CoverageInv

(* The end of an iteration: what was on offer is in @dedup before pmfuzz-  *)
(* cmin minimizes it for its coverage.                                     *)
LEMMA EndCovers ==
  ASSUME TypeOK, AgreeInv, CoverageInv, EndIteration
  PROVE  /\ AgreeInv' /\ CoverageInv'
         /\ stable /\ ~reused => seen' = PMMaps(gbl')
<1>1. queue \in Dirs /\ Merged \in Dirs
  BY MergedIs DEF TypeOK
<1>2. PICK K \in Cmin(Merged) : gbl' = Without(Merged, Has(Merged) \ K)
  BY DEF EndIteration
<1>3. /\ seen' = seen \cup PMMaps(Merged) /\ queue' = Only(queue, Found1)
      /\ tcs' = Empty /\ loc' = Empty /\ UNCHANGED <<stable, reused>>
      /\ pc = "kill_all"
  BY DEF EndIteration, UpdateGlobal, Ending
<1>4. PMMaps(gbl') = PMMaps(Merged)
  BY <1>1, <1>2, CminCovers
<1>5. Has(tcs') = {} /\ Has(loc') = {}
  BY <1>3, EmptyDir
<1>6. AgreeInv'
  <2>1. \A n \in Testcases : tcs'[n] = NoFiles
    BY <1>3 DEF Empty
  <2>2. \A n \in Testcases : Within(tcs'[n], queue'[n])
    BY <2>1 DEF Within, NoFiles
  <2>3. Has(tcs)' = {} /\ Has(loc)' = {}
    BY <1>5 DEF Has
  <2> QED BY <2>2, <2>3 DEF AgreeInv
<1>7. Has(Offer)' = {}
  <2> DEFINE S == Testcases \ (Found1 \cup Has(tcs'))
  <2>1. Offer' = Over(tcs', Only(queue', S))
    BY DEF Offer, Orphans, Has
  <2>2. queue' \in Dirs /\ Has(queue') \subseteq Found1 /\ tcs' \in Dirs
    BY <1>1, <1>3, DirOps, EmptyDir
  <2>3. Only(queue', S) \in Dirs /\ Has(Only(queue', S)) = Has(queue') \cap S
    BY <2>2, DirOps
  <2>4. Has(Offer') = Has(tcs') \cup (Has(queue') \cap S)
    <3> HIDE DEF S
    <3> QED BY <2>1, <2>2, <2>3, DirOps
  <2>5. Has(Offer') = {}
    BY <1>5, <2>2, <2>4
  <2> QED BY <2>5 DEF Has
<1>8. ASSUME ~reused, stable PROVE seen' = PMMaps(gbl')
  <2>1. Has(Offer) \cap (Has(gbl) \cup del) = {}
    BY <1>3, <1>8 DEF CoverageInv
  <2>2. NewInGlobal(Offer) = Has(Offer)
    BY <2>1 DEF NewInGlobal
  <2>3. /\ \A n \in Has(gbl) : n \in Has(Merged) /\ Merged[n] = gbl[n]
        /\ \A n \in Has(Offer) : n \in Has(Merged) /\ Merged[n] = Offer[n]
    BY <2>2, MergedIs
  <2>4. PMMaps(gbl) \subseteq PMMaps(Merged)
    BY <2>3, PMMapsGrow DEF Within
  <2>5. PMMaps(Offer) \subseteq PMMaps(Merged)
    BY <2>3, PMMapsGrow DEF Within
  <2>6. seen \subseteq PMMaps(gbl) \cup PMMaps(Offer)
    BY <1>3, <1>8 DEF CoverageInv
  <2> QED BY <1>3, <1>4, <2>4, <2>5, <2>6
<1>9. CoverageInv'
  <2>1. Has(loc)' = {} /\ PMMaps(gbl)' = PMMaps(gbl')
    BY <1>5 DEF Has, HasPM, PMMaps
  <2> QED BY <1>3, <1>7, <1>8, <2>1 DEF CoverageInv
<1> QED BY <1>6, <1>8, <1>9

(* Every step keeps both, and does what CoverageKept says.                 *)
LEMMA CoverageStep ==
  ASSUME IndInv, [Next]_vars
  PROVE  /\ AgreeInv' /\ CoverageInv'
         /\ iter' # iter /\ stable /\ ~reused => seen' = PMMaps(gbl')
<1> DEFINE Goal == /\ AgreeInv' /\ CoverageInv'
                   /\ iter' # iter /\ stable /\ ~reused
                        => seen' = PMMaps(gbl')
<1> USE DEF IndInv
<1>1. CASE CollectStage1
  BY <1>1, CollectStage1Covers, CollectStage1Step
<1>2. CASE CollectStage1Aborts \/ CollectionAborts
  BY <1>2, AbortCovers DEF CollectStage1Aborts, CollectionAborts, Abort
<1>3. CASE CheckCompleted
  BY <1>3, CoverageFrame DEF CheckCompleted
<1>4. CASE UpdateLocal
  BY <1>4, UpdateLocalCovers, UpdateLocalStep
<1>5. CASE EndScan
  BY <1>5, CoverageFrame DEF EndScan
<1>6. CASE MinimizeAborts
  <2>1. /\ pc' = "aborted" /\ iter' = iter /\ gbl' = Merged
        /\ UNCHANGED <<queue, tcs, loc, del>>
    BY <1>6 DEF MinimizeAborts
  <2>2. Has(gbl) \subseteq Has(gbl') /\ \A n \in Has(gbl) : gbl'[n] = gbl[n]
    BY <2>1, MergedIs
  <2>3. /\ Has(gbl') \cap del = {}
        /\ Has(tcs)' = Has(tcs) /\ Has(loc)' = Has(loc)
        /\ Has(gbl)' = Has(gbl')
    BY <2>1, MergedIs DEF TypeOK, Has
  <2>4. AgreeInv'
    BY <2>1, <2>2, <2>3 DEF AgreeInv
  <2> QED BY <2>1, <2>4 DEF CoverageInv
<1>7. CASE EndIteration
  BY <1>7, EndCovers
<1>8. ASSUME NEW j \in Jobs, Terminate(j) PROVE Goal
  BY <1>8, TerminateCovers, TerminateStep
<1>9. ASSUME NEW n \in Testcases, AflSaves(n) PROVE Goal
  BY <1>9, AflSavesCovers, AflSavesStep
<1>10. CASE UNCHANGED vars
  <2>1. UNCHANGED <<stable, iter, queue, tcs, loc, gbl, del, seen, reused, pc>>
    BY <1>10 DEF vars
  <2>2. CASE pc = "aborted"
    BY <2>1, <2>2 DEF AgreeInv, CoverageInv, Has
  <2> QED BY <2>1, <2>2, CoverageFrame
<1> QED
  BY <1>1, <1>2, <1>3, <1>4, <1>5, <1>6, <1>7, <1>8, <1>9, <1>10 DEF Next

(* The directories agree, and what @dedup has ever covered it covers, but  *)
(* for what is on offer.                                                   *)
THEOREM CoverageInvariance == Spec => []IndInv
<1>1. Init => IndInv
  <2> SUFFICES ASSUME Init PROVE IndInv
    OBVIOUS
  <2>1. TypeOK /\ JobsComplete
    BY InitInv
  <2>2. AgreeInv
    <3>1. \A n \in Testcases : Within(tcs[n], queue[n])
      BY DEF Init, Empty, Within, NoFiles
    <3> QED BY <3>1, EmptyDir DEF Init, AgreeInv
  <2>3. Has(Offer) = {}
    BY <2>1, <2>2, OfferIs, EmptyDir DEF Init
  <2>4. CoverageInv
    BY <2>3, EmptyDir DEF Init, CoverageInv
  <2> QED BY <2>1, <2>2, <2>4 DEF IndInv
<1>2. IndInv /\ [Next]_vars => IndInv'
  BY Step, CoverageStep DEF IndInv
<1> QED BY <1>1, <1>2, PTL DEF Spec

(* The minimizers of both stores together lose no PM map, however many     *)
(* jobs, iterations and contents there are.                                *)
THEOREM CoverageNotLost == Spec => CoverageKept
<1>1. IndInv /\ [Next]_vars
        => [iter' # iter /\ stable /\ ~reused => seen' = PMMaps(gbl')]_vars
  BY CoverageStep
<1> QED BY <1>1, CoverageInvariance, PTL DEF Spec, CoverageKept
=============================================================================
