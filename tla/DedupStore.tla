----------------------------- MODULE DedupStore -----------------------------
(***************************************************************************)
(* What becomes of a testcase in the directories of PMFuzz: class Dedup    *)
(* (stages/dedup.py), core/dedupengine.py, tools/pmfuzz-cmin and the       *)
(* collecting methods of Stage1 and Stage2.                                *)
(*                                                                         *)
(* AFL saves a testcase in its queue directory.  It is collected into      *)
(* testcases/ when the job it comes from is terminated, goes to the global *)
(* store @dedup at the end of the iteration, and from there to @dedup_sync *)
(* of the iteration that fuzzes it.  On the way the corpus is minimized    *)
(* twice: testcases/ with @dedup_sync after every job, @dedup at the end   *)
(* of the iteration.  A testcase minimized away from @dedup leaves a       *)
(* placeholder <name>.deleted.                                             *)
(*                                                                         *)
(* A testcase has up to three files, its text, its exec map and its PM     *)
(* map.  AFL saves them one after the other and is not waited for: what is *)
(* collected may lack the later ones.  Every directory here is a function  *)
(* from names to the files they have there, each the None of no file or    *)
(* the content it was made from.  (That a file may be there and still be   *)
(* empty is in Stage1.)                                                    *)
(*                                                                         *)
(* The timers and processes that decide when a job is terminated are those *)
(* of Stage2: here a job may be terminated in any scan.                    *)
(***************************************************************************)
EXTENDS Naturals, FiniteSets

CONSTANTS
  Testcases,   \* names of testcases
  CrashSites,  \* names of crash images
  Stage1,      \* the parent of what stage 1 finds
  Parent,      \* the job whose AFL run, or whose image, a name comes from
  IterCnt,     \* nh.iter_cnt of a name
  Rank,        \* where a name comes in the listing of a directory
  Contents,    \* what is in a testcase's file: the executions it stands for
  Map, PMMap,  \* the exec map and the PM map of a content
  Image,       \* the hash of a crash image
  None,        \* no file
  MaxIter,     \* bound: the model stops after this many iterations
  Slow         \* bound: AFL saves the files of other names all at once

Jobs == Testcases \cup CrashSites

ASSUME NamesAssumption ==
  /\ IsFiniteSet(Testcases) /\ IsFiniteSet(CrashSites)
  /\ Testcases \cap CrashSites = {} /\ Stage1 \notin Jobs
  /\ Parent \in [Jobs -> Jobs \cup {Stage1}]
  /\ IterCnt \in [Jobs -> Nat \ {0}]
  /\ Rank \in [Jobs -> Nat]
  /\ \A i, j \in Jobs : Rank[i] = Rank[j] => i = j

ASSUME ContentsAssumption ==
  /\ None \notin Contents
  /\ DOMAIN Map = Contents /\ DOMAIN PMMap = Contents
  /\ DOMAIN Image = CrashSites /\ Slow \subseteq Testcases
  /\ MaxIter \in Nat \ {0}

VARIABLES
  stable,  \* does os.listdir list any two names in the same order always?
  iter,    \* the current iteration
  queue,   \* AFL's queue directories: of stage 1, and of this iteration
  tcs,     \* testcases/ of this iteration
  loc,     \* testcases in @dedup_sync of this iteration
  gbl,     \* testcases in @dedup, with their maps
  gimg,    \* names whose compressed image is in @dedup
  del,     \* names with a placeholder in @dedup
  limg,    \* names whose compressed image is in pm_images/
  lcs,     \* crash sites in pm_images/ of this iteration
  gcs,     \* crash sites in @dedup
  jcs,     \* crash sites in @dedup_sync
  done,    \* jobs of this iteration that have been terminated
  seen,    \* history: PM maps of all the testcases @dedup has ever had
  reused,  \* history: AFL has saved a name that @dedup knew already
  pc       \* where the driver thread is

vars == <<stable, iter, queue, tcs, loc, gbl, gimg, del, limg, lcs, gcs, jcs,
          done, seen, reused, pc>>

NoFiles  == [tc |-> None, map |-> None, pm |-> None]
Whole(c) == [tc |-> c, map |-> c, pm |-> c]

File  == Contents \cup {None}
Files == {NoFiles} \cup [tc : Contents, map : File, pm : File]
Dirs  == [Testcases -> Files]

Has(dir)    == {n \in Testcases : dir[n].tc # None}
HasMap(dir) == {n \in Has(dir) : dir[n].map # None}
HasPM(dir)  == {n \in Has(dir) : dir[n].pm # None}

PMMaps(dir) == {PMMap[dir[n].pm] : n \in HasPM(dir)}

Empty           == [n \in Testcases |-> NoFiles]
Without(dir, S) == [n \in Testcases |-> IF n \in S THEN NoFiles ELSE dir[n]]
Only(dir, S)    == [n \in Testcases |-> IF n \in S THEN dir[n] ELSE NoFiles]

(* Copying one directory into another, file by file.                       *)
File1(file, old) == IF file # None THEN file ELSE old
FilesOver(f, old) == [tc  |-> File1(f.tc, old.tc),
                      map |-> File1(f.map, old.map),
                      pm  |-> File1(f.pm, old.pm)]

Over(upper, lower) == [n \in Testcases |-> FilesOver(upper[n], lower[n])]

Found1        == {n \in Testcases : Parent[n] = Stage1}
Children(j)   == {n \in Testcases : Parent[n] = j}
CrashesOf(j)  == {x \in CrashSites : Parent[x] = j}
-----------------------------------------------------------------------------
(* Deduplication: of the names in S with the same class one is kept, the   *)
(* first that is listed.                                                   *)
OneOfEach(S, class) ==
  {K \in SUBSET S :
     /\ \A n \in S : \E k \in K : class[k] = class[n]
     /\ \A k, m \in K : class[k] = class[m] => k = m
     /\ stable => \A k \in K, m \in S :
                    class[m] = class[k] => Rank[k] <= Rank[m]}

(* DedupEngine.run, on the exec maps that are in testcases/: the first of  *)
(* those with the fewest ancestors.                                        *)
FewestAncestors(dir) ==
  LET class  == [n \in HasMap(dir) |-> Map[dir[n].map]]
      fewest == {n \in HasMap(dir) : \A m \in HasMap(dir) :
                   class[m] = class[n] => IterCnt[n] <= IterCnt[m]}
  IN  {Only(dir, K \cup (Has(dir) \ HasMap(dir))) :
         K \in OneOfEach(fewest, class)}

(* pmfuzz-cmin looks at the PM maps alone, and keeps what has none.  Its   *)
(* mutant looks at the exec maps.                                          *)
CminOfExec(dir) ==
  {K \cup (Has(dir) \ HasMap(dir)) :
     K \in OneOfEach(HasMap(dir), [n \in HasMap(dir) |-> Map[dir[n].map]])}

Cmin(dir) ==
  {K \cup (Has(dir) \ HasPM(dir)) :
     K \in OneOfEach(HasPM(dir), [n \in HasPM(dir) |-> PMMap[dir[n].pm]])}

(* deduplicate_crash_sites_lcl, by the hash of the image.                  *)
DistinctCrashes(S) == OneOfEach(S, [x \in S |-> Image[x]])

(* update_global: the names of src that are neither in @dedup nor have a   *)
(* placeholder there.  Its mutant looks for the testcase only.             *)
NewInGlobalByName(src) == Has(src) \ Has(gbl)
NewInGlobal(src) == Has(src) \ (Has(gbl) \cup del)

GlobalAfter(src) == Over(Only(src, NewInGlobal(src)), gbl)

(* What the minimizers delete in @dedup along with the testcase: its maps, *)
(* but not its image, which its children need.  The mutant deletes both.   *)
ImagesToo(dropped)        == gimg \ dropped
ImagesAfterDrop(dropped)  == gimg

(* minimize_corpus_lcl, once job j's results are in dir: testcases/ is     *)
(* minimized together with @dedup_sync, of which a dropped testcase is     *)
(* deleted from @dedup.                                                    *)
MinimizeLocal(dir) ==
  LET all == Over(dir, loc)
  IN  \E K \in Cmin(all) :
        LET dropped == Has(all) \ K
        IN  /\ tcs'  = Without(dir, dropped)
            /\ gbl'  = Without(gbl, dropped)
            /\ gimg' = ImagesAfterDrop(dropped \cap Has(gbl))
            /\ del'  = del \cup (dropped \cap Has(gbl))
-----------------------------------------------------------------------------
Init ==
  /\ stable \in BOOLEAN
  /\ iter = 1
  /\ queue = Empty /\ tcs = Empty /\ loc = Empty /\ gbl = Empty
  /\ gimg = {} /\ del = {} /\ limg = {} /\ lcs = {} /\ gcs = {} /\ jcs = {}
  /\ done = {} /\ seen = {} /\ reused = FALSE
  /\ pc = "loop"

(* An abort of PMFuzz, by a sanity check or an exception.                  *)
Abort ==
  /\ pc' = "aborted"
  /\ UNCHANGED <<stable, iter, queue, tcs, loc, gbl, gimg, del, limg, lcs,
                 gcs, jcs, done, seen, reused>>

(* collect_stage1: Stage1.collect copies what AFL found in stage 1 and is  *)
(* not in testcases/ yet, and makes crash sites of some of it;             *)
(* update_global follows.  It takes the exec map of each and an image of   *)
(* each, and aborts where it gets none.                                    *)
NewOfStage1 == NewInGlobal(Only(queue, Found1))

CollectStage1 ==
  /\ pc = "loop"
  /\ NewOfStage1 \subseteq HasMap(queue)
  /\ gbl'  = GlobalAfter(Only(queue, Found1))
  /\ gimg' = gimg \cup NewOfStage1
  /\ \E made \in SUBSET CrashesOf(Stage1) :
       /\ Has(queue) \cap Found1 = {} => made = {}
       /\ gcs' = gcs \cup made
  /\ seen' = seen \cup PMMaps(gbl')
  /\ pc' = "check"
  /\ UNCHANGED <<stable, iter, queue, tcs, loc, del, limg, lcs, jcs, done,
                 reused>>

CollectStage1Aborts == pc = "loop" /\ NewOfStage1 # {} /\ Abort

(* run_stage2, by what Stage2.completed says.                              *)
CheckCompleted ==
  /\ pc = "check"
  /\ pc' \in {"kill_all", "resume"}
  /\ UNCHANGED <<stable, iter, queue, tcs, loc, gbl, gimg, del, limg, lcs,
                 gcs, jcs, done, seen, reused>>

(* update_local: the testcases of this iteration, and all crash sites.     *)
(* Image and exec map have to be there.                                    *)
ToLocal == {n \in Has(gbl) : IterCnt[n] = iter /\ loc[n].tc = None}

UpdateLocal ==
  /\ pc = "resume"
  /\ IF ToLocal \subseteq gimg \cap HasMap(gbl)
       THEN /\ loc' = Over(loc, Only(gbl, ToLocal))
            /\ jcs' = jcs \cup gcs
            /\ pc' = "scan"
            /\ UNCHANGED <<stable, iter, queue, tcs, gbl, gimg, del, limg,
                           lcs, gcs, done, seen, reused>>
       ELSE Abort

Results(j) == Only(queue, Children(j))

(* _terminate_testcase and _terminate_cs, after they have told AFL to end: *)
(* collect the results over what testcases/ has, with an image of each     *)
(* where the target leaves one, drop crash images seen already, minimize.  *)
Collect(j) ==
  /\ \E made \in SUBSET Has(Results(j)) : limg' = limg \cup made
  /\ \E new \in SUBSET CrashesOf(j) :
       /\ Has(Results(j)) = {} => new = {}
       /\ lcs' \in DistinctCrashes(lcs \cup new)
  /\ LET all == Over(Results(j), tcs)
     IN  \E dir \in IF j \in CrashSites THEN FewestAncestors(all) ELSE {all} :
           MinimizeLocal(dir)
  /\ done' = done \cup {j}
  /\ UNCHANGED <<stable, iter, queue, loc, gcs, jcs, seen, reused, pc>>

(* It aborts where the job's own image is missing, and where a worker that *)
(* collects fails and the pool sees it.                                    *)
Terminate(j) ==
  /\ pc \in {"scan", "kill_all"}
  /\ j \in (Has(loc) \cup IF pc = "scan" THEN jcs ELSE {}) \ done
  /\ \/ (Has(Results(j)) # {} => j \in gimg \cup gcs) /\ Collect(j)
     \/ Has(Results(j)) # {} /\ Abort

EndScan ==
  /\ pc = "scan" /\ pc' = "loop"
  /\ UNCHANGED <<stable, iter, queue, tcs, loc, gbl, gimg, del, limg, lcs,
                 gcs, jcs, done, seen, reused>>

(* collect_results: what is in the queue directories and not in            *)
(* testcases/.  Its mutant: nothing.                                       *)
NoOrphans == Empty
Orphans   == Only(queue, Testcases \ (Found1 \cup Has(tcs)))

(* What update_global is offered at the end of an iteration, and makes of  *)
(* @dedup.  It looks for the image of each.                                *)
Offer  == Over(tcs, Orphans)
Merged == GlobalAfter(Offer)

Ending == pc = "kill_all" /\ Has(loc) \subseteq done

CollectionAborts ==
  /\ Ending
  /\ Has(Orphans) # {} \/ ~ Has(tcs) \subseteq limg
  /\ Abort

UpdateGlobal ==
  /\ Ending /\ Has(tcs) \subseteq limg
  /\ seen' = seen \cup PMMaps(Merged)
  /\ gcs' = gcs \cup lcs
  /\ UNCHANGED <<stable, reused>>

(* Then @dedup is minimized; that needs a testcase, and the exec map of    *)
(* every testcase there is.                                                *)
CanMinimize == Has(Merged) # {} /\ Has(Merged) \subseteq HasMap(Merged)

MinimizeAborts ==
  /\ UpdateGlobal /\ ~CanMinimize
  /\ gbl' = Merged /\ gimg' = gimg \cup NewInGlobal(Offer)
  /\ pc' = "aborted"
  /\ UNCHANGED <<iter, queue, tcs, loc, del, limg, lcs, jcs, done>>

(* The end of a completed iteration: collect, update_global, minimize the  *)
(* corpus of @dedup, delete the directory of the iteration.  (What the AFL *)
(* of a crash site saves meanwhile is deleted too: see Stage2.)            *)
EndIteration ==
  /\ UpdateGlobal /\ CanMinimize
  /\ \E K \in Cmin(Merged) :
       LET dropped == Has(Merged) \ K
       IN  /\ gbl'  = Without(Merged, dropped)
           /\ del'  = del \cup dropped
           /\ gimg' = ImagesAfterDrop(dropped) \cup NewInGlobal(Offer)
  /\ queue' = Only(queue, Found1)
  /\ tcs' = Empty /\ loc' = Empty /\ limg' = {}
  /\ lcs' = {} /\ jcs' = {} /\ done' = {}
  /\ iter' = iter + 1
  /\ pc' = IF iter = MaxIter THEN "bound" ELSE "resume"

(* AFL saves a testcase, in stage 1 or for a job of this iteration: its    *)
(* text, its exec map, and its PM map if it has touched PM.  AFL handles   *)
(* SIGTERM in its own time: it may still save when the job has been        *)
(* terminated.                                                             *)
NextFile(n) ==
  CASE queue[n].tc = None /\ n \notin Slow -> {Whole(c) : c \in Contents}
    [] queue[n].tc = None /\ n \in Slow ->
         {[NoFiles EXCEPT !.tc = c] : c \in Contents}
    [] queue[n].tc # None /\ queue[n].map = None ->
         {[queue[n] EXCEPT !.map = queue[n].tc]}
    [] OTHER -> {[queue[n] EXCEPT !.pm = queue[n].tc]}

AflSaves(n) ==
  /\ pc \notin {"bound", "aborted"}
  /\ queue[n].pm = None
  /\ Parent[n] \in {Stage1} \cup Has(loc) \cup jcs
  /\ \E files \in NextFile(n) : queue' = [queue EXCEPT ![n] = files]
  /\ reused' = (reused \/ (queue[n].tc = None /\ n \in Has(gbl) \cup del))
  /\ UNCHANGED <<stable, iter, tcs, loc, gbl, gimg, del, limg, lcs, gcs, jcs,
                 done, seen, pc>>

Next ==
  \/ CollectStage1 \/ CollectStage1Aborts \/ CheckCompleted \/ UpdateLocal
  \/ EndScan \/ CollectionAborts \/ MinimizeAborts \/ EndIteration
  \/ \E j \in Jobs : Terminate(j)
  \/ \E n \in Testcases : AflSaves(n)

Spec == Init /\ [][Next]_vars
-----------------------------------------------------------------------------
(* Types; and a name with a placeholder has no testcase in @dedup.         *)
TypeOK ==
  /\ stable \in BOOLEAN /\ reused \in BOOLEAN
  /\ iter \in 1..(MaxIter + 1) /\ (pc # "bound" => iter <= MaxIter)
  /\ queue \in Dirs /\ tcs \in Dirs /\ loc \in Dirs /\ gbl \in Dirs
  /\ gimg \subseteq Testcases /\ del \subseteq Testcases \ Has(gbl)
  /\ limg \subseteq Testcases
  /\ lcs \subseteq CrashSites /\ gcs \subseteq CrashSites
  /\ jcs \subseteq gcs /\ done \subseteq Jobs
  /\ pc \in {"loop", "check", "resume", "scan", "kill_all", "bound",
              "aborted"}

(* The placeholder is there "to avoid stage1 from repopulating that        *)
(* testcase": what has been minimized away from @dedup never comes back,   *)
(* not from stage 1, whose directory keeps it, nor from a crash site that  *)
(* is fuzzed again and finds the same name again.                          *)
StaysDeleted == [][\A n \in del : n \in del' /\ gbl'[n].tc = None]_vars

(* Jobs lose their testcase in @dedup while AFL runs on it, but never      *)
(* their image; and a testcase that was collected without its exec map,    *)
(* which only gets a warning, never becomes a job: the driver stops when   *)
(* it comes to @dedup.                                                     *)
JobsComplete ==
  /\ Has(gbl) \cup Has(loc) \subseteq gimg
  /\ Has(loc) \subseteq HasMap(loc)
  /\ pc # "aborted" => Has(gbl) \subseteq HasMap(gbl)

(* Everything AFL has saved when an iteration is collected, for jobs that  *)
(* were terminated and jobs that were not, reaches @dedup: it is there, or *)
(* it was there and has been minimized away.                               *)
ResultsKept ==
  [][iter' # iter =>
       Has(queue) \ Found1 \subseteq Has(gbl') \cup del']_vars

(* Minimization loses no PM map: at the end of an iteration @dedup still   *)
(* has a testcase for every PM map it ever had.  It takes file systems     *)
(* that list directories in a fixed order, and names that are not used     *)
(* twice.                                                                  *)
CoverageKept ==
  [][iter' # iter /\ stable /\ ~reused => seen' = PMMaps(gbl')]_vars

(* Why.  What the collection at the end of the iteration would offer to    *)
(* @dedup only grows: a name is there as testcases/ has it, and if it is   *)
(* not there any more, as the queue has it.                                *)
Within(a, b) ==
  /\ a.tc # None => a.tc = b.tc
  /\ a.map # None => a.map = b.map
  /\ a.pm # None => a.pm = b.pm

(* The directories agree on what they share, and @dedup_sync has only what *)
(* @dedup has or had.                                                      *)
AgreeInv ==
  /\ \A n \in Testcases : Within(tcs[n], queue[n])
  /\ Has(tcs) \cap Found1 = {}
  /\ Has(loc) \subseteq Has(gbl) \cup del
  /\ \A n \in Has(loc) \cap Has(gbl) : loc[n] = gbl[n]

(* A job that has lost its testcase in @dedup lost it to one that is still *)
(* to come, or to another job, that is listed before it.                   *)
Replaced(n) ==
  /\ n \in HasPM(loc)
  /\ \/ PMMap[loc[n].pm] \in PMMaps(Offer)
     \/ \E m \in HasPM(loc) :
          Rank[m] < Rank[n] /\ PMMap[loc[m].pm] = PMMap[loc[n].pm]

CoverageInv ==
  pc # "aborted" /\ ~reused =>
    /\ Has(Offer) \cap (Has(gbl) \cup del) = {}
    /\ stable =>
         /\ \A n \in Has(loc) \ Has(gbl) : Replaced(n)
         /\ seen \subseteq PMMaps(gbl) \cup PMMaps(Offer)

IndInv == TypeOK /\ JobsComplete /\ AgreeInv /\ CoverageInv

(* @dedup is a Corpus: no name is stored a second time, none goes without  *)
(* a placeholder, and no image ever goes.                                  *)
TheCorpus == INSTANCE Corpus
  WITH Names <- Testcases, held <- Has(gbl), images <- gimg, dropped <- del

CorpusSpec == TheCorpus!Spec
-----------------------------------------------------------------------------
(* Stage2.collect_results: "Present solely to collect testcases orphaned   *)
(* on the previous instance of PMFuzz": it has nothing to do with what was *)
(* collected when its job was terminated, and has its image since.         *)
OnlyOrphans ==
  Ending => Has(Orphans) \cap limg = {}
=============================================================================
