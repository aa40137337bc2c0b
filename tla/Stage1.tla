------------------------------- MODULE Stage1 -------------------------------
(***************************************************************************)
(* Stage 1: class Stage1 (stages/stage1.py), and what collect_stage1       *)
(* (core/pmfuzz.py) does with its results.                                 *)
(*                                                                         *)
(* The AFL processes of stage 1 run as long as PMFuzz does.  The driver    *)
(* collects from the queue directory of the master while AFL writes into   *)
(* it: of an entry AFL writes first the testcase, then its exec map, then, *)
(* if the execution touched persistent memory, its PM map, and each file   *)
(* is there, empty, before it is written.                                  *)
(***************************************************************************)
EXTENDS Naturals, FiniteSets

CONSTANTS
  Entries,     \* entries of the master's queue, by the name they are given
  Seeds,       \* those AFL makes from its input directory
  TouchesPM,   \* those whose execution touches persistent memory
  CrashSites,  \* names of crash images
  CrashOf,     \* the entry a crash image is made from
  Finj         \* pmfuzz.failure_injection.enable

ASSUME EntriesAssumption ==
  /\ Entries # {} /\ IsFiniteSet(Entries) /\ IsFiniteSet(CrashSites)
  /\ Seeds \subseteq TouchesPM /\ TouchesPM \subseteq Entries
  /\ CrashOf \in [CrashSites -> Entries]
  /\ Finj \in BOOLEAN

VARIABLES
  aflup,  \* have the AFL processes of stage 1 been started?
  wrote,  \* how far AFL has come with an entry: see QueueFiles
  tcs,    \* files of each entry in testcases/ and pm_images/ of stage 1
  gbl,    \* files of each entry in @dedup
  del,    \* entries with a placeholder in @dedup
  lcs,    \* crash sites in pm_images/ of stage 1
  gcs,    \* crash sites in @dedup
  todo,   \* gen_cases that collect_results has still to look at
  cur,    \* the entry that is being collected
  pc      \* where the driver thread is

queueVars == <<aflup, wrote>>
storeVars == <<tcs, gbl, del, lcs, gcs>>
placeVars == <<todo, cur>>

File  == {"none", "empty", "full"}
Files == [tc : File, map : File, pm : File, img : BOOLEAN]

NoFiles == [tc |-> "none", map |-> "none", pm |-> "none", img |-> FALSE]

(* The k-th file of an entry is created in step 2k - 1, filled in step 2k. *)
FileAt(w, k) == IF w < 2 * k - 1 THEN "none"
                ELSE IF w = 2 * k - 1 THEN "empty" ELSE "full"

QueueFiles(n) == [tc |-> FileAt(wrote[n], 1), map |-> FileAt(wrote[n], 2),
                  pm |-> FileAt(wrote[n], 3)]

LastStep(n) == IF n \in TouchesPM THEN 6 ELSE 4

(* What an entry leaves when it is collected after AFL is done with it.    *)
Whole(n) == [tc |-> "full", map |-> "full",
             pm |-> IF n \in TouchesPM THEN "full" ELSE "none", img |-> TRUE]

Has(dir) == {n \in Entries : dir[n].tc # "none"}

Some == CHOOSE n \in Entries : TRUE

InitStage1 ==
  /\ aflup = FALSE
  /\ wrote = [n \in Entries |-> 0]
  /\ tcs = [n \in Entries |-> NoFiles] /\ gbl = [n \in Entries |-> NoFiles]
  /\ del = {} /\ lcs = {} /\ gcs = {}
  /\ todo = {}
  /\ cur = Some   \* nothing yet
-----------------------------------------------------------------------------
(* AFL.  It copies its inputs to the queue before the first runs, which    *)
(* give their maps; everything else it finds by fuzzing.                   *)

AflSaves(n) ==
  /\ aflup
  /\ wrote[n] < LastStep(n)
  /\ wrote' = [wrote EXCEPT ![n] =
                 IF n \in Seeds /\ @ = 0 THEN 2 ELSE @ + 1]
  /\ n \notin Seeds => \A s \in Seeds : wrote[s] = LastStep(s)
  /\ UNCHANGED <<aflup, storeVars, placeVars, pc>>
-----------------------------------------------------------------------------
(* Stage1.collect.                                                         *)

(* abort(), or an exception, which except_hook turns into one.             *)
Abort == pc' = "aborting"

(* collect_results: the queue is listed once, and what is in testcases/    *)
(* already is left alone.                                                  *)
ListQueue ==
  /\ pc = "collect"
  /\ todo' = {n \in Entries : wrote[n] > 0} \ Has(tcs)
  /\ pc' = "copy"
  /\ UNCHANGED <<queueVars, storeVars, cur>>

CopyTestcase(n) ==
  /\ pc = "copy" /\ n \in todo
  /\ todo' = todo \ {n} /\ cur' = n
  /\ tcs' = [tcs EXCEPT ![n].tc = QueueFiles(n).tc]
  /\ pc' = "execmap"
  /\ UNCHANGED <<queueVars, gbl, del, lcs, gcs>>

(* _collect_map needs the exec map ...  Its mutant takes it if it is       *)
(* there, as update_global does.                                           *)
ExecMapWanted(n) ==
  /\ tcs' = [tcs EXCEPT ![n].map = QueueFiles(n).map]
  /\ pc' = "pmmap"

ExecMapNeeded(n) ==
  IF QueueFiles(n).map # "none"
    THEN /\ tcs' = [tcs EXCEPT ![n].map = QueueFiles(n).map]
         /\ pc' = "pmmap"
    ELSE Abort /\ UNCHANGED tcs    \* "Cannot find ..."

CopyExecMap ==
  /\ pc = "execmap"
  /\ ExecMapNeeded(cur)
  /\ UNCHANGED <<queueVars, gbl, del, lcs, gcs, placeVars>>

(* ... and takes the PM map if it is there.  The mutant takes none.        *)
LeavePMMap ==
  /\ pc = "pmmap" /\ pc' = "image"
  /\ UNCHANGED <<queueVars, storeVars, placeVars>>

CopyPMMap ==
  /\ pc = "pmmap"
  /\ tcs' = [tcs EXCEPT ![cur].pm = QueueFiles(cur).pm]
  /\ pc' = "image"
  /\ UNCHANGED <<queueVars, gbl, del, lcs, gcs, placeVars>>

(* Target.gen_img runs the target on the copy of the testcase; a target    *)
(* that fails or leaves no image is an abort.                              *)
GenImage ==
  /\ pc = "image"
  /\ \/ tcs' = [tcs EXCEPT ![cur].img = TRUE] /\ pc' = "crash"
     \/ Abort /\ UNCHANGED tcs
  /\ UNCHANGED <<queueVars, gbl, del, lcs, gcs, placeVars>>

(* One time in twenty tc_gen_crash_sites injects failures and compresses   *)
(* the images they leave, in a pool of processes whose last failures go    *)
(* unnoticed.                                                              *)
GenCrashSites ==
  /\ pc = "crash"
  /\ \/ UNCHANGED lcs /\ pc' = "copy"
     \/ /\ Finj
        /\ \E packed \in SUBSET {x \in CrashSites : CrashOf[x] = cur} :
             lcs' = lcs \cup packed
        /\ pc' = "copy"
     \/ Finj /\ Abort /\ UNCHANGED lcs
  /\ UNCHANGED <<queueVars, tcs, gbl, del, gcs, placeVars>>
-----------------------------------------------------------------------------
(* Dedup.update_global for stage 1: names that are neither in @dedup nor   *)
(* have a placeholder there, and the crash sites, none of them compared    *)
(* with another.  The mutant does not look for a placeholder.              *)
NewInGlobalByName == {n \in Has(tcs) : gbl[n].tc = "none"}
NewInGlobal == {n \in Has(tcs) : gbl[n].tc = "none" /\ n \notin del}

(* local_testcases_list aborts when a testcase has no image.               *)
ImagesMissing == {n \in Has(tcs) : ~tcs[n].img}

UpdateGlobal ==
  /\ pc = "copy" /\ todo = {}
  /\ IF ImagesMissing = {}
       THEN /\ gbl' = [n \in Entries |->
                         IF n \in NewInGlobal THEN tcs[n] ELSE gbl[n]]
            /\ gcs' = gcs \cup lcs
            /\ pc' = "collected"
       ELSE Abort /\ UNCHANGED <<gbl, gcs>>
  /\ UNCHANGED <<queueVars, tcs, del, lcs, placeVars>>

CollectStage1 ==
  \/ ListQueue \/ \E n \in Entries : CopyTestcase(n)
  \/ CopyExecMap \/ CopyPMMap \/ GenImage \/ GenCrashSites \/ UpdateGlobal

(* What the minimizers of stage 2 may do to @dedup: DedupStore says which. *)
(* A testcase goes with its maps and leaves its image and a placeholder.   *)
Minimized(dropped) ==
  /\ gbl' = [n \in Entries |->
               IF n \in dropped THEN [NoFiles EXCEPT !.img = TRUE] ELSE gbl[n]]
  /\ del' = del \cup dropped
-----------------------------------------------------------------------------
(* Types of the queue, of the stores and of the places in them.            *)
StoreTypes ==
  /\ aflup \in BOOLEAN /\ wrote \in [Entries -> 0..6]
  /\ tcs \in [Entries -> Files] /\ gbl \in [Entries -> Files]
  /\ del \subseteq Entries
  /\ lcs \subseteq CrashSites /\ gcs \subseteq CrashSites
  /\ todo \subseteq Entries /\ cur \in Entries
=============================================================================
