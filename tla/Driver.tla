------------------------------- MODULE Driver -------------------------------
(***************************************************************************)
(* The process structure of PMFuzz and its main loop: main and the signal  *)
(* handlers of pmfuzz-fuzz.py, run_pmfuzz and its stages                   *)
(* (core/pmfuzz.py), State (stages/state.py), the timer of stage 1         *)
(* (helper/ptimer.py) and the statistics process, around the collection of *)
(* stage 1 (Stage1).                                                       *)
(*                                                                         *)
(* main forks: the parent drives, the child collects statistics.  Both     *)
(* work out the youngest stage from the names of the directories, the      *)
(* child while the driver makes and deletes them.  SIGINT and abort() end  *)
(* the driver, which then signals the child.                               *)
(*                                                                         *)
(* Of a scan of stage 2 only the effects on @dedup are here: Stage2 and    *)
(* DedupStore have the rest.  Stage 2 is not disabled.                     *)
(***************************************************************************)
EXTENDS Stage1

CONSTANT MaxIter  \* bound: this iteration of stage 2 never completes

ASSUME MaxIterAssumption == MaxIter \in Nat \ {0}

VARIABLES
  dirs,   \* the stage directories, by stage and iteration
  at,     \* stage and iteration at the driver's last State.sync
  timer,  \* the timer of stage 1: "zero", "running" or "expired"
  unmerged, \* does the iteration have results that @dedup has not?
  args,   \* has the driver's copy of prg_args been set?
  pidf,   \* the file @child_pid: "none", "empty" or "full"
  child,  \* the statistics process: "none", "alive" or "ended"
  parent, \* the child's copy of the global of that name
  sig,    \* SIGINT for the child: "none", "sent" or "seen"
  cpc,    \* where the child is: "list" or "read"
  view,   \* stage and iteration of the listing the child works on
  last    \* last_stage and last_iterid of the child

fileVars  == <<dirs, timer, pidf>>
childVars == <<child, parent, cpc, view, last>>
procVars  == <<args, pidf, sig, childVars>>
vars == <<queueVars, storeVars, placeVars, pc, dirs, at, timer, unmerged,
          procVars>>

Younger(a, b) == a[1] > b[1] \/ (a[1] = b[1] /\ a[2] > b[2])

Nowhere == <<0, 0>>

(* State.sync, and collect_statistics in its own words.                    *)
Youngest(S) ==
  IF S = {} THEN Nowhere
  ELSE CHOOSE d \in S : \A e \in S : e # d => Younger(d, e)

Init ==
  /\ InitStage1
  /\ pc = "start"
  /\ dirs = {} /\ at = Nowhere /\ timer = "zero" /\ unmerged = FALSE
  /\ args = FALSE /\ pidf = "none"
  /\ child = "none" /\ parent = TRUE /\ sig = "none"
  /\ cpc = "list" /\ view = Nowhere /\ last = <<1, 1>>
-----------------------------------------------------------------------------
(* main and write_child_pid.                                               *)

Fork ==
  /\ pc = "start" /\ pc' = "forked"
  /\ child' = "alive"
  /\ UNCHANGED <<queueVars, storeVars, placeVars, dirs, at, timer, unmerged,
                 args, pidf, parent, sig, cpc, view, last>>

OpenPidFile ==
  /\ pc = "forked" /\ pc' = "named"
  /\ args' = TRUE /\ pidf' = "empty"
  /\ UNCHANGED <<queueVars, storeVars, placeVars, dirs, at, timer, unmerged,
                 sig, childVars>>

WritePid ==
  /\ pc = "named" /\ pc' = "loop"
  /\ pidf' = "full"
  /\ UNCHANGED <<queueVars, storeVars, placeVars, dirs, at, timer, unmerged,
                 args, sig, childVars>>
-----------------------------------------------------------------------------
(* run_pmfuzz.                                                             *)

(* Collection comes first in every round, whatever the stage.  The mutant  *)
(* collects in stage 1 only.                                               *)
CollectInStage1 == IF at'[1] = 1 THEN "collect" ELSE "collected"
CollectAlways   == "collect"

Sync ==
  /\ pc = "loop"
  /\ at' = Youngest(dirs)
  /\ pc' = IF at' = Nowhere THEN "stage1" ELSE CollectAlways
  /\ UNCHANGED <<queueVars, storeVars, placeVars, dirs, timer, unmerged,
                 procVars>>

(* The constructor of Stage1.                                              *)
MakeStage1 ==
  /\ pc = "stage1" /\ pc' = "afl"
  /\ dirs' = dirs \cup {<<1, 1>>}
  /\ UNCHANGED <<queueVars, storeVars, placeVars, at, timer, unmerged,
                 procVars>>

(* run_afl for all cores, test_img_creation and whatsup.  An exception,    *)
(* like one where AFL has made no directory for the pid file, comes before *)
(* the first AFL process is up or after it.                                *)
RunAfl ==
  /\ pc = "afl"
  /\ aflup' \in BOOLEAN
  /\ \/ aflup' /\ pc' = "timer"
     \/ Abort
  /\ UNCHANGED <<wrote, storeVars, placeVars, dirs, at, timer, unmerged,
                 procVars>>

(* The timer of stage 1 is set and started.  The mutant sets it only.      *)
SetTimer   == UNCHANGED timer
StartTimer == timer' = "running"

StartStage1Timer ==
  /\ pc = "timer" /\ pc' = "loop"
  /\ StartTimer
  /\ UNCHANGED <<queueVars, storeVars, placeVars, dirs, at, unmerged,
                 procVars>>

TimerExpires ==
  /\ timer = "running" /\ timer' = "expired"
  /\ UNCHANGED <<queueVars, storeVars, placeVars, pc, dirs, at, unmerged,
                 procVars>>

(* Stage 1 goes on until its timer has expired, which a timer that was     *)
(* never started has; then run_stage2 makes the first iteration.  The      *)
(* mutant starts the timer in each round.                                  *)
StartedAgain == "running"
AsItStands   == timer

ReadTimer ==
  /\ pc = "collected" /\ at[1] = 1
  /\ timer' = AsItStands
  /\ IF timer' # "running"
       THEN dirs' = dirs \cup {<<2, 1>>} /\ pc' = "resume"
       ELSE pc' = "loop" /\ UNCHANGED dirs
  /\ UNCHANGED <<queueVars, storeVars, placeVars, at, unmerged, procVars>>

(* run_stage2 for an iteration there is.                                   *)
CheckCompleted ==
  /\ pc = "collected" /\ at[1] = 2
  /\ \/ pc' = "resume"
     \/ at[2] < MaxIter /\ pc' = "terminate"
  /\ UNCHANGED <<queueVars, storeVars, placeVars, dirs, at, timer, unmerged,
                 procVars>>

(* What the minimizers may do to @dedup in a scan, a termination or a      *)
(* merge of stage 2.                                                       *)
MinimizeThen(next) ==
  /\ \/ /\ \E dropped \in SUBSET Has(gbl) : Minimized(dropped)
        /\ pc' = next
     \/ Abort /\ UNCHANGED <<gbl, del>>
  /\ UNCHANGED <<queueVars, tcs, lcs, gcs, placeVars, dirs, at, timer,
                 procVars>>

(* A scan and a termination may collect results of the iteration.          *)
MayCollect == unmerged' \in {unmerged, TRUE}

Resume    == pc = "resume" /\ MinimizeThen("loop") /\ MayCollect
Terminate == pc = "terminate" /\ MinimizeThen("merge") /\ MayCollect

(* run_dedup with gbl offers @dedup all that was collected.  The mutant is *)
(* a run_dedup without gbl, which stays in the iteration.                  *)
OffersNothing == UNCHANGED unmerged
OffersAll     == unmerged' = (unmerged /\ pc' # "clear")

Merge == pc = "merge" /\ MinimizeThen("clear") /\ OffersAll

(* Stage2.clear: rmtree raises when an AFL process still saves into it.    *)
(* The mutant leaves the next iteration to the next round.                 *)
ClearAndLoop ==
  /\ pc = "clear"
  /\ dirs' = dirs \ {at} /\ pc' = "loop"
  /\ UNCHANGED <<queueVars, storeVars, placeVars, at, timer, unmerged,
                 procVars>>

Clear ==
  /\ pc = "clear"
  /\ \/ dirs' = dirs \ {at} /\ pc' = "next"
     \/ Abort /\ UNCHANGED dirs
  /\ UNCHANGED <<queueVars, storeVars, placeVars, at, timer, unmerged,
                 procVars>>

(* The next iteration.  Its mutant goes to the next stage.                 *)
NextStage == <<at[1] + 1, 1>>
NextOne   == <<2, at[2] + 1>>

NextIteration ==
  /\ pc = "next" /\ pc' = "resume"
  /\ dirs' = dirs \cup {NextOne} /\ unmerged' = FALSE
  /\ UNCHANGED <<queueVars, storeVars, placeVars, at, timer, procVars>>
-----------------------------------------------------------------------------
(* The end of the driver.                                                  *)

(* The child's pid as get_child_pid finds it.                              *)
PidKnown == args /\ pidf = "full"

(* sigint_handler ends the driver; without a pid it raises, and the        *)
(* exception is an abort.  A terminal sends SIGINT to the child as well.   *)
Interrupt ==
  /\ pc # "ended"
  /\ pc' = IF PidKnown THEN "ended" ELSE "aborting"
  /\ sig' \in IF PidKnown THEN {"sent"}
              ELSE {sig} \cup IF child = "none" THEN {} ELSE {"sent"}
  /\ UNCHANGED <<queueVars, storeVars, placeVars, dirs, at, timer, unmerged,
                 args, pidf, childVars>>

(* sigusr1_handler, to which abort() leads.  Its mutant only exits.        *)
ExitOnly == UNCHANGED sig
KillChild == IF PidKnown THEN sig' = "sent" ELSE UNCHANGED sig

HandleAbort ==
  /\ pc = "aborting" /\ pc' = "ended"
  /\ KillChild
  /\ UNCHANGED <<queueVars, storeVars, placeVars, dirs, at, timer, unmerged,
                 args, pidf, childVars>>
-----------------------------------------------------------------------------
(* The statistics process.  It is forked before write_child_pid: its own   *)
(* prg_args is None.                                                       *)

ChildStarts ==
  /\ child = "alive" /\ parent
  /\ parent' = FALSE
  /\ UNCHANGED <<queueVars, storeVars, placeVars, pc, dirs, at, timer,
                 unmerged, args, pidf, sig, child, cpc, view, last>>

(* sigint_handler in the child: it looks for a pid, which raises, or does  *)
(* nothing at all.                                                         *)
ChildHandlesSigint ==
  /\ child = "alive" /\ sig = "sent"
  /\ sig' = "seen"
  /\ child' = IF parent THEN "ended" ELSE child
  /\ UNCHANGED <<queueVars, storeVars, placeVars, pc, dirs, at, timer,
                 unmerged, args, pidf, parent, cpc, view, last>>

ChildLists ==
  /\ child = "alive" /\ ~parent /\ cpc = "list"
  /\ view' = Youngest(dirs) /\ cpc' = "read"
  /\ UNCHANGED <<queueVars, storeVars, placeVars, pc, dirs, at, timer,
                 unmerged, args, pidf, sig, child, parent, last>>

(* It reads from that directory and notes a transition of stages.  Where   *)
(* the directory has gone it passes over it and tries again later.         *)
ChildReads ==
  /\ child = "alive" /\ cpc = "read"
  /\ cpc' = "list" /\ view' = Nowhere
  /\ last' = IF view \in dirs THEN view ELSE last
  /\ UNCHANGED <<queueVars, storeVars, placeVars, pc, dirs, at, timer,
                 unmerged, args, pidf, sig, child, parent>>
-----------------------------------------------------------------------------
Collect ==
  /\ CollectStage1
  /\ UNCHANGED <<dirs, at, timer, unmerged, procVars>>

Afl ==
  /\ \E n \in Entries : AflSaves(n)
  /\ UNCHANGED <<dirs, at, timer, unmerged, procVars>>

DriverStep ==
  \/ Fork \/ OpenPidFile \/ WritePid \/ Sync \/ MakeStage1 \/ RunAfl
  \/ StartStage1Timer \/ Collect \/ ReadTimer \/ CheckCompleted \/ Resume
  \/ Terminate \/ Merge \/ Clear \/ NextIteration \/ HandleAbort

ChildStep == ChildStarts \/ ChildHandlesSigint \/ ChildLists \/ ChildReads

Next == DriverStep \/ Interrupt \/ ChildStep \/ TimerExpires \/ Afl

(* Nothing makes AFL save anything, and nothing makes anybody interrupt.   *)
Spec ==
  /\ Init /\ [][Next]_vars
  /\ WF_vars(DriverStep) /\ WF_vars(ChildStep) /\ WF_vars(TimerExpires)
-----------------------------------------------------------------------------
(* Types, and the program counters there are.                              *)
TypeOK ==
  /\ StoreTypes
  /\ pc \in {"start", "forked", "named", "loop", "stage1", "afl", "timer",
             "collect", "copy", "execmap", "pmmap", "image", "crash",
             "collected", "resume", "terminate", "merge", "clear", "next",
             "aborting", "ended"}
  /\ dirs \subseteq {<<1, 1>>} \cup {<<2, i>> : i \in 1..MaxIter}
  /\ at \in dirs \cup {Nowhere} \cup {<<2, i>> : i \in 1..MaxIter}
  /\ timer \in {"zero", "running", "expired"} /\ unmerged \in BOOLEAN
  /\ args \in BOOLEAN /\ pidf \in {"none", "empty", "full"}
  /\ child \in {"none", "alive", "ended"} /\ parent \in BOOLEAN
  /\ sig \in {"none", "sent", "seen"} /\ cpc \in {"list", "read"}
  /\ view \in Nat \X Nat /\ last \in Nat \X Nat

InCollection == pc \in {"execmap", "pmmap", "image"}

(* A testcase of stage 1 has its exec map and its image in the directory   *)
(* where it is, apart from the one that is being collected: update_local   *)
(* copies both from @dedup without looking, and update_global aborts       *)
(* without the image.                                                      *)
StoresComplete ==
  /\ \A n \in Has(tcs) :
       \/ n = cur /\ (InCollection \/ pc \in {"aborting", "ended"})
       \/ tcs[n].map # "none" /\ tcs[n].img
  /\ \A n \in Has(gbl) : gbl[n].map # "none" /\ gbl[n].img

(* There is no second stage before the time of stage 1 is over.            *)
Stage2AfterTimer == (\E d \in dirs : d[1] = 2) => timer = "expired"

(* Neither process falls back: the driver's stage and iteration only grow, *)
(* and the statistics move to a younger one or, when an iteration has been *)
(* deleted and the next is not there yet, to stage 1 for a while.          *)
NeverBack ==
  [][/\ at' # at => Younger(at', at)
     /\ last' # last => Younger(last', last) \/ last' = <<1, 1>>]_vars

(* However the driver ends, by a signal or by an abort, it has told the    *)
(* statistics process, once there is a pid to be found.                    *)
ChildTold == pc = "ended" /\ pidf = "full" => sig # "none"

(* What AFL has completed and the driver has not begun to collect is in    *)
(* @dedup with all its files in the end, or minimized away from it; and so *)
(* is every crash site.                                                    *)
NothingLost ==
  /\ \A n \in Entries :
       wrote[n] = LastStep(n) /\ tcs[n].tc = "none"
         ~> gbl[n] = Whole(n) \/ n \in del \/ pc = "ended"
  /\ \A x \in CrashSites : x \in lcs ~> x \in gcs \/ pc = "ended"

(* What AFL has completed is on its way to @dedup, with all its files:     *)
(* still in the queue and not begun, or being collected with no file       *)
(* missing so far, or collected and to be offered, or there, or minimized  *)
(* away.                                                                   *)
InQueue(n) == wrote[n] = LastStep(n) /\ tcs[n].tc = "none"

HalfCollected(n) ==
  /\ n = cur /\ InCollection /\ wrote[n] = LastStep(n)
  /\ tcs[n].tc = "full"
  /\ pc # "execmap" => tcs[n].map = "full"
  /\ pc = "image" => tcs[n].pm = Whole(n).pm

OnTheWay(n) ==
  \/ InQueue(n) \/ HalfCollected(n)
  \/ tcs[n] = Whole(n) /\ gbl[n].tc = "none"
  \/ gbl[n] = Whole(n) \/ n \in del

(* No step of the driver, of AFL or of the minimizers takes it off its     *)
(* way: the collection neither mixes an entry with what AFL writes later   *)
(* nor passes it over, and nothing collected is overwritten.               *)
NeverLost ==
  [][\A n \in Entries :
       OnTheWay(n) => OnTheWay(n)' \/ pc' \in {"aborting", "ended"}]_vars

(* Stage 1 gives way to stage 2.                                           *)
Stage2Starts ==
  timer = "running" ~> (\E d \in dirs : d[1] = 2) \/ pc = "ended"
-----------------------------------------------------------------------------
(* What the directory goes through is Lifecycle.  Between two iterations   *)
(* there is a while without a directory for either.                        *)
Now == IF Younger(at, Youngest(dirs)) THEN at ELSE Youngest(dirs)

Collecting == {"collect", "copy", "execmap", "pmmap", "image", "crash"}
Stopped    == {"aborting", "ended"}

(* Deduplication is over when @dedup has been offered every testcase of    *)
(* stage 1, and an iteration is when it has been offered its own results,  *)
(* wherever the driver is by then.                                         *)
Offered == Has(tcs) \subseteq Has(gbl) \cup del

Phase ==
  CASE pc \in Collecting                          -> "dedup"
    [] pc \in {"collected", "terminate", "merge"} -> IF Offered THEN "deduped"
                                                     ELSE "dedup"
    [] pc \in {"clear", "next"}                   -> IF unmerged THEN "deduped"
                                                     ELSE "complete"
    [] pc \in Stopped                             -> "end"
    [] OTHER                                      -> "fuzz"

L == INSTANCE Lifecycle WITH stage <- Now[1], iter <- Now[2], phase <- Phase

LifecycleSpec == L!Spec

(* And @dedup, with the collection of stage 1 and the minimizers of stage  *)
(* 2 taking turns at it, is a Corpus.                                      *)
TheCorpus == INSTANCE Corpus
  WITH Names <- Entries, held <- Has(gbl),
       images <- {n \in Entries : gbl[n].img}, dropped <- del

CorpusSpec == TheCorpus!Spec
-----------------------------------------------------------------------------
(* The inductive invariant behind all of this, in parts.                   *)

(* There is never more than one iteration of stage 2.                      *)
One    == {<<1, 1>>}
Two(i) == {<<1, 1>>, <<2, i>>}
Iters  == 1..MaxIter
Last   == 1..(MaxIter - 1)

(* Which directories there are and what the driver has seen of them.       *)
Empty    == dirs = {} /\ at = Nowhere
Made     == dirs = One /\ at = Nowhere
First    == dirs = One /\ at = <<1, 1>>
Begun    == dirs = Two(1) /\ at = <<1, 1>>
Known(i) == dirs = Two(i) /\ at = <<2, i>>
Gone(i)  == dirs = One /\ at = <<2, i>>
Moved(i) == dirs = Two(i + 1) /\ at = <<2, i>>

(* And where it is then.                                                   *)
Round   == {"loop", "collected"} \cup Collecting \cup Stopped
Ending  == {"terminate", "merge", "clear"}
Between == {"resume", "loop"} \cup Stopped

DirsInv ==
  \/ Empty /\ pc \in {"start", "forked", "named", "loop", "stage1"}
                       \cup Stopped
  \/ Made /\ pc \in {"afl", "timer", "loop"} \cup Stopped
  \/ First /\ pc \in Round
  \/ Begun /\ pc \in Between
  \/ \E i \in Iters : Known(i) /\ pc \in Round \cup {"resume"}
  \/ \E i \in Last : Known(i) /\ pc \in Ending
  \/ \E i \in Last : Gone(i) /\ pc \in {"next"} \cup Stopped
  \/ \E i \in Last : Moved(i) /\ pc \in Between

(* The timer is running when it is looked at, and over with stage 2.       *)
HasStage2 == \E d \in dirs : d[1] = 2

TimerInv ==
  /\ First \/ (Made /\ pc = "loop") => timer # "zero"
  /\ at[1] = 2 \/ HasStage2 => timer = "expired"

(* The pid file is not there before prg_args is set.                       *)
PidInv == (pidf # "none" \/ pc = "named" => args) /\ ChildTold

(* Testcases are complete once they have been collected, and the entry     *)
(* under way is as complete as the driver has come with it.                *)
Complete(n) == tcs[n].map # "none" /\ tcs[n].img

Images == {n \in Entries : gbl[n].img}

StoreInv ==
  /\ \A n \in Has(tcs) \ {cur} : Complete(n)
  /\ pc \notin {"execmap", "pmmap", "image"} \cup Stopped
       => (cur \in Has(tcs) => Complete(cur))
  /\ pc \in {"pmmap", "image"} => tcs[cur].map # "none"
  /\ \A n \in Has(gbl) : gbl[n].map # "none" /\ gbl[n].img
  /\ Images = Has(gbl) \cup del

(* What NeverLost rests on: the listing that is being worked off has       *)
(* nothing that is in testcases/ already, and what has an image there or   *)
(* is known to @dedup is in testcases/, collected to the end.              *)
WayInv ==
  /\ \A n \in todo : wrote[n] > 0
  /\ pc \in {"copy", "execmap", "pmmap", "image", "crash"}
       => todo \cap Has(tcs) = {}
  /\ InCollection => cur \in Has(tcs)
  /\ \A n \in Has(gbl) \cup del \cup {m \in Entries : tcs[m].img} :
       n \in Has(tcs) /\ ~(n = cur /\ InCollection)

(* What has been collected has been offered to @dedup, of stage 1 when the *)
(* collection is over, of an iteration before it is deleted.               *)
OfferInv ==
  /\ pc \in {"collected", "terminate", "merge"} => Offered
  /\ pc \in {"clear", "next"} => ~unmerged

(* The child has seen nothing younger than there is.                       *)
ChildInv ==
  /\ view = Nowhere \/ view = <<1, 1>> \/ \E i \in Iters : view = <<2, i>>
  /\ \/ last = <<1, 1>>
     \/ /\ \E i \in Iters : last = <<2, i>>
        /\ Now[1] = 2 /\ last[2] <= Now[2]

IndInv ==
  /\ TypeOK /\ DirsInv /\ TimerInv /\ PidInv /\ StoreInv /\ ChildInv
  /\ WayInv /\ OfferInv
=============================================================================
