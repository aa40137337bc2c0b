------------------------------- MODULE Stage2 -------------------------------
(***************************************************************************)
(* The second stage of PMFuzz: class Stage2 (stages/stage2.py) as the      *)
(* driver loop of core/pmfuzz.py uses it.                                  *)
(*                                                                         *)
(* An iteration takes its inputs from the global store @dedup, gives every *)
(* input a PTimer and an AFL process of its own, at most a configured      *)
(* number at a time, terminates an AFL process once its timer has expired  *)
(* and collects what AFL left in its queue directory.  When every testcase *)
(* has had its time the results go to the global store, the directory of   *)
(* the iteration is deleted and the next iteration starts.                 *)
(*                                                                         *)
(* The driver is one thread; the AFL processes and the clock run beside    *)
(* it, so every step of the scan sees timers that may have expired since   *)
(* the step before, and AFL processes that may have died.                  *)
(***************************************************************************)
EXTENDS Naturals, FiniteSets

CONSTANTS
  Testcases,   \* names of testcases
  CrashSites,  \* names of crash images made by failure injection
  Stage1,      \* the parent of what stage 1 finds
  Parent,      \* the job whose AFL run, or whose image, a name comes from
  IterCnt,     \* nh.iter_cnt of a name: the commas in it, plus one
  Selected,    \* names that should_use_tc / should_use_cs accept (select_ids)
  Cores,       \* --cores-stage2
  Finj,        \* pmfuzz.failure_injection.enable
  SameStart,   \* for a crash site: those whose names begin with its name
  AflMayDie,   \* do AFL processes die on their own?
  MayFail,     \* may a step of collecting and storing results fail?
  MaxIter      \* bound: the model stops after this many iterations

Jobs == Testcases \cup CrashSites

ASSUME JobsAssumption ==
  /\ IsFiniteSet(Testcases) /\ IsFiniteSet(CrashSites)
  /\ Testcases \cap CrashSites = {}
  /\ Stage1 \notin Jobs
  /\ Parent \in [Jobs -> Jobs \cup {Stage1}]
  /\ Selected \subseteq Jobs
  /\ SameStart \in [CrashSites -> SUBSET CrashSites]
  /\ \A x \in CrashSites : x \in SameStart[x]

ASSUME ConfigAssumption ==
  /\ Cores \in Nat \ {0} /\ MaxIter \in Nat \ {0}
  /\ Finj \in BOOLEAN /\ AflMayDie \in BOOLEAN /\ MayFail \in BOOLEAN

(* A child is named <parent>,<id>: one comma more.  A crash site is named  *)
(* <parent>.<id>.<failure id>: no comma more.                              *)
ASSUME NamesAssumption ==
  /\ IterCnt \in [Jobs -> Nat \ {0}]
  /\ \A t \in Testcases : IterCnt[t] =
       IF Parent[t] = Stage1 THEN 1 ELSE IterCnt[Parent[t]] + 1
  /\ \A x \in CrashSites : IterCnt[x] =
       IF Parent[x] = Stage1 THEN 1 ELSE IterCnt[Parent[x]]

VARIABLES
  iter,     \* the current iteration: directory stage=2,iter=<iter>
  gbl,      \* names in the global store @dedup
  lds,      \* names in the local store @dedup_sync of this iteration
  timer,    \* state of each name's PTimer file
  pidf,     \* jobs whose pid file exists
  afl,      \* jobs whose AFL process is alive and has not been told to end
  ending,   \* jobs whose AFL process is still there after its SIGTERM
  oldimgs,  \* crash sites whose image of an earlier iteration is still there
  leaked,   \* history: AFL processes whose directory was deleted under them
  found,    \* results in the AFL queue directories of this iteration
  late,     \* history: those that came after collect_results
  results,  \* results collected into testcases/ and pm_images/
  born,     \* history: the iteration that brought a name to @dedup
  pc,       \* where the driver thread is
  todo,     \* jobs the current loop over a list has still to visit
  rc        \* run_count of the current loop

vars == <<iter, gbl, lds, timer, pidf, afl, ending, oldimgs, leaked, found,
          late, results, born, pc, todo, rc>>

(* What only AFL processes and the steps that start and stop them change,  *)
(* and what only finding and collecting results change.                    *)
procVars   == <<timer, pidf, afl, ending, oldimgs, leaked>>
resultVars == <<found, late, results, born>>

(* What AFL may save while it fuzzes j, and the crash sites made from what *)
(* it saved.                                                               *)
Children(j)  == {t \in Testcases : Parent[t] = j}
CrashesOf(j) == IF Finj THEN {x \in CrashSites : Parent[x] = j} ELSE {}

Running(S) == {j \in S : timer[j] = "running"}

(* Cores are split in two halves, none of them empty, when crash sites are *)
(* fuzzed too.                                                             *)
Half    == IF Cores \div 2 = 0 THEN 1 ELSE Cores \div 2
CoresTC == IF Finj THEN Half ELSE Cores
CoresCS == IF Finj THEN Half ELSE 0
Slots   == IF pc = "tc" THEN CoresTC ELSE CoresCS

(* The inputs update_local copies: the testcases of this iteration, and    *)
(* every crash site of the global store.  Their mutant: what is left of    *)
(* earlier iterations too.                                                 *)
InputsUpTo ==
  {t \in gbl \cap Testcases : IterCnt[t] <= iter} \cup (gbl \cap CrashSites)
IterationInputs ==
  {t \in gbl \cap Testcases : IterCnt[t] = iter} \cup (gbl \cap CrashSites)

(* Property Stage2.completed.  Its mutants: not waiting for the timers, and *)
(* reading the list of the global store.                                   *)
CompletedWhenStarted == \A t \in lds \cap Testcases : timer[t] # "new"
CompletedGlobally    == \A t \in gbl \cap Testcases : timer[t] = "expired"
Completed == \A t \in lds \cap Testcases : timer[t] = "expired"

-----------------------------------------------------------------------------
(* Stage 1 makes its crash sites from testcases it collects.               *)
Stage1Stores ==
  {S \in SUBSET (Children(Stage1) \cup CrashesOf(Stage1)) :
     S \cap CrashSites # {} => S \cap Testcases # {}}

(* The driver enters iteration 1 once stage 1 has been collected.          *)
Init ==
  /\ iter = 1
  /\ gbl \in Stage1Stores
  /\ lds = {} /\ pidf = {} /\ afl = {} /\ ending = {} /\ oldimgs = {}
  /\ found = {} /\ late = {} /\ results = {}
  /\ timer = [j \in Jobs |-> "new"]
  /\ leaked = 0
  /\ born = [j \in Jobs |-> 0]
  /\ pc = "resume" /\ todo = {} /\ rc = 0

(* Top of the driver loop: collect_stage1 adds what stage 1 found since.   *)
CollectStage1 ==
  /\ pc = "loop"
  /\ \E new \in Stage1Stores : gbl' = gbl \cup new
  /\ pc' = "check"
  /\ UNCHANGED <<iter, lds, procVars, resultVars, todo, rc>>

(* run_stage2: a completed iteration is terminated, any other resumes.     *)
CheckCompleted ==
  /\ pc = "check"
  /\ IF Completed
       THEN pc' = "kill_all" /\ todo' = lds \cap Testcases
       ELSE pc' = "resume"   /\ UNCHANGED todo
  /\ UNCHANGED <<iter, gbl, lds, procVars, resultVars, rc>>

(* get_run_count opens the pid file of each running job (an exception when *)
(* there is none) and aborts when the process is gone.  A dead child that  *)
(* has not been reaped still has its pid.                                  *)
CountFails(S) == \E j \in Running(S) : j \notin pidf \cap afl
CountWorks(S) == Running(S) \subseteq pidf

(* resume: update the local store, then count what runs.                   *)
Resume ==
  /\ pc = "resume"
  /\ LET local == lds \cup IterationInputs
         tcs   == local \cap Testcases \cap Selected
     IN /\ lds' = local
        /\ CountWorks(local \cap Selected)
        /\ rc' = Cardinality(Running(tcs))
        /\ todo' = tcs
  /\ pc' = "tc"
  /\ UNCHANGED <<iter, gbl, procVars, resultVars>>

(* An abort of PMFuzz: the driver stops, the AFL processes do not.         *)
Abort ==
  /\ pc' = "aborted"
  /\ UNCHANGED <<iter, gbl, lds, procVars, resultVars, todo, rc>>

(* A step of collect_stage1, of update_local or of terminate fails: one of *)
(* the worker processes (FAILURE_EXIT), or for want of an image or an exec *)
(* map.  Stage1 and DedupStore say when.                                   *)
CollectionFails ==
  /\ MayFail
  /\ pc \in {"loop", "resume"} \/ (pc = "kill_all" /\ todo = {})
  /\ Abort

ResumeAborts ==
  /\ pc = "resume"
  /\ CountFails(lds \cap Selected)
  /\ lds' = lds \cup IterationInputs
  /\ pc' = "aborted"
  /\ UNCHANGED <<iter, gbl, procVars, resultVars, todo, rc>>

(* The testcases are done: go on with the crash sites, or go to sleep.     *)
EndTestcases ==
  /\ pc = "tc" /\ todo = {}
  /\ LET cs == lds \cap CrashSites \cap Selected
     IN IF Finj
          THEN /\ CountWorks(cs)
               /\ rc' = Cardinality(Running(cs))
               /\ todo' = cs
               /\ pc' = "cs"
          ELSE pc' = "loop" /\ UNCHANGED <<todo, rc>>
  /\ UNCHANGED <<iter, gbl, lds, procVars, resultVars>>

EndTestcasesAborts ==
  /\ pc = "tc" /\ todo = {} /\ Finj
  /\ CountFails(lds \cap CrashSites \cap Selected)
  /\ Abort

EndCrashSites ==
  /\ pc = "cs" /\ todo = {}
  /\ pc' = "loop"
  /\ UNCHANGED <<iter, gbl, lds, procVars, resultVars, todo, rc>>
-----------------------------------------------------------------------------
(* One visit of the loops over the testcases and over the crash sites.     *)

HasSpareSlot == rc + 1 < Slots
HasSlot      == rc < Slots

(* The run count after a start.                                            *)
CountUnchanged   == rc
CountAfterStart  == rc + 1

(* A new job gets a started timer, an AFL process and a pid file.          *)
Start(j) ==
  /\ pc \in {"tc", "cs"} /\ j \in todo
  /\ timer[j] = "new" /\ HasSlot
  /\ timer' = [timer EXCEPT ![j] = "running"]
  /\ pidf'  = pidf \cup {j}
  /\ afl'   = afl \cup {j}
  /\ rc'    = CountAfterStart
  /\ todo'  = todo \ {j}
  /\ UNCHANGED <<iter, gbl, lds, ending, oldimgs, leaked, resultVars, pc>>

(* run_afl finds no directory to put the pid file into, or _run_cs finds   *)
(* its AFL process dead: the timer has been started by then.               *)
StartAborts(j) ==
  /\ AflMayDie
  /\ pc \in {"tc", "cs"} /\ j \in todo
  /\ timer[j] = "new" /\ HasSlot
  /\ timer' = [timer EXCEPT ![j] = "running"]
  /\ pc' = "aborted"
  /\ UNCHANGED <<iter, gbl, lds, pidf, afl, ending, oldimgs, leaked,
                 resultVars, todo, rc>>

Skip(j) ==
  /\ pc \in {"tc", "cs", "kill_all"} /\ j \in todo
  /\ \/ timer[j] = "new" /\ (pc = "kill_all" \/ ~HasSlot)
     \/ timer[j] = "running"
     \/ timer[j] = "expired" /\ j \notin pidf
  /\ todo' = todo \ {j}
  /\ UNCHANGED <<iter, gbl, lds, procVars, resultVars, pc, rc>>

(* resume leaves run_count alone when it terminates a job (its "todo:      *)
(* run_count -= 1"): a job that had expired when it counted was not in it. *)
CountDecremented      == rc - 1
CountAfterTermination == rc

(* The image directory of a crash site is pmfuzz-cs-run-<name> and a       *)
(* random suffix, new in each iteration.  When it is to be deleted it must *)
(* be the only one whose name begins like this.                            *)
OneMatch(x) ==
  SameStart[x] \cap pidf \subseteq {x} /\ SameStart[x] \cap oldimgs = {}

Due(j) ==
  /\ pc \in {"tc", "cs", "kill_all"} /\ j \in todo
  /\ timer[j] = "expired" /\ j \in pidf

(* SIGTERM, and the pid file is removed.  Nobody waits for AFL to end.     *)
Told(j) ==
  /\ pidf' = pidf \ {j}
  /\ afl'  = afl \ {j}
  /\ ending' = ending \cup (afl \cap {j})

(* _terminate_testcase and _terminate_cs: signal AFL, remove its image,    *)
(* collect the queue directory, make crash images from some of the results.*)
Terminate(j) ==
  /\ Due(j) /\ (j \in CrashSites => OneMatch(j))
  /\ Told(j)
  /\ \E crashes \in SUBSET CrashesOf(j) :
       /\ found \cap Children(j) = {} => crashes = {}
       /\ results' = results \cup (found \cap Children(j)) \cup crashes
  /\ todo' = todo \ {j}
  /\ rc'   = CountAfterTermination
  /\ UNCHANGED <<iter, gbl, lds, timer, oldimgs, leaked, found, late, born,
                 pc>>

(* os.kill on a process that is gone and reaped raises; "Too many matches  *)
(* for glob"; or the collection fails.                                     *)
TerminateAborts(j) ==
  /\ Due(j)
  /\ \/ j \notin afl /\ UNCHANGED <<pidf, afl, ending>>
     \/ MayFail /\ Told(j)
     \/ j \in CrashSites /\ ~OneMatch(j) /\ Told(j)
  /\ pc' = "aborted"
  /\ UNCHANGED <<iter, gbl, lds, timer, oldimgs, leaked, resultVars, todo, rc>>

(* collect_results takes from the queue directories what was not collected *)
(* on termination.                                                         *)
CollectNothing == results
CollectOrphans == results \cup found

(* The timer files are in @dedup_sync and go with the directory.           *)
TimersKept    == timer
ClearedTimers == [j \in Jobs |-> "new"]

(* A completed iteration: collect() and the global deduplication, which    *)
(* updates @dedup (what its minimizers remove is left to DedupStore).      *)
CollectIteration ==
  /\ pc = "kill_all" /\ todo = {}
  /\ (gbl \cup CollectOrphans) \cap Testcases # {}
  /\ results' = CollectOrphans
  /\ gbl' = gbl \cup CollectOrphans
  /\ born' = [j \in Jobs |-> IF j \in gbl' \ gbl THEN iter ELSE born[j]]
  /\ pc' = "clear"
  /\ UNCHANGED <<iter, lds, procVars, found, late, todo, rc>>

(* clear() deletes the directory of the iteration and with it the timers,  *)
(* the pid files and the queues, but no process and no image.              *)
EndIteration ==
  /\ pc = "clear"
  /\ leaked' = leaked + Cardinality(afl)
  /\ oldimgs' = oldimgs \cup (pidf \cap CrashSites)
  /\ afl' = {} /\ ending' = {} /\ pidf' = {} /\ lds' = {}
  /\ found' = {} /\ late' = {} /\ results' = {}
  /\ timer' = ClearedTimers
  /\ iter' = iter + 1
  /\ todo' = {}
  /\ pc' = IF iter = MaxIter THEN "bound" ELSE "resume"
  /\ UNCHANGED <<gbl, born, rc>>

(* rmtree raises when AFL creates a file in a directory it has just        *)
(* emptied.                                                                *)
ClearAborts == pc = "clear" /\ afl \cup ending # {} /\ Abort

(* Deduplicating a global store with no testcase raises (zip of nothing).  *)
EndIterationAborts ==
  /\ pc = "kill_all" /\ todo = {}
  /\ (gbl \cup CollectOrphans) \cap Testcases = {}
  /\ Abort
-----------------------------------------------------------------------------
(* The environment: time, and the AFL processes.                           *)

Expire(j) ==
  /\ timer[j] = "running"
  /\ timer' = [timer EXCEPT ![j] = "expired"]
  /\ UNCHANGED <<iter, gbl, lds, pidf, afl, ending, oldimgs, leaked,
                 resultVars, pc, todo, rc>>

(* AFL saves a result: it may do so after its SIGTERM, which it handles in *)
(* its own time, when its queue directory has been listed.                 *)
AflSaves(j) ==
  /\ j \in afl \cup ending
  /\ \E c \in Children(j) \ found :
       /\ found' = found \cup {c}
       /\ late'  = IF pc = "clear" THEN late \cup {c} ELSE late
  /\ UNCHANGED <<iter, gbl, lds, procVars, results, born, pc, todo, rc>>

AflDies(j) ==
  /\ AflMayDie /\ j \in afl
  /\ afl' = afl \ {j}
  /\ UNCHANGED <<iter, gbl, lds, timer, pidf, ending, oldimgs, leaked,
                 resultVars, pc, todo, rc>>

AflEnds(j) ==
  /\ j \in ending
  /\ ending' = ending \ {j}
  /\ UNCHANGED <<iter, gbl, lds, timer, pidf, afl, oldimgs, leaked,
                 resultVars, pc, todo, rc>>

Visit(j) == Start(j) \/ StartAborts(j) \/ Skip(j) \/ Terminate(j)
              \/ TerminateAborts(j)

Driver ==
  \/ CollectStage1 \/ CheckCompleted \/ Resume \/ ResumeAborts
  \/ EndTestcases \/ EndTestcasesAborts \/ EndCrashSites \/ CollectionFails
  \/ CollectIteration \/ EndIteration \/ EndIterationAborts \/ ClearAborts
  \/ \E j \in Jobs : Visit(j)

Environment ==
  \E j \in Jobs : Expire(j) \/ AflSaves(j) \/ AflDies(j) \/ AflEnds(j)

Next == Driver \/ Environment

Spec == Init /\ [][Next]_vars

(* The driver thread is never blocked, and time passes.  Nothing is asked  *)
(* of AFL: it may find nothing.                                            *)
FairSpec ==
  /\ Spec
  /\ WF_vars(Driver)
  /\ \A j \in Jobs : WF_vars(Expire(j))
-----------------------------------------------------------------------------
(* Types, and how far the collections of names may go.                     *)
TypeOK ==
  /\ iter \in 1..(MaxIter + 1) /\ (pc # "bound" => iter <= MaxIter)
  /\ gbl \subseteq Jobs /\ lds \subseteq gbl
  /\ timer \in [Jobs -> {"new", "running", "expired"}]
  /\ pidf \subseteq lds /\ afl \subseteq pidf
  /\ ending \subseteq lds /\ oldimgs \subseteq CrashSites
  /\ leaked \in Nat
  /\ found \subseteq Testcases /\ late \subseteq found
  /\ results \subseteq Jobs
  /\ born \in [Jobs -> 0..MaxIter]
  /\ pc \in {"loop", "check", "resume", "tc", "cs", "kill_all", "clear",
              "aborted", "bound"}
  /\ todo \subseteq lds
  /\ rc \in Nat

(* get_run_count reads the pid file of every job whose timer is running    *)
(* without looking whether there is one: there always is.                  *)
RunningHasPid ==
  pc # "aborted" => \A j \in Jobs : timer[j] = "running" => j \in pidf

(* run_count is read once, before the scan, while timers expire and jobs   *)
(* are stopped during it.  All the same no more jobs have their time       *)
(* running than there are slots, of either kind.                           *)
WithinSlots ==
  /\ Cardinality(Running(Testcases)) <= CoresTC
  /\ Cardinality(Running(CrashSites)) <= CoresCS

(* The AFL processes of crash sites that are alive when an iteration ends  *)
(* are left behind: no more in each iteration than there are slots.        *)
LeakBounded == leaked <= (iter - 1) * CoresCS

(* AFL processes of expired jobs live on until the scan reaches them, and  *)
(* the scan may start others before: up to twice as many processes as      *)
(* slots, apart from those left behind and those that have been told to    *)
(* end.  Between two scans there are no more than slots.                   *)
AflBounded ==
  /\ LeakBounded
  /\ Cardinality(afl \cap Testcases) <= 2 * CoresTC
  /\ Cardinality(afl \cap CrashSites) <= 2 * CoresCS
  /\ pc \in {"loop", "check", "resume"} =>
       /\ Cardinality(afl \cap Testcases) <= CoresTC
       /\ Cardinality(afl \cap CrashSites) <= CoresCS

(* When an iteration ends nothing AFL had found by its collection is lost, *)
(* not even what it saved between the listing of its queue and its end.    *)
NoLostResult == [][iter' # iter => found \ late \subseteq gbl']_vars

(* update_local goes by the commas in a name alone: a testcase that comes  *)
(* to @dedup after the iteration of its number is never fuzzed, and the    *)
(* iterations go on without it.  What is found from a testcase comes in    *)
(* time, in the iteration just before.  (Of what stage 1 finds late, and   *)
(* of what is found from crash sites, this does not hold.)                 *)
InTime ==
  \A t \in gbl \cap Testcases :
    Parent[t] \in Testcases => IterCnt[t] = born[t] + 1

(* clear() deletes the directory of no testcase whose AFL has not been     *)
(* told to end.                                                            *)
NoTestcaseLeaked == [][iter' # iter => afl \cap Testcases = {}]_vars

(* Every selected testcase that reached the local store gets its time.     *)
InputsRun ==
  \A t \in Testcases \cap Selected :
    t \in lds ~> (timer[t] = "expired" \/ pc = "aborted")

(* Every iteration ends.                                                   *)
IterationEnds ==
  \A n \in 1..MaxIter : iter = n ~> (iter = n + 1 \/ pc = "aborted")
-----------------------------------------------------------------------------
(* The inductive invariant behind RunningHasPid, WithinSlots, AflBounded,  *)
(* NoTestcaseLeaked, NoLostResult and InTime.                              *)

(* Only selected jobs are ever started, and each loop visits its own kind. *)
PhaseInv ==
  /\ pidf \subseteq Selected
  /\ \A j \in pidf : timer[j] # "new"
  /\ pc = "tc" => todo \subseteq Testcases \cap Selected
  /\ pc = "cs" => todo \subseteq CrashSites \cap Selected

(* The AFL processes of a kind that run_count must account for: those the  *)
(* scan has been at, and those whose time is running.                      *)
Accounted(K) == {j \in afl \cap K : j \notin todo \/ timer[j] = "running"}

(* The n slots of kind K, whose scan is phase ph.  Within the scan rc      *)
(* bounds what runs and what is accounted for; the rest was alive when the *)
(* scan began and is still to be visited.                                  *)
SlotInv(K, n, ph) ==
  /\ Cardinality(Running(K)) <= n
  /\ Cardinality(afl \cap K) <= 2 * n
  /\ pc \notin {ph, "aborted"} => Cardinality(afl \cap K) <= n
  /\ pc = ph => /\ rc <= n
                /\ Cardinality(Running(K)) <= rc
                /\ Cardinality(Accounted(K)) <= rc
                /\ Cardinality(afl \cap K \cap todo) <= n

(* While a completed iteration is shut down all its testcases have expired *)
(* and the AFL processes that are left are on the list.                    *)
KillInv ==
  /\ pc \in {"kill_all", "clear"} =>
       Completed /\ afl \cap Testcases \subseteq todo
  /\ pc = "clear" => todo = {}

(* What AFL had found when the results were collected is in @dedup.        *)
FoundInv ==
  /\ pc = "clear" => found \ late \subseteq gbl
  /\ pc # "clear" /\ pc # "aborted" => late = {}

(* The testcases of @dedup_sync have the number of the iteration, and what *)
(* AFL found from testcases it found from those.                           *)
InputInv ==
  /\ \A t \in lds \cap Testcases : IterCnt[t] = iter
  /\ \A t \in (found \cup results) \cap Testcases :
       Parent[t] \in Testcases => Parent[t] \in lds

IndInv ==
  /\ TypeOK /\ PhaseInv /\ RunningHasPid /\ KillInv /\ FoundInv
  /\ InputInv /\ InTime /\ LeakBounded
  /\ SlotInv(Testcases, CoresTC, "tc")
  /\ SlotInv(CrashSites, CoresCS, "cs")
-----------------------------------------------------------------------------
(* What comments and docs of the code say, and the code does not do.       *)

(* docs/pmfuzz-fuzz.1.md: --cores-stage2 is the "Maximum cores stage 2     *)
(* fuzzer can use", at one core per AFL process.                           *)
CoresRespected == leaked + Cardinality(afl) <= Cores

(* _terminate_cs: abort_if(len(dir2del) > 1, "Too many matches for glob"): *)
(* the image directory of a crash site is never ambiguous.                 *)
OneImageDir == \A x \in CrashSites : Due(x) => OneMatch(x)
=============================================================================
