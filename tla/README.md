# PMFuzz in TLA+

PMFuzz finds crash-consistency bugs in programs that use persistent memory
(PM). It drives AFL++ on an instrumented program, follows PM accesses with a
map of its own, makes *crash images* by injecting failures, and fuzzes the
program again on the images that test cases and failures have left. This
directory holds TLA+ models of its core logic, the TLC configurations that
check them on small instances, and proofs, checked by TLAPS, of what can be
proved for every instance. Paths below are relative to the repository root.

* [Inventory](#1-inventory) ·  [Modules](#2-modules) · [Runs](#3-runs) ·
  [Bounds](#4-bounds) · [Fairness](#5-fairness) · [Proofs](#6-proofs) ·
  [Disagreements](#7-where-code-and-documents-disagree) ·
  [Not modelled](#8-what-is-not-modelled) · [Plan](#9-plan)

## 1. Inventory

| component | where | state | operations |
|---|---|---|---|
| front end | `src/pmfuzz/pmfuzz-fuzz.py` | `parent`, `prg_args`, the file `@child_pid`; the statistics process and its last stage | `main`, `write_child_pid`, `sigint_handler`, `sigusr1_handler`, `except_hook`, `collect_statistics` |
| driver loop | `core/pmfuzz.py` | none of its own: reads stage and iteration from directories | `run_pmfuzz`, `run_stage1`, `run_stage2`, `run_dedup`, `collect_stage1` |
| state recovery | `stages/state.py` | stage and iteration, the largest in `outdir` | `sync` |
| stage 1 | `stages/stage1.py` | AFL master and slaves, `testcases/`, `pm_images/` | `run`, `resume`, `collect`, crash-site generation |
| stage 2 | `stages/stage2.py` | per job: timer file, pid file, AFL process, queue directory; `testcases/`, `pm_images/` | `run`/`resume`, `_run_*`, `_terminate_*`, `collect`, `completed`, `kill_all`, `terminate`, `clear` |
| dedup store | `stages/dedup.py`, `core/dedupengine.py`, `tools/pmfuzz-cmin` | `@dedup` (global), `@dedup_sync` (per iteration), `.deleted` placeholders | `update_global`, `update_local`, `minimize_corpus_lcl`/`_gbl`, `deduplicate_crash_sites_lcl` |
| names | `handlers/name_handler.py` | – | regular expressions; parent, iteration count, metadata files of a name |
| timers | `helper/ptimer.py` | a file per job | `start_new`, `is_new`, `expired` |
| process pool | `helper/parallel.py` | list of processes | `run`, `alive_cnt`, `alive`, `wait` |
| AFL interface | `interfaces/afl.py` | pid files | `run_afl`, `run_afl_cmin` |
| failure injection | `include/libpmfuzz.c`, `interfaces/failureinjection.py` | failure id, last map, failure list | `pmfuzz_init`, `pmfuzz_inject_failure`, `pmfuzz_term`; `run_failure_inj` |
| PM access map | `include/libpmfuzz.c`, `include/shiftregarr.h` | shared map, previous location | `pmfuzz_ro`, `pmfuzz_wo`, `pmfuzz_rw` |
| helpers | `helper/{common,config,target,bugreport,prettyprint}.py` | – | shell, configuration, image generation |
| reports | `core/whatsup.py`, `pmfuzz-{whatsup,cov,tests}.py`, `interfaces/lcov.py` | – | read directories, print |
| compiler pass | `src/annotation-pass/` | – | inserts calls to the library |

(Python paths are under `src/pmfuzz/`.)

**How they interact.** `main` forks: the child collects statistics, the parent
drives. The driver is one thread that loops: read the state from the
directories, collect stage 1, then let stage 2 make one scan over its jobs.
SIGINT and `abort()` end the driver, which signals the child. AFL processes
run beside it; the only things they share with it are directories, pid files
and signals. Collecting, minimizing and crash-image generation fan out over a
`Parallel` pool. The fuzzed program links `libpmfuzz`, which writes the map
AFL reads and, on environment variables, saves crash images.

**What is hard in it**

* Stage 1 is collected while AFL writes: the queue is listed once, and an entry
  is looked at once in its life, whatever is there of it by then.
* Two processes work out stage and iteration from the names of directories that
  one of them makes and deletes; a signal may strike between any two steps.
* The scan of stage 2 uses a count read *before* it, while timers expire and
  processes die *during* it; a job is a timer file, a pid file and a process
  that are not updated together.
* A test case passes through five directories; it is collected twice, offered
  to the global store in every loop, and minimized twice against different
  neighbours. What is gone must not come back, and what only it covered must
  not go.
* Images must outlive their test cases: a job's image is needed when its
  results are collected, after the test case itself may have been minimized
  away.
* A test case is three files, and AFL is told to end without anybody waiting
  for it: an entry may be collected with some of them.
* The pool counts processes while they end.
* The library packs counters in bytes or shift registers, XORs locations and
  halves the map between reads and writes.
* The failure list is written by one run of the program, through a buffer, and
  read by another; either may be killed. What is read is an array of fixed size.

**What makes each component correct**

* driver and front end: stages and iterations only advance, each iteration
  after its results were deduplicated; stage 2 neither before the timer of
  stage 1 nor never; the statistics process is told when the driver ends.
* stage 1: what AFL has completed reaches `@dedup` with all its files; what
  lacks its exec map or image never does.
* names: a child leads back to its parent and counts one iteration more; a
  crash site stays in its job's iteration; no two results share a name.
* stage 2: no more jobs than slots; pid files exist where they are read; no
  result lost at the end of an iteration; no test case's process outlives its
  directory; every test case is run and every iteration ends.
* dedup store: placeholders hold; images and exec maps are there; results and
  coverage survive minimization.
* pool: never over capacity; failures noticed; `wait` returns.
* map: in bounds, never decreasing, reads and writes apart, counts what it is
  hit.
* failure injection: different images, an accurate list, a reproduction that
  follows the list.

## 2. Modules

                       Names ----------- NamesProofs
                         | INSTANCE, in the MC modules
    Stage2 ------------ MCStage2, Stage2Proofs
    Corpus <----------- DedupStore ----- MCDedupStore, DedupStoreProofs
    Lifecycle, Corpus <- Driver -------- MCDriver, DriverProofs
                         | EXTENDS Stage1
    JobPool <--------- Parallel ------ MCParallel, ParallelProofs
    HitCounts <------- PMMap --------- MCPMMap, PMMapProofs
                         | INSTANCE ShiftReg
    FailureInjection - MCFailureInjection, FailureInjectionProofs

`<---` is a refinement: the module on the right has the one on the left as an
INSTANCE under a refinement mapping and its `Spec` as a property. Three modules
model the driver thread from three sides: `Driver` has the processes, the stage
directories, stage 1 and its files, and of a scan of stage 2 only what it may do
to `@dedup`; `Stage2` has the timers, processes and slots of a scan, and treats
the stores as sets of names that only grow; `DedupStore` has the files and what
is deleted, and lets a job be terminated in any scan. What the last one does to
`@dedup` in detail and the first one in outline is in both a `Corpus`. Actions
with the same name stand for the same code.

### Driver
`pc` is the driver's place; `dirs` the stage directories there are, and `at` the
youngest at the last `State.sync`. `timer` is the PTimer of stage 1. `args`,
`pidf`: the global `prg_args` and the file `@child_pid`, by which
`get_child_pid` finds the child. `unmerged`: results of the iteration have been
collected that `@dedup` has not been offered. `child`, `parent`, `sig`, `cpc`, `view`,
`last`: the statistics process, its copy of `parent`, the SIGINT on its way to
it, and the listing it works on.

| action | code |
|---|---|
| `Fork`, `OpenPidFile`, `WritePid` | end of `main`, `write_child_pid` |
| `Sync` | top of the loop of `run_pmfuzz` |
| `MakeStage1`, `RunAfl`, `StartStage1Timer` | `run_stage1` and the timer after it |
| `Collect` | `collect_stage1`: the actions of `Stage1` |
| `ReadTimer` | the branch of stage 1, into the first iteration if the timer has expired |
| `CheckCompleted` | `run_stage2` on an iteration there is |
| `Resume` | `Stage2.run`/`resume`, with the minimizers it ends with |
| `Terminate`, `Merge`, `Clear`, `NextIteration` | the end of a completed iteration; `Merge` is `run_dedup`, which offers everything collected to `@dedup` |
| `TimerExpires` | time |
| `Interrupt`, `HandleAbort` | `sigint_handler`, `sigusr1_handler` (to which `abort()` leads) |
| `ChildStarts`, `ChildHandlesSigint`, `ChildLists`, `ChildReads` | `collect_statistics` and SIGINT in the child |
| `Afl` | AFL saves a step of an entry (external) |

An abort, or an exception, may come in every step that has one in the code and
leads to `"aborting"`; SIGINT may come between any two steps. When an iteration
is completed is left open (`Stage2` has the condition).

### Stage1
`wrote` says how far AFL has come with each entry of the master's queue: test
case, exec map, PM map, each first empty and then full. `tcs`, `gbl` are the
files of each entry in `testcases/` and in `@dedup`; `del` the placeholders;
`lcs`, `gcs` the crash sites in both places; `todo`, `cur` the listing being
worked off. `ListQueue`, `CopyTestcase`, `CopyExecMap`, `CopyPMMap`, `GenImage`,
`GenCrashSites`, `UpdateGlobal` are `collect_results`, `collect_tc`,
`_collect_map`, `gen_img`, `tc_gen_crash_sites` and `update_global`, one step for
each file that is read while AFL writes.

### Lifecycle and Corpus
`Lifecycle` is the picture at the head of `core/pmfuzz.py`: stage 1, then the
iterations of stage 2, with deduplication in each round. `Corpus` is what
`@dedup` promises to the rest of the system: a name is stored once in its life
and with its image, minimization takes it away for good, images stay. What
follows from that is proved in `Corpus` once, and carried over by both
refinements. That the driver has deduplicated is read off the stores, not off
its place: in stage 1 everything in `testcases/` is in `@dedup` or has its
placeholder there (`Offered`), and an iteration has no results left to offer
(`unmerged`).

### Names
A name is a sequence of generations and a generation a sequence of ids. The
module has the parsing functions of `name_handler.py`, the places that make
names (`ChildName`, `CrashSiteName`), `select_ids`, `get_parent_img`, and the
prefixes by which image directories are found (`StartsWith`).
`MCStage2` and `MCDedupStore` build the names, parents and iteration counts that
they give to the constants of `Stage2` and `DedupStore` with it, and
`NamesProofs` proves for all names what those modules assume.

### Stage2
`iter`, `gbl`, `lds`: the iteration's number, the names in `@dedup` and in
`@dedup_sync`. `timer`, `pidf`, `afl`: of each job, its PTimer, its pid file
and its process. `ending`: processes that have had their SIGTERM and are still
there. `oldimgs`: crash sites with an image directory left from an earlier
iteration. `found`, `results`: what is in the queue directories and what is in
`testcases/` and `pm_images/`. `pc`, `todo`, `rc`: the driver's place in
its loop, the list it still has to visit, and `run_count`.

| action | code |
|---|---|
| `CollectStage1` | `collect_stage1` |
| `CheckCompleted` | `run_stage2`, property `completed` |
| `Resume`, `ResumeAborts` | head of `resume`: `update_local`, `get_run_count` |
| `Start`, `StartAborts` | a visit that starts a job: `_run_testcase`, `_run_cs`, `run_afl` |
| `Skip` | a visit that does nothing |
| `Terminate`, `TerminateAborts` | `_terminate_testcase`, `_terminate_cs`, from the scan or from `kill_all` |
| `EndTestcases`, `EndCrashSites` | the loop over test cases is done, the loop over crash sites is done |
| `CollectIteration`, `EndIterationAborts` | `collect` and `Dedup.run` on a completed iteration |
| `CollectionFails` | a worker of `collect_stage1`, `update_local` or `run_dedup` fails, or one of their checks |
| `EndIteration`, `ClearAborts` | `clear`, and the next `Stage2` object; `rmtree` raises |
| `Expire`, `AflSaves`, `AflDies`, `AflEnds` | time and AFL (external) |

Timers may expire and AFL may save or die between any two steps of the scan.
`Terminate` sends SIGTERM and does not wait: the process goes to `ending`, where
it may save for as long as it likes before `AflEnds`, also after its queue
directory has been listed. `_terminate_cs` aborts unless exactly one image
directory begins with the name of the crash site (`OneMatch`);
`TerminateAborts` has that, `os.kill` on a process that is gone, and, with
`MayFail`, a collection that fails. Why one fails (a missing image or exec map)
is in `Stage1` and `DedupStore`. An abort leaves the model in `"aborted"`.

### DedupStore
`queue`, `tcs`, `loc`, `gbl` map names to what there is of them in AFL's queue
directories, `testcases/`, `@dedup_sync` and `@dedup`: a record of three files
(test case, exec map, PM map), each `None` or the content it was made from. A
content stands for a test case's bytes; all the model knows of it are its exec
map and its PM map. `gimg`, `limg` are the names with an image in `@dedup` and
in `pm_images/`, `del` the placeholders in `@dedup`; `lcs`, `gcs`, `jcs` the
crash sites in `pm_images/`, `@dedup` and `@dedup_sync`. `OneOfEach` is what
every deduplication does: keep the first listed of each class. `stable` says
whether directories are listed in one fixed order; `os.listdir` promises none,
so it may be false.

| action | code |
|---|---|
| `CollectStage1`, `CollectStage1Aborts` | `collect_stage1` with `update_global` |
| `UpdateLocal` | `update_local`, and its aborts: no image, no exec map |
| `Terminate` | `_terminate_*` (`Collect`, with `minimize_corpus_lcl`), or an abort |
| `EndIteration` | `collect_results`, `update_global`, `minimize_corpus_gbl`, `clear` |
| `CollectionAborts` | a test case without its image in `pm_images/`; a worker that fails |
| `MinimizeAborts` | `@dedup` has no test case, or one without an exec map |
| `AflSaves` | the next file of an entry, or, outside `Slow`, all of them (external) |

AFL may save at any time, also for a job that has been terminated. `Collect`
takes of each entry the files that are there, as `collect_tc` does, and makes
images of some of them: a worker whose `gen_img` aborts ends with exit code 0
and leaves an entry without an image.

### Parallel and JobPool
`JobPool` is what callers rely on: each job runs once, at most `Cores` at a
time, `wait` returns when all have ended, and only a failure makes it give up.
`Parallel` has one action per question `alive_cnt` asks a process (`AskAlive`,
`AskEnded`, `AskFailed`), `Poll` and `Begin` for the two ends of the loop in
`run`, and `PollAlive` for `wait`; processes end in between.

### PMMap, ShiftReg and HitCounts
`HitCounts` is an array of saturating counters. `PMMap` is the map in both
modes of the library: bytes with `COUNTER_CAP`, and 256-bit shift registers
(`ShiftReg`) in the baseline. A location is the set of its one bits, so XOR is
symmetric difference and `>> 1` is subtraction of one from each position.

### FailureInjection
Two runs of the program. `InjectFailure` is `pmfuzz_inject_failure` with
`FI_MODE=IMG_GEN`, including the draw that selects a failure point; `Exit` and
`Killed` end the first run, with the list flushed or cut after any byte: `file`
is then some whole lines and perhaps a number that has lost its last digits
(`cut`, divided by one of `Tens`). `Reproduce` is the same function with
`IMG_REP`. It indexes `failure_list` by the failure id without a bound; what it
reads behind the end may be anything (`Says`).

## 3. Runs

| run | checks | shows |
|---|---|---|
| `stage2` | `RunningHasPid`, `WithinSlots`, `AflBounded`, `InTime`, `IndInv`, `NoLostResult`, `NoTestcaseLeaked`, `InputsRun`, `IterationEnds` | the slots hold although the count is stale, pid files are where they are read, results of test cases survive the end of an iteration and come in time for the next, and iterations end |
| `stage2_cores` | `CoresRespected` (violated) | more AFL processes than cores, section 7 |
| `stage2_select_ids` | `IterationEnds` (violated) | section 7 |
| `stage2_image_dirs` | `OneImageDir` (violated) | section 7 |
| `driver` | `IndInv`, `StoresComplete`, `Stage2AfterTimer`, `ChildTold`, `NeverBack`, `LifecycleSpec`, `CorpusSpec`, `NeverLost`, `NothingLost`, `Stage2Starts` | collected halfway or whole, aborted or interrupted anywhere: stores are complete, stages advance as the documents say, what AFL has completed is kept, and stage 2 starts |
| `dedup` | `JobsComplete`, `IndInv`, `StaysDeleted`, `ResultsKept`, `CoverageKept`, `CorpusSpec` | placeholders, images, exec maps, results and coverage through two iterations, with entries collected whole or in part; `@dedup` is a `Corpus` |
| `dedup_orphans` | `OnlyOrphans` (violated) | section 7 |
| `parallel` | `WithinCores`, `FewFailuresMissed`, `IndInv`, `Returns`, `PoolSpec` | the pool is `JobPool`, and returns |
| `parallel_exit` | `FailureExits` (violated) | section 7 |
| `pmmap` | `TypeOK`, `OneBitSet`, `MapGrows`, `HalvesKept`, `HitsSpec` | the map is `HitCounts`, in both modes |
| `failure_injection` | `ImagesDistinct`, `ListedInOrder`, `FewReproduced`, `IndInv`, `ListComplete` | images differ; the whole lines of the list are right whenever the program is killed; the reproduction is bounded by the list as far as the list is indexed within its size |
| `failure_list_replay` | `OnlyListed` (violated) | section 7 |

`IndInv` is the inductive invariant of a module's proofs, with the type
invariant as its first part: the run looks at every part of it in every
reachable state of the instance. (That of `PMMapProofs` is `TypeOK` and
`OneBitSet`, which the run checks one by one.)

`CHECK_DEADLOCK FALSE` is set where the program may stop: it aborts, the pool
is done, the bound on iterations is reached, or both runs of the program are
over; in `driver`, the driver and the child may both have ended. `PMMap` never
stops, and deadlock is checked there.

Some properties say less than one might want, because less is true:

* `StoresComplete` asks for the exec map and the image of an entry, and
  `NothingLost` for all files of those entries only that AFL was done with when
  they were not yet begun: of an entry collected earlier the PM map may be
  missing for good, and each file may be an empty copy. Both make an exception
  of the driver's end.
* `NeverBack` lets the statistics fall back to stage 1: between `clear()` and
  the next `Stage2` there is no directory of stage 2.
* `NeverLost` speaks of entries on their way: complete in the queue and not
  begun, or begun with each file whole when it was copied. An entry that the
  collection has begun too early never gets on the way.
* `ChildTold` begins when the pid is on disk; a driver that ends between the
  fork and that moment leaves the child alone. And to be told is not to end: see
  section 7.
* `AflBounded` allows twice as many processes as slots during a scan, and in
  each iteration as many that stay behind as there are slots for crash sites.
* `InTime` speaks of what is found from test cases. What stage 1 finds late,
  and what is found late from a crash site, has a number that is over.
* `NoLostResult` leaves out what is saved between `collect_results` and
  `clear()` (`late`). Nobody waits for the AFL processes of test cases to end,
  and those of crash sites are not even told to; what they save then goes with
  the directory.
* `RunningHasPid`, `InputsRun` and `IterationEnds` make an exception of aborts,
  of which there are many: AFL dies, a collection fails, an image directory is
  ambiguous. `AbortsKnown` says what is left of them without the first two.
* `JobsComplete` does not say that PMFuzz goes on. A result that was collected
  without its exec map gets a warning, goes to `@dedup`, and ends PMFuzz when
  `@dedup` is minimized next (`MinimizeAborts`); what the property says is that
  it gets no further.
* `ListedInOrder` speaks of whole lines (`WholeLines`). The last line of a file
  that a killed program leaves may be a number cut short, an id nobody listed.
* `FewReproduced` counts failure points whose id indexes `failure_list`. Beyond
  its end anything may be read, and any image made
  (section 7).
* `CoverageKept` requires that directories are listed in a fixed order and
  that AFL did not save a name that `@dedup` knew already. Without the first,
  the two minimizations may keep different representatives and drop both; and
  a crash site that is fuzzed in two iterations finds the same names twice,
  the second of which `update_global` skips.

## 4. Bounds

| instance | bound | why it is enough |
|---|---|---|
| `MCDriver` | 2 entries (a seed that touches PM, one found that does not), a crash site of the second, failure injection on, 2 iterations, the second of which never completes | an entry with all three files and one with two; one is collected while the other is being written; it can be minimized away and offered again; stage 2 moves on once, with results to offer or without, which is every transition there is |
| `MCStage2` | 4 test cases, 2 crash sites, 2 cores (one slot of each kind), 2 iterations | two test cases compete for one slot; a crash site is an input of both iterations, and the name of the other begins with its name; a child of each kind of job is an input of the second |
| `MCDedupStore` | 4 test cases, 2 crash sites, 3 contents, 2 iterations; of one test case the files come one after the other (`Slow`), of the others all at once | contents agree on one map and differ on the other; `xa` may be found in both iterations; the slow one is found from a test case and can be collected with one, two or three files, terminated or orphaned; the listing order disagrees with the order of ancestry. No two crash sites are the same image here: `DistinctCrashes` then drops none |
| `MCParallel` | 5 tasks, 2 cores | the pool fills, drops and refills twice |
| `MCPMMap` | 8 locations (path), 4 locations with 3 bits (baseline), cap 2 | every counter can saturate, locations collide, both halves are reached |
| `MCFailureInjection` | 6 failure points, 4 changes of the map, a list of 4 elements of 3 values, no image beyond id 4, numbers that lose digits by division by 2 and 4 | more failure points than elements; ids wrap in the list (3 becomes 0); the draw is impossible at both ends; the last line can be cut. In the code the list has 10000 elements of 256 values, and digits are decimal |

`MaxIter` (of `Stage2`, `DedupStore` and `Driver`), `Slow`, `MaxPoints` and
`MaxMap` are the only bounds in the modules themselves. The theorems hold for all
their values: for `Slow` all test cases, and for more failure points than the
list has elements. `AflMayDie` and `MayFail` are on in `stage2`, and off in the
runs whose violation must not come from them.

## 5. Fairness

`Driver!Spec`: weak fairness of the driver (one thread that sleeps between
rounds and waits for nobody but programs that it runs), of the statistics
process (a loop with a sleep), and of the expiry of the timer of stage 1. AFL
may save nothing, and nobody need interrupt. `NothingLost` and `Stage2Starts`
need no more: as long as the driver does not end it comes round to collecting
and to the timer.
`Stage2!FairSpec`: weak fairness of the driver (one thread that is never
blocked: it sleeps two seconds between scans) and of the expiry of each
running timer. Nothing is assumed of AFL: it may save nothing and may die.
`Parallel!FairSpec`: weak fairness of the caller's thread and of the end of
each process. What is run in the pool are copies, compressions, AFL's minimizer
and the fuzzed program. The last runs under a timeout when it makes an image
(`helper/target.py:96`) but not when `check_crash_site` tries one
(`helper/target.py:182`): `Returns`, and with it the fairness of the driver,
assume that the fuzzed program ends by itself there; one that hangs on a crash
image stops PMFuzz. `PMMap`, `FailureInjection` and `DedupStore` state no
liveness.

## 6. Proofs

All theorems but those on names are of the form `Spec => []Inv`, `Spec => [][A]_vars` or
`Spec => AbstractSpec`, for all values of the constants allowed by the named
assumptions of the modules (finite sets of names, parents and iteration counts
that fit together, at least one core, ...).

* **Stage2Proofs.** The heart is `SlotInv(K, n, ph)`, proved once for both
  kinds of job. `WithinSlots` alone is not inductive: during the scan the
  stale `run_count` must be related to what is there. The invariant says that
  within the scan `rc` bounds the running timers *and* the live processes that
  the scan has been at or whose time is running (`Accounted`), and that the
  processes still to be visited are at most `n`; so no more than `2n` live at
  any time, and at the end of the scan, when nothing is left to visit, no more
  than `n`. `KillInv` says that all test cases have expired while a completed
  iteration is shut down, hence `NoTestcaseLeaked`. From `Invariance` follow
  `TypeCorrect`, `PidFilesThere`, `SlotsRespected`, `ProcessesBounded` and
  `TestcasesNotLeaked`. `FoundInv` says that before `clear()` `@dedup` has what
  was found by the time of the collection (`ResultsNotLost`):
  `CollectIteration` takes all there is in the queues, collected before or not,
  and what comes behind it is `late`. `InputInv` ties what AFL finds to the inputs of the
  iteration, whose number `update_local` has compared, hence `ChildrenInTime`.
  `LeakBounded` counts what stays behind: at most `CoresCS` processes at each
  end of an iteration, because only crash sites are left then and the scan is
  over; `ProcessesInAll` adds it all up (without those that have been told to
  end). `AbortsKnown` has an invariant of its own: while no AFL process dies,
  the jobs that have a pid file are those whose process is alive, so `os.kill`
  and `get_run_count` find it; if moreover no collection fails, what is left is
  an empty `@dedup`, an ambiguous image directory, and `rmtree` under a process
  that still writes. All three are reachable.
* **DriverProofs.** `DirsInv` is the heart: in every state the directories,
  the place of the driver and what it saw last are in one of seven situations
  (`Empty`, `Made`, `First`, `Begun`, `Known(i)`, `Gone(i)`, `Moved(i)`), in each
  of which `dirs` is known exactly. Every step goes from one to the next or
  stays; `NeverGoesBack` and the mapping to `Lifecycle` read stage and iteration
  off the situation. `Invariant` states it with the rest. `StoreInv` says what
  is there of an entry at each place of the collection, hence `StoresAreComplete` and, with the images in `@dedup`,
  the mapping to `Corpus`. `PidInv` ties the place of the driver to the pid file
  (`ChildIsTold`), `TimerInv` to the timer (`TimerFirst`). `OfferInv` is what
  `ImplementsLifecycle` needs besides the situations: when a collection is over
  `@dedup` has been offered all of `testcases/`, and before `clear()` nothing of
  the iteration is unmerged.
  `NeverOffTheWay` needs `WayInv`: what is still to be collected is not in
  `testcases/`, the entry in hand is, and what has a copy in `@dedup`, an image
  or a placeholder is not in hand. Then each step of the collection takes the
  entry in hand one file further (`CollectionKeeps`), and no other step
  touches files that were complete (`ElsewhereKeeps`).
* **NamesProofs.** Facts about sequences of sequences, without a state machine:
  a child leads back to its parent and counts one iteration more, a crash site
  keeps its job's iteration and lineage, names of different results differ,
  `get_parent_img` is unambiguous, `select_ids` is inherited.
* **ParallelProofs.** `CountInv` gives the meaning of a count that is half
  done: `cnt` is the number of processes that have been asked and were alive
  then, which may have ended since. `Implements` maps `Begin` to `Submit`,
  `Return` to `Close`, `AskFailed` to `GiveUp`, `End` to `Finish`, and every
  other step to a stutter.
* **PMMapProofs.** A register is always `Register(c)` for a count `c`, and
  `PushBack` takes `Register(c)` to `Register(c + 1)` unless it is full.
  `HalvesKept` needs that the previous location never has its highest bit
  (part of `TypeOK`), because only then does the XOR keep the half.
  `MapCountsHits` is the refinement of `HitCounts`.
* **DedupStoreProofs.** `TypeOK` (with the disjointness of test cases and
  placeholders) and `JobsComplete` are inductive together: `@dedup` and
  `@dedup_sync` are bounded by the images of `@dedup`, which only grow, and
  what has no exec map is in `@dedup` only after an abort. Hence
  `UpdateLocalDone`: of the checks and copies of `dedup.py` those of
  `update_local` never fail. Most of the module is about copying file by file:
  `Within(a, b)` says that `b` has each file that `a` has and the same, and the
  lemmas on `Over`, `Without` and `Only` say what they do to the names of a
  directory and to the files of a name, whatever the order of a listing.
  `StaysDeleted` and `ResultsKept` come out of the same case analysis (`Step`).
  `CoverageNotLost` is about two minimizations with different neighbours.
  `CoverageInv` says that what was ever covered in `@dedup` is covered by it or
  by what is on *offer*: what `collect_results` and `update_global` would take
  if the iteration ended now, a name as `testcases/` has it and, if it is not
  there, as the queue has it. The offer only grows, name by name: what a
  termination keeps is in `testcases/` with at least the files it was on offer
  with, and what it drops from `testcases/` is on offer from the queue again,
  where the files are that were collected, or more. The danger is a job
  dropped from `@dedup` in favour of another test case that is dropped itself.
  `Replaced` excludes it: a job that has lost its test case lost it to one on
  offer, or to a job listed before it; of the jobs with one PM map the first
  listed cannot have lost it to another. When the iteration ends all that is on
  offer reaches `@dedup`, as its names are known to nobody. `AgreeInv` (a
  directory has no other content under a name than the one it was copied from)
  is what makes PM maps comparable. `CoverageInv` says nothing of a state that
  an abort has left. `CorpusStep` is the refinement of `Corpus`: what is new in
  `@dedup` had no image there before (`NewHasNoImage`).
* **Corpus.** `PromiseKept` and `GoesForGood` follow from the abstract store
  alone; `ImagesOfAll` and `PlaceholdersHold` are the same facts of `@dedup` as
  `DedupStore` and `Driver` have it, by `ImplementsCorpus`.
* **FailureInjectionProofs.** `ImageInv` orders the images by their maps;
  `BufferInv` ties what was written to the images; what reaches the disk is a
  prefix of that and perhaps one cut number (`ListIsOrdered`); `ReplayInv` ties
  the images of the second run to the elements of `failure_list`, of which at
  most as many are not zero as the file has lines (`ReproducedBounded`). Nothing
  relates the number of failure points to the size of the list.

Every invariant, action property and refinement of the passing runs is proved,
in the general case. Only model-checked are the liveness properties `InputsRun`,
`IterationEnds`, `Returns`, `NothingLost` and `Stage2Starts`: they rest on
fairness, hence on `ENABLED`, which is out of the prover's reach. `NeverLost` is
the safety core of `NothingLost`; what is left to TLC is that the driver comes
round to the entry. The operators that `MCStage2` and `MCDedupStore` build their
constants with are evaluated on the instance only.

## 7. Where code and documents disagree

Each of these has a run whose property states the document and is violated.

1. `stage2_cores`. *"Maximum cores stage 2 fuzzer can use"*
   (`docs/pmfuzz-fuzz.1.md:35`): processes of expired jobs are alive but not
   counted while others are started; and crash-site processes survive the
   iteration. What does hold is `ProcessesInAll`: never more than
   `2 * CoresTC + (iter + 1) * CoresCS`.
2. `stage2_select_ids`. *"If this iteration is completed, terminate it ... and
   move on"* (`core/pmfuzz.py:154`): with `select_ids`, `completed` waits for
   test cases that are never started.
3. `dedup_orphans`. *"Present solely to collect testcases orphaned on the
   previous instance"* (`stage2.py:924`): `collect_results` brings back what
   the same instance has minimized away.
4. `parallel_exit`. *"Exit on failure"* (`parallel.py:29`): failures after the
   last `run()` are not seen by `wait()`.
5. `failure_list_replay`. *"Only the failure ID in the list will lead to an
   image"* (`libpmfuzz.c:303`): the list is indexed by id, not searched.
6. `stage2_image_dirs`. `_terminate_cs` takes for granted that one image
   directory begins with the name of a crash site (*"Too many matches for glob"*,
   `stage2.py:348`). `completed` waits for test cases only, so crash sites may run
   on at `clear()`. Such a crash site is never terminated and keeps its directory;
   the next iteration fuzzes it again in a second one, and PMFuzz ends when its
   time is over. No process has died and nothing has failed in the run. A name that another begins with (`id=1.id=3`, `id=1.id=3.id=8`) is
   enough too, when both run.

Met while modelling, without a run:

* `completed` *"Indicates if the stage has all its input run"* (`stage2.py:1003`):
  it does not look at crash sites, which are inputs too (`Completed`).
* *"Limit the number of failure points"* (`libpmfuzz.c:493`): the limit is on what
  is filled into `failure_list`; it is indexed by the failure id (305), which has
  none. With more than 10000 failure points the program reads behind the array
  (`Says`).
* `abort()` in a pool worker ends it through a signal handler that exits with 0
  (`helper/common.py:94`, `pmfuzz-fuzz.py:94`), so the pool takes it for success;
  an exception in a worker, by contrast, exits with 1.
* The handler of SIGUSR1 is there *"for killing the child process from parent on
  abort"* (`pmfuzz-fuzz.py:95`), by SIGINT; but the child has set `parent =
  False`, and its `sigint_handler` then does nothing: it runs on
  (`ChildHandlesSigint`).
* A result of stage 2 that is collected before AFL has written its exec map gets
  a warning (`stage2.py:893`), is taken over into `@dedup` without it
  (`dedup.py:942`), and PMFuzz ends with an exception when the map is copied
  without looking (`dedup.py:362`): `MinimizeAborts`. An image that was not made,
  which the pool does not notice, ends it at `dedup.py:889`.
* An entry of stage 1 that is collected before AFL has created its PM map never
  gets one (`stage1.py:181`); before its exec map, PMFuzz aborts (`:166`).
* The states are said to be *"preserved accross different invocations"*
  (`core/pmfuzz.py:11`), but `main` deletes the output directory on every start
  (`pmfuzz-fuzz.py:436`).
* `configs/base.yml:80` and `:84` turn `minimize_tc` on, for which `dedup.py`
  has an abort (649, 669): with that file alone PMFuzz would stop at the first
  collection of stage 1. The run configurations turn it off, and the models take
  it as off.
* *"Minimize the crash images for stage 1 before copying it to global"*
  (`core/pmfuzz.py:213`): `fdedup=False`, and nothing is minimized.
* `stage2.py:841` passes `self.verbose` where `run_failure_inj` has `create`.
* In the baseline the map has no halves for reads and writes.
* With a global store, `DedupEngine` is handed test-case paths and a filter for
  PM maps (`dedup.py:641`) and does nothing.
* A child of a crash site that is found late has an iteration count that is
  over, and is never fuzzed.

## 8. What is not modelled

* `afl-tmin`, command lines and shell execution, argument and configuration
  parsing, the checks of the machine, printing, coverage reports, the compiler
  pass, and AFL++ itself, whose processes are external actions.
* `disable_stage2`: the driver then collects stage 1 and minimizes `@dedup` in
  each round, and nothing else.
* A second invocation on the same output directory: `main` deletes it on every
  start, so no later run reads what an earlier one left, and the question
  whether to resume (`core/pmfuzz.py:279`) is never asked.
* The contents of PTimer files, which one thread writes in place and reads; the
  `@info` files; the hash database of crash images of stage 1, by which nothing
  is decided.
* The text of names (zero padding, extensions, paths): `Names` has them as
  sequences of numbers with a kind.
* In `DedupStore` a file is there whole or not at all; that it may be copied
  while it is still empty is in `Stage1`. In `Stage2` and `Driver` a collection
  is one step; that it stops halfway is in `Stage1`, and that it stops halfway
  and PMFuzz with it leaves nothing that any later step could see.
* The image directories of test cases: their names are made from the whole name
  and are removed on termination; only those of crash sites are searched for.
* Minimizers that configuration turns off or that abort
  (`minimize_testcases`).
* A fuzzed program that hangs, and what a timeout hides: `exec_shell` answers a
  timeout like a success.
* What threads of the fuzzed program do to the PM map: the library has no locks
  and promises nothing.

## 9. Plan

Written in this order, most important behaviour first: `Stage2` and its
proofs, `Parallel` with `JobPool`, `PMMap` with `HitCounts`,
`FailureInjection`, `DedupStore` and its proofs, `Names` and its proofs,
`Stage1` and `Driver` with `Lifecycle` and their proofs, `Corpus` with
`DedupStore` and `Driver` as its refinements; then the invariants behind
coverage, late results and half-collected entries. What is left:

1. `disable_stage2`, as a value chosen at the start of `Driver`.
2. Theorems on what callers may conclude from `PoolSpec` and `LifecycleSpec`
   alone, in `ParallelProofs` and `DriverProofs`.
