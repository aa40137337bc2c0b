---------------------------- MODULE DriverProofs ----------------------------
(***************************************************************************)
(* Proofs about Driver, for any queue, any crash sites and any number of   *)
(* iterations: its safety properties, and that it implements Lifecycle and *)
(* Corpus.                                                                 *)
(***************************************************************************)
EXTENDS Driver, TLAPS

(* The youngest directory of those there are.                              *)
LEMMA YoungestNone == Youngest({}) = Nowhere
  BY DEF Youngest

(* With stage 1 alone that is the youngest.                                *)
LEMMA YoungestOne == Youngest(One) = <<1, 1>>
<1> DEFINE P(d) == \A e \in One : e # d => Younger(d, e)
<1>1. One # {} /\ <<1, 1>> \in One /\ P(<<1, 1>>)
  BY DEF One
<1>2. \A d \in One : d = <<1, 1>>
  BY DEF One
<1>3. Youngest(One) = CHOOSE d \in One : P(d)
  BY <1>1 DEF Youngest
<1> QED BY <1>1, <1>2, <1>3

(* With an iteration of stage 2 beside it, that iteration is.              *)
LEMMA YoungestTwo ==
  ASSUME NEW i \in Nat
  PROVE  Youngest(Two(i)) = <<2, i>>
<1> DEFINE P(d) == \A e \in Two(i) : e # d => Younger(d, e)
<1>1. <<1, 1>>[1] = 1 /\ <<2, i>>[1] = 2 /\ <<1, 1>> # <<2, i>>
  OBVIOUS
<1>2. Two(i) # {} /\ <<2, i>> \in Two(i)
  BY DEF Two
<1>3. P(<<2, i>>)
  BY <1>1 DEF Two, Younger
<1>4. ~P(<<1, 1>>)
  BY <1>1 DEF Two, Younger
<1>5. \A d \in Two(i) : P(d) => d = <<2, i>>
  BY <1>4 DEF Two
<1>6. Youngest(Two(i)) = CHOOSE d \in Two(i) : P(d)
  BY <1>2 DEF Youngest
<1> HIDE DEF P
<1> QED BY <1>2, <1>3, <1>5, <1>6

(* Iterations are numbers, and all but the last have a next one.           *)
LEMMA Bounds == Iters \subseteq Nat /\ Last \subseteq Iters
                /\ (\A i \in Last : i + 1 \in Iters) /\ 1 \in Iters
  BY MaxIterAssumption DEF Iters, Last
-----------------------------------------------------------------------------
(* Initial states.                                                         *)
LEMMA InitInv == Init => IndInv
<1> SUFFICES ASSUME Init PROVE IndInv
  OBVIOUS
<1>1. Some \in Entries
  BY EntriesAssumption DEF Some
<1>2. NoFiles \in Files
  BY DEF NoFiles, Files, File
<1>8. StoreTypes
  <2>1. wrote \in [Entries -> 0..6]
    <3>1. 0 \in 0..6
      OBVIOUS
    <3>2. wrote = [n \in Entries |-> 0]
      BY DEF Init, InitStage1
    <3> QED BY <3>1, <3>2
  <2>2. tcs \in [Entries -> Files] /\ gbl \in [Entries -> Files]
    BY <1>2 DEF Init, InitStage1
  <2>3. aflup \in BOOLEAN
    BY Zenon DEF Init, InitStage1
  <2> QED BY <1>1, <2>1, <2>2, <2>3 DEF Init, InitStage1, StoreTypes
<1>9. TypeOK
  BY <1>8 DEF Init, TypeOK, Nowhere
<1>3. DirsInv
  BY DEF Init, DirsInv, Empty
<1>4. TimerInv
  BY DEF Init, TimerInv, HasStage2, First, Made, One, Nowhere
<1>5. PidInv
  BY DEF Init, PidInv, ChildTold
<1>6. StoreInv
  BY <1>1 DEF Init, InitStage1, StoreInv, Images, NoFiles, Has,
              Stopped
<1>7. ChildInv
  BY DEF Init, ChildInv
<1>10. WayInv
  BY DEF Init, InitStage1, WayInv, InCollection, NoFiles, Has
<1>11. OfferInv
  BY DEF Init, OfferInv
<1> QED BY <1>3, <1>4, <1>5, <1>6, <1>7, <1>9, <1>10, <1>11 DEF IndInv
-----------------------------------------------------------------------------
(* Most steps leave the directories alone and move the driver on.          *)
Move(from, to) == pc \in from /\ pc' \in to

Quiet ==
  /\ UNCHANGED <<dirs, at>>
  /\ \/ pc' = pc \/ pc' \in Stopped
     \/ Move({"start", "forked"}, {"forked", "named"})
     \/ Move({"named", "timer", "resume"}, {"loop"})
     \/ Move({"afl"}, {"timer"})
     \/ Move(Collecting, Collecting \cup {"collected"})
     \/ pc = "collected" /\ pc' = "resume" /\ at[1] = 2
     \/ pc = "collected" /\ pc' = "terminate" /\ at[1] = 2 /\ at[2] < MaxIter
     \/ Move({"terminate", "merge"}, {"merge", "clear"})

(* A collection stays in its own part of the program, or stops it.         *)
LEMMA CollectMoves ==
  ASSUME CollectStage1
  PROVE  pc' \in Stopped \/ Move(Collecting, Collecting \cup {"collected"})
  BY DEF CollectStage1, ListQueue, CopyTestcase, CopyExecMap, ExecMapNeeded,
         CopyPMMap, GenImage, GenCrashSites, UpdateGlobal, Abort, Move,
         Collecting, Stopped

(* Five steps are not quiet.                                               *)
LEMMA MostAreQuiet ==
  ASSUME [Next]_vars
  PROVE  Quiet \/ Sync \/ MakeStage1 \/ ReadTimer \/ Clear \/ NextIteration
<1>1. ASSUME Fork \/ OpenPidFile \/ WritePid \/ RunAfl \/ StartStage1Timer
      PROVE  Quiet
  BY <1>1 DEF Fork, OpenPidFile, WritePid, RunAfl, StartStage1Timer, Abort,
              Quiet, Move, Stopped
<1>2. ASSUME Resume \/ Terminate \/ Merge \/ CheckCompleted \/ HandleAbort
             \/ Interrupt
      PROVE  Quiet
  BY <1>2 DEF Resume, Terminate, Merge, CheckCompleted, HandleAbort, Interrupt,
              MinimizeThen, Abort, Quiet, Move, Stopped
<1>3. ASSUME ChildStep \/ TimerExpires \/ Afl \/ UNCHANGED vars
      PROVE  Quiet
  BY <1>3 DEF ChildStep, ChildStarts, ChildHandlesSigint, ChildLists,
              ChildReads, TimerExpires, Afl, AflSaves, vars, Quiet
<1>4. CASE Collect
  BY <1>4, CollectMoves DEF Collect, Quiet
<1> QED BY <1>1, <1>2, <1>3, <1>4 DEF Next, DriverStep
-----------------------------------------------------------------------------
(* The directories.                                                        *)
LEMMA QuietDirs ==
  ASSUME DirsInv, Quiet
  PROVE  DirsInv'
<1> USE DEF Round, Ending, Between, Collecting, Stopped
<1> USE DEF Quiet, Move
<1>1. CASE Empty /\ pc \in {"start", "forked", "named", "loop", "stage1"}
                            \cup Stopped
  BY <1>1 DEF Empty, DirsInv
<1>2. CASE Made /\ pc \in {"afl", "timer", "loop"} \cup Stopped
  BY <1>2 DEF Made, DirsInv
<1>3. CASE First /\ pc \in Round
  <2>1. at[1] = 1 /\ First'
    BY <1>3 DEF First
  <2>2. pc' \in Round
    BY <1>3, <2>1
  <2> QED BY <2>1, <2>2 DEF DirsInv
<1>4. CASE Begun /\ pc \in Between
  BY <1>4 DEF Begun, DirsInv
<1>5. ASSUME NEW i \in Iters, Known(i), pc \in Round \cup {"resume"}
      PROVE  DirsInv'
  <2>1. Known(i)' /\ at[2] = i
    BY <1>5 DEF Known
  <2>2. pc' \in Round \cup {"resume"} \/ (pc' = "terminate" /\ i < MaxIter)
    BY <1>5, <2>1
  <2>3. i < MaxIter => i \in Last
    BY MaxIterAssumption DEF Iters, Last
  <2>4. CASE pc' \in Round \cup {"resume"}
    BY <2>1, <2>4 DEF DirsInv
  <2>5. CASE pc' = "terminate" /\ i < MaxIter
    <3>1. i \in Last /\ pc' \in Ending
      BY <2>3, <2>5
    <3> QED BY <2>1, <3>1 DEF DirsInv
  <2> QED BY <2>2, <2>4, <2>5
<1>6. ASSUME NEW i \in Last, Known(i), pc \in Ending
      PROVE  DirsInv'
  <2>1. Known(i)' /\ pc' \in Ending \cup Stopped
    BY <1>6 DEF Known
  <2>2. i \in Iters
    BY Bounds
  <2>3. CASE pc' \in Ending
    BY <2>1, <2>3 DEF DirsInv
  <2>4. CASE pc' \in Stopped
    BY <2>1, <2>2, <2>4 DEF DirsInv
  <2> QED BY <2>1, <2>3, <2>4
<1>7. ASSUME NEW i \in Last, Gone(i), pc \in {"next"} \cup Stopped
      PROVE  DirsInv'
  <2>1. Gone(i)' /\ pc' \in {"next"} \cup Stopped
    BY <1>7 DEF Gone
  <2> QED BY <2>1 DEF DirsInv
<1>8. ASSUME NEW i \in Last, Moved(i), pc \in Between
      PROVE  DirsInv'
  <2>1. Moved(i)' /\ pc' \in Between
    BY <1>8 DEF Moved
  <2> QED BY <2>1 DEF DirsInv
<1> QED BY <1>1, <1>2, <1>3, <1>4, <1>5, <1>6, <1>7, <1>8 DEF DirsInv

(* Where the loud steps lead.                                              *)
LEMMA SyncMoves ==
  ASSUME DirsInv, Sync
  PROVE  \/ Empty /\ Empty' /\ pc' = "stage1"
         \/ (Made \/ First) /\ First' /\ pc' = "collect"
         \/ Begun /\ Known(1)' /\ pc' = "collect"
         \/ \E i \in Iters : Known(i) /\ Known(i)' /\ pc' = "collect"
         \/ \E i \in Last : Moved(i) /\ Known(i + 1)' /\ pc' = "collect"
<1>1. pc = "loop" /\ at' = Youngest(dirs) /\ dirs' = dirs
      /\ pc' = IF at' = Nowhere THEN "stage1" ELSE "collect"
  BY DEF Sync, CollectAlways
<1>2. CASE Empty
  BY <1>1, <1>2, YoungestNone DEF Empty
<1>3. CASE Made \/ First
  BY <1>1, <1>3, YoungestOne DEF Made, First, Nowhere
<1>4. ASSUME NEW i \in Iters, dirs = Two(i)
      PROVE  Known(i)' /\ pc' = "collect"
  BY <1>1, <1>4, YoungestTwo, Bounds DEF Known, Nowhere
<1>5. CASE Begun
  BY <1>4, <1>5, Bounds DEF Begun
<1>6. ASSUME NEW i \in Iters, Known(i)
      PROVE  Known(i)' /\ pc' = "collect"
  BY <1>4, <1>6 DEF Known
<1>7. ASSUME NEW i \in Last, Moved(i)
      PROVE  Known(i + 1)' /\ pc' = "collect"
  <2>1. i + 1 \in Iters
    BY Bounds
  <2> QED BY <1>4, <1>7, <2>1 DEF Moved
<1>8. \/ Empty \/ Made \/ First \/ Begun
      \/ (\E i \in Iters : Known(i)) \/ \E i \in Last : Moved(i)
  BY <1>1 DEF DirsInv, Round, Ending, Between, Collecting, Stopped
<1> QED BY <1>2, <1>3, <1>5, <1>6, <1>7, <1>8

(* Stage 1 is made where there is nothing.                                 *)
LEMMA MakeMoves ==
  ASSUME DirsInv, MakeStage1
  PROVE  Empty /\ Made' /\ pc' = "afl"
<1>1. Empty
  BY DEF MakeStage1, DirsInv, Round, Ending, Between, Collecting, Stopped
<1> QED BY <1>1 DEF MakeStage1, Empty, Made, One

(* The timer is read in stage 1, and may start stage 2.                    *)
LEMMA ReadMoves ==
  ASSUME DirsInv, ReadTimer
  PROVE  /\ First
         /\ \/ First' /\ pc' = "loop"
            \/ Begun' /\ pc' = "resume"
<1>1. First
  <2>1. pc = "collected" /\ at[1] = 1
    BY DEF ReadTimer
  <2>2. First \/ \E i \in Iters : Known(i)
    BY <2>1 DEF DirsInv, Round, Ending, Between, Collecting, Stopped
  <2>3. \A i \in Iters : ~Known(i)
    BY <2>1 DEF Known
  <2> QED BY <2>2, <2>3
<1>2. UNCHANGED at /\ \/ pc' = "loop" /\ UNCHANGED dirs
                      \/ pc' = "resume" /\ dirs' = dirs \cup {<<2, 1>>}
  BY DEF ReadTimer
<1>3. One \cup {<<2, 1>>} = Two(1)
  BY DEF One, Two
<1>4. CASE pc' = "loop" /\ UNCHANGED <<dirs, at>>
  <2>1. First'
    BY <1>1, <1>4 DEF First
  <2> QED BY <1>1, <1>4, <2>1
<1>5. CASE pc' = "resume" /\ dirs' = dirs \cup {<<2, 1>>} /\ UNCHANGED at
  <2>1. dirs = One /\ at = <<1, 1>>
    BY <1>1 DEF First
  <2>2. dirs' = Two(1) /\ at' = <<1, 1>>
    BY <1>3, <1>5, <2>1
  <2> QED BY <1>1, <1>5, <2>2 DEF Begun
<1> QED BY <1>2, <1>4, <1>5

(* An iteration is deleted that is not the last.                           *)
LEMMA ClearMoves ==
  ASSUME DirsInv, Clear
  PROVE  \E i \in Last : /\ Known(i)
                        /\ \/ Gone(i)' /\ pc' = "next"
                           \/ Known(i)' /\ pc' = "aborting"
<1>1. PICK i \in Last : Known(i)
  BY DEF Clear, DirsInv, Round, Ending, Between, Collecting, Stopped
<1>2. CASE pc' = "next" /\ dirs' = dirs \ {at} /\ at' = at
  <2>1. <<1, 1>> # <<2, i>>
    OBVIOUS
  <2>2. Gone(i)'
    BY <1>1, <1>2, <2>1 DEF Known, Gone, One, Two
  <2> QED BY <1>1, <1>2, <2>2
<1>3. CASE UNCHANGED <<dirs, at>> /\ pc' = "aborting"
  BY <1>1, <1>3 DEF Known
<1> QED BY <1>2, <1>3 DEF Clear, Abort

(* The next one comes where the old one was.                               *)
LEMMA NextMoves ==
  ASSUME DirsInv, NextIteration
  PROVE  \E i \in Last : Gone(i) /\ Moved(i)' /\ pc' = "resume"
<1>1. PICK i \in Last : Gone(i)
  BY DEF NextIteration, DirsInv, Round, Ending, Between, Collecting, Stopped
<1>2. Moved(i)' /\ pc' = "resume"
  BY <1>1 DEF NextIteration, NextOne, Gone, Moved, One, Two
<1> QED BY <1>1, <1>2

(* DirsInv is inductive on its own.                                        *)
LEMMA DirsStep ==
  ASSUME DirsInv, [Next]_vars
  PROVE  DirsInv'
<1> USE DEF Round, Ending, Between, Collecting, Stopped
<1>1. CASE Sync
  BY <1>1, SyncMoves, Bounds DEF DirsInv
<1>2. CASE MakeStage1
  BY <1>2, MakeMoves DEF DirsInv
<1>3. CASE ReadTimer
  BY <1>3, ReadMoves DEF DirsInv
<1>4. CASE Clear
  <2>1. PICK i \in Last : /\ Known(i)
                        /\ \/ Gone(i)' /\ pc' = "next"
                           \/ Known(i)' /\ pc' = "aborting"
    <3> HIDE DEF Round, Ending, Between, Collecting, Stopped
    <3> QED BY <1>4, ClearMoves
  <2>2. CASE Gone(i)' /\ pc' = "next"
    BY <2>2 DEF DirsInv
  <2>3. CASE Known(i)' /\ pc' = "aborting"
    <3>1. i \in Iters
      BY Bounds
    <3> QED BY <2>3, <3>1 DEF DirsInv
  <2> QED BY <2>1, <2>2, <2>3
<1>5. CASE NextIteration
  BY <1>5, NextMoves DEF DirsInv
<1> QED BY <1>1, <1>2, <1>3, <1>4, <1>5, QuietDirs, MostAreQuiet
-----------------------------------------------------------------------------
(* Types.                                                                  *)
DirsTyped ==
  /\ dirs \subseteq {<<1, 1>>} \cup {<<2, i>> : i \in 1..MaxIter}
  /\ at \in dirs \cup {Nowhere} \cup {<<2, i>> : i \in 1..MaxIter}
  /\ pc \in {"start", "forked", "named", "loop", "stage1", "afl", "timer",
             "collect", "copy", "execmap", "pmmap", "image", "crash",
             "collected", "resume", "terminate", "merge", "clear", "next",
             "aborting", "ended"}

(* It gives the types of the directories and of pc.                        *)
LEMMA DirsTypes == DirsInv => DirsTyped
<1> SUFFICES ASSUME DirsInv PROVE DirsTyped
  OBVIOUS
<1>1. ASSUME Empty \/ Made \/ First \/ Begun
      PROVE  /\ dirs \subseteq {<<1, 1>>} \cup {<<2, j>> : j \in 1..MaxIter}
             /\ at \in dirs \cup {Nowhere}
  BY <1>1, Bounds DEF Empty, Made, First, Begun, One, Two, Iters
<1>2. ASSUME NEW i \in Iters, Known(i) \/ Gone(i)
      PROVE  /\ dirs \subseteq {<<1, 1>>} \cup {<<2, j>> : j \in 1..MaxIter}
             /\ at \in {<<2, j>> : j \in 1..MaxIter}
  BY <1>2 DEF Known, Gone, One, Two, Iters
<1>3. ASSUME NEW i \in Last, Moved(i)
      PROVE  /\ dirs \subseteq {<<1, 1>>} \cup {<<2, j>> : j \in 1..MaxIter}
             /\ at \in {<<2, j>> : j \in 1..MaxIter}
  BY <1>3, Bounds DEF Moved, Two, Iters
<1>4. pc \in {"start", "forked", "named", "loop", "stage1", "afl",
             "timer", "collect", "copy", "execmap", "pmmap", "image",
             "crash", "collected", "resume", "terminate", "merge",
             "clear", "next", "aborting", "ended"}
  BY DEF DirsInv, Round, Ending, Between, Collecting, Stopped
<1> QED BY <1>1, <1>2, <1>3, <1>4, Bounds DEF DirsInv, DirsTyped

(* The same of the next state.                                             *)
LEMMA DirsTypesNext == DirsInv' => DirsTyped'
  BY DirsTypes, PTL

(* What the queue has of an entry, and what minimization leaves.           *)
LEMMA FileTypes ==
  /\ \A n \in Entries : QueueFiles(n).tc \in File /\ QueueFiles(n).map \in File
                        /\ QueueFiles(n).pm \in File
  /\ NoFiles \in Files /\ [NoFiles EXCEPT !.img = TRUE] \in Files
  BY DEF QueueFiles, FileAt, File, Files, NoFiles

(* Collection keeps the types of the stores.                               *)
LEMMA CollectTypes ==
  ASSUME StoreTypes, CollectStage1
  PROVE  StoreTypes'
<1> USE DEF StoreTypes
<1>1. ASSUME ListQueue \/ GenCrashSites PROVE StoreTypes'
  BY <1>1 DEF ListQueue, GenCrashSites, queueVars, storeVars, placeVars
<1>2. ASSUME NEW f \in File, NEW n \in Entries
      PROVE  /\ [tcs EXCEPT ![n].tc = f] \in [Entries -> Files]
             /\ [tcs EXCEPT ![n].map = f] \in [Entries -> Files]
             /\ [tcs EXCEPT ![n].pm = f] \in [Entries -> Files]
  <2>1. tcs[n] \in Files
    OBVIOUS
  <2>2. /\ [tcs[n] EXCEPT !.tc = f] \in Files
        /\ [tcs[n] EXCEPT !.map = f] \in Files
        /\ [tcs[n] EXCEPT !.pm = f] \in Files
    BY <2>1 DEF Files
  <2> QED BY <2>2
<1>3. ASSUME NEW n \in Entries, CopyTestcase(n) PROVE StoreTypes'
  <2>1. tcs' \in [Entries -> Files]
    <3>1. QueueFiles(n).tc \in File
      BY FileTypes
    <3>2. tcs' = [tcs EXCEPT ![n].tc = QueueFiles(n).tc]
      BY <1>3 DEF CopyTestcase
    <3> HIDE DEF StoreTypes
    <3> QED BY <1>2, <3>1, <3>2
  <2>2. todo' \subseteq Entries /\ cur' \in Entries
    BY <1>3 DEF CopyTestcase
  <2>3. UNCHANGED <<aflup, wrote, gbl, del, lcs, gcs>>
    BY <1>3 DEF CopyTestcase, queueVars
  <2> QED BY <2>1, <2>2, <2>3
<1>4. CASE CopyExecMap \/ CopyPMMap
  <2>1. QueueFiles(cur).map \in File /\ QueueFiles(cur).pm \in File
    BY FileTypes
  <2>2. \/ UNCHANGED tcs
        \/ tcs' = [tcs EXCEPT ![cur].map = QueueFiles(cur).map]
        \/ tcs' = [tcs EXCEPT ![cur].pm = QueueFiles(cur).pm]
    BY <1>4 DEF CopyExecMap, ExecMapNeeded, CopyPMMap
  <2>3. UNCHANGED <<queueVars, gbl, del, lcs, gcs, placeVars>>
    BY <1>4 DEF CopyExecMap, CopyPMMap
  <2>4. cur \in Entries /\ tcs \in [Entries -> Files]
    OBVIOUS
  <2>5. tcs' \in [Entries -> Files]
    <3> HIDE DEF StoreTypes
    <3>1. CASE UNCHANGED tcs
      BY <2>4, <3>1
    <3>2. CASE tcs' = [tcs EXCEPT ![cur].map = QueueFiles(cur).map]
      BY <1>2, <2>1, <2>4, <3>2
    <3>3. CASE tcs' = [tcs EXCEPT ![cur].pm = QueueFiles(cur).pm]
      BY <1>2, <2>1, <2>4, <3>3
    <3> QED BY <2>2, <3>1, <3>2, <3>3
  <2> QED BY <2>3, <2>5 DEF queueVars, placeVars
<1>6. CASE GenImage
  <2>1. tcs[cur] \in Files /\ [tcs[cur] EXCEPT !.img = TRUE] \in Files
    BY DEF Files
  <2>2. [tcs EXCEPT ![cur].img = TRUE] \in [Entries -> Files]
    BY <2>1
  <2>3. tcs' \in [Entries -> Files]
    BY <1>6, <2>2 DEF GenImage
  <2> QED BY <1>6, <2>3 DEF GenImage, queueVars, placeVars
<1>7. CASE UpdateGlobal
  <2>1. \A n \in Entries :
          (IF n \in NewInGlobal THEN tcs[n] ELSE gbl[n]) \in Files
    OBVIOUS
  <2>2. gbl' \in [Entries -> Files]
    BY <1>7, <2>1 DEF UpdateGlobal
  <2> QED BY <1>7, <2>2 DEF UpdateGlobal, queueVars, placeVars
<1> QED BY <1>1, <1>3, <1>4, <1>6, <1>7 DEF CollectStage1

(* Results of an iteration come and go in four steps.                      *)
LEMMA UnmergedFrame ==
  ASSUME [Next]_vars
  PROVE  UNCHANGED unmerged \/ unmerged' = FALSE
         \/ Resume \/ Terminate \/ Merge
  BY DEF Next, DriverStep, ChildStep, Fork, OpenPidFile, WritePid, Sync,
         MakeStage1, RunAfl, StartStage1Timer, Collect, ReadTimer,
         CheckCompleted, Clear, NextIteration, HandleAbort, Interrupt,
         ChildStarts, ChildHandlesSigint, ChildLists, ChildReads,
         TimerExpires, Afl, vars

(* Every step keeps all types.                                             *)
LEMMA TypesStep ==
  ASSUME TypeOK, DirsInv', ChildInv', [Next]_vars
  PROVE  TypeOK'
<1>1. StoreTypes'
  <2> USE DEF TypeOK
  <2>1. CASE Collect
    BY <2>1, CollectTypes DEF Collect
  <2>2. CASE Afl
    <3>1. PICK n \in Entries : AflSaves(n)
      BY <2>2 DEF Afl
    <3>2. LastStep(n) \in {4, 6} /\ wrote[n] \in 0..6
      BY DEF LastStep, StoreTypes
    <3>3. (IF n \in Seeds /\ wrote[n] = 0 THEN 2 ELSE wrote[n] + 1) \in 0..6
      BY <3>1, <3>2 DEF AflSaves
    <3>4. wrote' \in [Entries -> 0..6]
      BY <3>1, <3>3 DEF AflSaves, StoreTypes
    <3> QED BY <3>1, <3>4 DEF AflSaves, StoreTypes, storeVars, placeVars
  <2>3. CASE RunAfl
    BY <2>3 DEF RunAfl, StoreTypes, storeVars, placeVars
  <2>4. CASE Resume \/ Terminate \/ Merge
    <3>1. UNCHANGED <<queueVars, tcs, lcs, gcs, placeVars>>
      BY <2>4 DEF Resume, Terminate, Merge, MinimizeThen
    <3>2. CASE UNCHANGED <<gbl, del>>
      BY <3>1, <3>2 DEF StoreTypes, queueVars, placeVars
    <3>3. ASSUME NEW S \in SUBSET Has(gbl), Minimized(S) PROVE StoreTypes'
      <4>1. \A n \in Entries : (IF n \in S THEN [NoFiles EXCEPT !.img = TRUE]
                                ELSE gbl[n]) \in Files
        BY FileTypes DEF StoreTypes
      <4>2. gbl' \in [Entries -> Files]
        BY <3>3, <4>1 DEF Minimized
      <4>3. del' \subseteq Entries
        BY <3>3 DEF Minimized, Has, StoreTypes
      <4> QED BY <3>1, <4>2, <4>3 DEF StoreTypes, queueVars, placeVars
    <3> QED BY <2>4, <3>2, <3>3 DEF Resume, Terminate, Merge, MinimizeThen
  <2>5. CASE UNCHANGED <<queueVars, storeVars, placeVars>>
    BY <2>5 DEF StoreTypes, queueVars, storeVars, placeVars
  <2> QED
    BY <2>1, <2>2, <2>3, <2>4, <2>5
       DEF Next, DriverStep, ChildStep, Fork, OpenPidFile, WritePid, Sync,
           MakeStage1, StartStage1Timer, ReadTimer, CheckCompleted, Clear,
           NextIteration, HandleAbort, Interrupt, ChildStarts,
           ChildHandlesSigint, ChildLists, ChildReads, TimerExpires, vars
<1>2. timer' \in {"zero", "running", "expired"}
  BY DEF TypeOK, Next, DriverStep, ChildStep, Fork, OpenPidFile, WritePid, Sync,
         MakeStage1, RunAfl, StartStage1Timer, StartTimer, Collect, ReadTimer,
         AsItStands, CheckCompleted, Resume, Terminate, Merge, MinimizeThen,
         Clear, NextIteration, HandleAbort, Interrupt, ChildStarts,
         ChildHandlesSigint, ChildLists, ChildReads, TimerExpires, Afl, vars
<1>3. UNCHANGED procVars \/ Fork \/ OpenPidFile \/ WritePid \/ HandleAbort
        \/ Interrupt \/ ChildStep
  BY DEF Next, DriverStep, Sync, MakeStage1, RunAfl, StartStage1Timer, Collect,
         ReadTimer, CheckCompleted, Resume, Terminate, Merge, MinimizeThen,
         Clear, NextIteration, TimerExpires, Afl, vars
<1>4. /\ args' \in BOOLEAN /\ pidf' \in {"none", "empty", "full"}
      /\ child' \in {"none", "alive", "ended"} /\ parent' \in BOOLEAN
      /\ sig' \in {"none", "sent", "seen"} /\ cpc' \in {"list", "read"}
  <2> USE DEF TypeOK
  <2>1. CASE UNCHANGED procVars
    BY <2>1 DEF procVars, childVars
  <2>2. CASE Fork \/ OpenPidFile \/ WritePid
    BY <2>2 DEF Fork, OpenPidFile, WritePid, childVars
  <2>3. CASE HandleAbort \/ Interrupt
    BY <2>3 DEF HandleAbort, KillChild, Interrupt, childVars
  <2>4. CASE ChildStep
    BY <2>4 DEF ChildStep, ChildStarts, ChildHandlesSigint, ChildLists,
                ChildReads
  <2> QED BY <1>3, <2>1, <2>2, <2>3, <2>4
<1>5. view' \in Nat \X Nat /\ last' \in Nat \X Nat
  BY Bounds DEF ChildInv, Nowhere
<1>6. unmerged' \in BOOLEAN
  BY UnmergedFrame
     DEF TypeOK, Resume, Terminate, MayCollect, Merge, OffersAll
<1> QED BY <1>1, <1>2, <1>4, <1>5, <1>6, DirsTypesNext DEF TypeOK, DirsTyped
-----------------------------------------------------------------------------
(* The results never get older.                                            *)
NowKnown ==
  /\ Empty => Now = Nowhere
  /\ Made \/ First => Now = <<1, 1>>
  /\ Begun => Now = <<2, 1>>
  /\ \A i \in Iters : Known(i) \/ Gone(i) => Now = <<2, i>>
  /\ \A i \in Last : Moved(i) => Now = <<2, i + 1>>

(* Now in each of the situations DirsInv lists.                            *)
LEMMA NowIs == NowKnown
<1> USE DEF Now, Younger, Nowhere
<1>1. Empty => Now = Nowhere
  BY YoungestNone DEF Empty
<1>2. Made \/ First => Now = <<1, 1>>
  BY YoungestOne DEF Made, First
<1>3. Begun => Now = <<2, 1>>
  BY YoungestTwo DEF Begun
<1>4. ASSUME NEW i \in Iters, Known(i) PROVE Now = <<2, i>>
  <2>1. Youngest(dirs) = <<2, i>> /\ i \in Nat
    BY <1>4, Bounds, YoungestTwo DEF Known
  <2> QED BY <1>4, <2>1 DEF Known
<1>5. ASSUME NEW i \in Iters, Gone(i) PROVE Now = <<2, i>>
  BY <1>5, YoungestOne, Bounds DEF Gone
<1>6. ASSUME NEW i \in Last, Moved(i) PROVE Now = <<2, i + 1>>
  <2>1. i \in Nat /\ i + 1 \in Nat
    BY Bounds
  <2>2. Youngest(dirs) = <<2, i + 1>>
    BY <1>6, <2>1, YoungestTwo DEF Moved
  <2> QED BY <1>6, <2>1, <2>2 DEF Moved
<1> QED BY <1>1, <1>2, <1>3, <1>4, <1>5, <1>6 DEF NowKnown

(* The same of the next state.                                             *)
LEMMA NowIsNext == NowKnown'
  BY NowIs, PTL

(* Now moves with the creation of stage 1 and of an iteration.             *)
LEMMA NowStep ==
  ASSUME DirsInv, [Next]_vars
  PROVE  /\ Quiet \/ Sync \/ Clear => Now' = Now
         /\ MakeStage1 => Now = Nowhere /\ Now' = <<1, 1>>
         /\ ReadTimer => /\ Now = <<1, 1>>
                         /\ \/ Now' = Now /\ pc' = "loop"
                            \/ Now' = <<2, 1>> /\ pc' = "resume"
         /\ NextIteration => \E i \in Last : Now = <<2, i>> /\ Now' = <<2, i + 1>>
<1> USE NowIs, NowIsNext DEF NowKnown
<1>1. ASSUME Quiet PROVE Now' = Now
  BY <1>1 DEF Quiet, Now
<1>2. ASSUME Sync PROVE Now' = Now
  BY <1>2, SyncMoves, Bounds
<1>3. ASSUME Clear PROVE Now' = Now
  BY <1>3, ClearMoves, Bounds
<1>4. ASSUME MakeStage1 PROVE Now = Nowhere /\ Now' = <<1, 1>>
  BY <1>4, MakeMoves
<1>5. ASSUME ReadTimer
      PROVE  /\ Now = <<1, 1>>
             /\ \/ Now' = Now /\ pc' = "loop"
                \/ Now' = <<2, 1>> /\ pc' = "resume"
  BY <1>5, ReadMoves
<1>6. ASSUME NextIteration
      PROVE  \E i \in Last : Now = <<2, i>> /\ Now' = <<2, i + 1>>
  BY <1>6, NextMoves, Bounds
<1> QED BY <1>1, <1>2, <1>3, <1>4, <1>5, <1>6
-----------------------------------------------------------------------------
(* The timer.                                                              *)
Stages ==
  /\ Empty \/ Made \/ First => ~HasStage2 /\ at[1] # 2
  /\ \A i : Known(i) \/ Gone(i) \/ Moved(i) => at[1] = 2
  /\ Begun => HasStage2

(* Which situations belong to stage 2.                                     *)
LEMMA StagesAre == Stages
<1>1. <<1, 1>>[1] = 1 /\ <<2, 1>>[1] = 2 /\ Nowhere[1] = 0
  BY DEF Nowhere
<1>2. Empty \/ Made \/ First => ~HasStage2 /\ at[1] # 2
  BY <1>1 DEF Empty, Made, First, One, HasStage2
<1>3. Begun => HasStage2
  BY <1>1 DEF Begun, Two, HasStage2
<1>4. \A i : Known(i) \/ Gone(i) \/ Moved(i) => at[1] = 2
  BY DEF Known, Gone, Moved
<1> QED BY <1>2, <1>3, <1>4 DEF Stages

(* The same of the next state.                                             *)
LEMMA StagesNext == Stages'
  BY StagesAre, PTL

(* Only two steps change the timer, and only one leaves "timer".           *)
LEMMA TimerFrame ==
  ASSUME [Next]_vars
  PROVE  UNCHANGED timer \/ StartStage1Timer \/ TimerExpires
  BY DEF Next, DriverStep, ChildStep, Fork, OpenPidFile, WritePid, Sync,
         MakeStage1, RunAfl, Collect, ReadTimer, AsItStands, CheckCompleted,
         Resume, Terminate, Merge, MinimizeThen, Clear, NextIteration,
         HandleAbort, Interrupt, ChildStarts, ChildHandlesSigint, ChildLists,
         ChildReads, Afl, vars

(* AFL being up, the timer is what comes next.                             *)
LEMMA TimerLeft ==
  ASSUME [Next]_vars, pc = "timer", pc' = "loop"
  PROVE  StartStage1Timer
<1>1. ~Collect
  BY CollectMoves DEF Collect, Move, Collecting, Stopped
<1> QED
  BY <1>1
     DEF Next, DriverStep, ChildStep, Fork, OpenPidFile, WritePid, Sync,
         MakeStage1, RunAfl, Abort, ReadTimer, CheckCompleted, Resume,
         Terminate, Merge, Clear, NextIteration, HandleAbort, Interrupt,
         ChildStarts, ChildHandlesSigint, ChildLists, ChildReads, TimerExpires,
         Afl, AflSaves, vars

(* Every step keeps TimerInv.                                              *)
LEMMA TimerStep ==
  ASSUME TypeOK, DirsInv, TimerInv, [Next]_vars
  PROVE  TimerInv'
<1> USE StagesAre, StagesNext DEF Stages
<1>1. CASE ReadTimer
  <2>1. First /\ timer' = timer /\ timer \in {"running", "expired"}
    BY <1>1, ReadMoves DEF ReadTimer, AsItStands, TimerInv, TypeOK
  <2>2. CASE First'
    BY <2>1, <2>2 DEF TimerInv
  <2>3. CASE Begun' /\ pc' = "resume"
    <3>1. timer' = "expired"
      BY <1>1, <2>1, <2>3 DEF ReadTimer
    <3> QED BY <3>1 DEF TimerInv
  <2> QED BY <1>1, <2>2, <2>3, ReadMoves
<1>2. CASE Sync
  <2>1. timer' = timer /\ pc = "loop"
    BY <1>2 DEF Sync
  <2>2. CASE Empty' \/ First'
    <3>1. pc' # "loop" /\ (First' => Made \/ First)
      BY <1>2, SyncMoves DEF Empty, First, Known, Nowhere
    <3> QED BY <2>1, <2>2, <3>1 DEF TimerInv
  <2>3. CASE ~Empty' /\ ~First'
    <3>1. at[1] = 2 \/ HasStage2
      BY <1>2, <2>3, SyncMoves
    <3>2. timer' = "expired"
      BY <2>1, <3>1 DEF TimerInv
    <3> QED BY <3>2 DEF TimerInv
  <2> QED BY <2>2, <2>3
<1>3. CASE MakeStage1
  <2>1. Made' /\ pc' = "afl"
    BY <1>3, MakeMoves
  <2>2. ~First'
    BY <2>1 DEF Made, First, Nowhere
  <2> QED BY <2>1, <2>2 DEF TimerInv
<1>4. CASE Clear \/ NextIteration
  <2>1. timer' = timer /\ at[1] = 2
    BY <1>4, ClearMoves, NextMoves DEF Clear, NextIteration
  <2>2. timer' = "expired"
    BY <2>1 DEF TimerInv
  <2> QED BY <2>2 DEF TimerInv
<1>5. CASE StartStage1Timer
  <2>1. Made /\ UNCHANGED <<dirs, at>> /\ timer' = "running"
    BY <1>5 DEF StartStage1Timer, StartTimer, DirsInv, Round, Ending, Between,
                Collecting, Stopped
  <2>2. Made'
    BY <2>1 DEF Made
  <2> QED BY <2>1, <2>2 DEF TimerInv
<1>6. CASE TimerExpires
  BY <1>6 DEF TimerExpires, TimerInv
<1>7. CASE Quiet /\ UNCHANGED timer /\ ~StartStage1Timer
  <2>1. First' = First /\ Made' = Made /\ HasStage2' = HasStage2 /\ at' = at
    BY <1>7 DEF Quiet, First, Made, HasStage2
  <2>2. Made /\ pc' = "loop" => pc = "loop"
    <3>1. Made => pc \in {"afl", "timer", "loop"} \cup Stopped
      <4>1. {} # One /\ Nowhere # <<1, 1>>
        BY DEF One, Nowhere
      <4>2. Made => ~Empty /\ ~First
        BY <4>1 DEF Made, Empty, First
      <4> QED BY <4>2 DEF DirsInv
    <3>2. pc = "timer" => pc' # "loop"
      BY <1>7, TimerLeft
    <3> QED BY <1>7, <3>1, <3>2 DEF Quiet, Move, Stopped, Collecting
  <2> QED BY <1>7, <2>1, <2>2 DEF TimerInv
<1> QED BY <1>1, <1>2, <1>3, <1>4, <1>5, <1>6, <1>7, MostAreQuiet, TimerFrame
-----------------------------------------------------------------------------
(* The pid, and the end.                                                   *)
LEMMA PidStep ==
  ASSUME TypeOK, PidInv, [Next]_vars
  PROVE  PidInv'
<1> USE DEF PidInv, ChildTold
<1>1. CASE Fork \/ OpenPidFile \/ WritePid
  BY <1>1 DEF Fork, OpenPidFile, WritePid
<1>2. CASE Interrupt
  <2>1. UNCHANGED <<args, pidf>> /\ pc' \in Stopped
    BY <1>2 DEF Interrupt, Stopped
  <2>2. pc' = "ended" => sig' = "sent"
    BY <1>2 DEF Interrupt
  <2> QED BY <2>1, <2>2 DEF Stopped
<1>3. CASE HandleAbort
  <2>1. UNCHANGED <<args, pidf>> /\ pc' = "ended"
    BY <1>3 DEF HandleAbort
  <2>2. pidf = "full" => PidKnown
    BY DEF PidKnown
  <2>3. pidf = "full" => sig' = "sent"
    BY <1>3, <2>2 DEF HandleAbort, KillChild
  <2> QED BY <2>1, <2>3
<1>4. CASE ChildStep
  BY <1>4 DEF ChildStep, ChildStarts, ChildHandlesSigint, ChildLists, ChildReads
<1>5. ASSUME Quiet \/ Sync \/ MakeStage1 \/ ReadTimer \/ Clear
             \/ NextIteration,
             UNCHANGED procVars, ~Fork, ~OpenPidFile, ~WritePid,
             ~Interrupt, ~HandleAbort
      PROVE  PidInv'
  <2>1. UNCHANGED <<args, pidf, sig>>
    BY <1>5 DEF procVars
  <2>2. pc' \in {"named", "ended"} => pc' = pc
    <3>1. ASSUME CollectStage1 PROVE pc' \notin {"named", "ended"}
      BY <3>1 DEF CollectStage1, ListQueue, CopyTestcase, CopyExecMap,
                  ExecMapNeeded, CopyPMMap, GenImage, GenCrashSites,
                  UpdateGlobal, Abort
    <3>2. ASSUME Resume \/ Terminate \/ Merge
          PROVE  pc' \notin {"named", "ended"}
      BY <3>2 DEF Resume, Terminate, Merge, MinimizeThen, Abort
    <3>3. ASSUME Sync \/ MakeStage1 \/ RunAfl \/ StartStage1Timer
                 \/ ReadTimer \/ CheckCompleted \/ Clear \/ NextIteration
          PROVE  pc' \notin {"named", "ended"}
      BY <3>3 DEF Sync, CollectAlways, MakeStage1, RunAfl, StartStage1Timer,
                  ReadTimer, CheckCompleted, Clear, NextIteration, Abort
    <3>4. ASSUME ChildStep \/ TimerExpires \/ Afl \/ UNCHANGED vars
          PROVE  pc' = pc
      BY <3>4 DEF ChildStep, ChildStarts, ChildHandlesSigint, ChildLists,
                  ChildReads, TimerExpires, Afl, AflSaves, vars
    <3> QED BY <1>5, <3>1, <3>2, <3>3, <3>4 DEF Next, DriverStep, Collect
  <2> QED BY <2>1, <2>2
<1>6. UNCHANGED procVars \/ Fork \/ OpenPidFile \/ WritePid \/ HandleAbort
        \/ Interrupt \/ ChildStep
  BY DEF Next, DriverStep, Sync, MakeStage1, RunAfl, StartStage1Timer, Collect,
         ReadTimer, CheckCompleted, Resume, Terminate, Merge, MinimizeThen,
         Clear, NextIteration, TimerExpires, Afl, vars
<1> QED BY <1>1, <1>2, <1>3, <1>4, <1>5, <1>6, MostAreQuiet
-----------------------------------------------------------------------------
(* The statistics.                                                         *)

(* What there is to see, and that it is not younger than Now.              *)
Seen(d) == d = Nowhere \/ d = <<1, 1>> \/ \E i \in Iters : d = <<2, i>>

(* A listing shows nothing younger than Now.                               *)
LEMMA DirsSeen ==
  ASSUME DirsInv
  PROVE  /\ Seen(Youngest(dirs))
         /\ \A i \in Iters : <<2, i>> \in dirs => Now[1] = 2 /\ i = Now[2]
         /\ Nowhere \notin dirs
<1> USE NowIs DEF NowKnown
<1>1. ASSUME Empty PROVE dirs = {} /\ Youngest(dirs) = Nowhere
  BY <1>1, YoungestNone DEF Empty
<1>2. ASSUME dirs = One
      PROVE  Youngest(dirs) = <<1, 1>> /\ \A i \in Iters : <<2, i>> \notin dirs
  BY <1>2, YoungestOne DEF One
<1>3. ASSUME NEW i \in Iters, dirs = Two(i), Now = <<2, i>>
      PROVE  /\ Youngest(dirs) = <<2, i>>
             /\ \A j \in Iters : <<2, j>> \in dirs => Now[1] = 2 /\ j = Now[2]
  <2>1. i \in Nat
    BY Bounds
  <2>2. \A j \in Iters : <<2, j>> \in dirs => j = i
    BY <1>3 DEF Two
  <2> QED BY <1>3, <2>1, <2>2, YoungestTwo
<1>4. ASSUME NEW i \in Iters, Known(i) PROVE dirs = Two(i) /\ Now = <<2, i>>
  BY <1>4 DEF Known
<1>5. ASSUME NEW i \in Last, Moved(i)
      PROVE  i + 1 \in Iters /\ dirs = Two(i + 1) /\ Now = <<2, i + 1>>
  BY <1>5, Bounds DEF Moved
<1>6. \/ dirs = {} /\ Empty
      \/ dirs = One
      \/ \E i \in Iters : dirs = Two(i) /\ Now = <<2, i>>
  BY <1>1, <1>4, <1>5, Bounds DEF DirsInv, Made, First, Begun, Gone, Known
<1>7. Seen(Youngest(dirs))
  BY <1>1, <1>2, <1>3, <1>6 DEF Seen
<1>8. \A i \in Iters : <<2, i>> \in dirs => Now[1] = 2 /\ i = Now[2]
  BY <1>1, <1>2, <1>3, <1>6
<1>9. Nowhere \notin dirs
  BY <1>6 DEF One, Two, Nowhere
<1> QED BY <1>7, <1>8, <1>9

(* Now only grows.                                                         *)
LEMMA NowGrows ==
  ASSUME DirsInv, [Next]_vars, Now[1] = 2
  PROVE  Now'[1] = 2 /\ (Now' = Now \/ Now'[2] = Now[2] + 1)
<1>1. ~MakeStage1 /\ ~ReadTimer
  BY NowStep DEF Nowhere
<1> QED BY <1>1, NowStep, MostAreQuiet

(* Now is a pair of numbers.                                               *)
LEMMA NowTyped ==
  ASSUME DirsInv
  PROVE  Now[1] \in Nat /\ Now[2] \in Nat
<1> USE NowIs, Bounds DEF NowKnown
<1>1. CASE Empty \/ Made \/ First \/ Begun
  <2>1. Now \in {Nowhere, <<1, 1>>, <<2, 1>>}
    BY <1>1
  <2> QED BY <2>1 DEF Nowhere
<1>2. ASSUME NEW i \in Iters, Known(i) \/ Gone(i) PROVE Now[1] = 2 /\ Now[2] = i
  BY <1>2
<1>3. ASSUME NEW i \in Last, Moved(i) PROVE Now[1] = 2 /\ Now[2] = i + 1
  BY <1>3
<1> QED BY <1>1, <1>2, <1>3 DEF DirsInv

(* The child's places change in two steps only.                            *)
LEMMA ChildFrame ==
  ASSUME [Next]_vars
  PROVE  UNCHANGED <<view, last>> \/ ChildLists \/ ChildReads
  BY DEF Next, DriverStep, ChildStep, Fork, OpenPidFile, WritePid, Sync,
         MakeStage1, RunAfl, StartStage1Timer, Collect, ReadTimer,
         CheckCompleted, Resume, Terminate, Merge, MinimizeThen, Clear,
         NextIteration, HandleAbort, Interrupt, ChildStarts,
         ChildHandlesSigint, TimerExpires, Afl, vars, procVars, childVars

(* Every step keeps ChildInv.                                              *)
LEMMA ChildStepInv ==
  ASSUME DirsInv, ChildInv, [Next]_vars
  PROVE  ChildInv'
<1> DEFINE Reached(d) == \/ d = <<1, 1>>
                         \/ /\ \E i \in Iters : d = <<2, i>>
                            /\ Now[1] = 2 /\ d[2] <= Now[2]
<1>1. Seen(view) /\ Reached(last)
  BY DEF ChildInv, Seen
<1>2. Seen(view')
  BY <1>1, ChildFrame, DirsSeen DEF ChildLists, ChildReads, Seen
<1>3. CASE last' = last
  <2>1. CASE last = <<1, 1>>
    BY <1>2, <1>3, <2>1 DEF ChildInv, Seen
  <2>2. ASSUME NEW i \in Iters, last = <<2, i>>, Now[1] = 2, i <= Now[2]
        PROVE  ChildInv'
    <3>1. Now'[1] = 2 /\ (Now' = Now \/ Now'[2] = Now[2] + 1)
      BY <2>2, NowGrows
    <3>2. Now[2] \in Nat /\ i \in Nat
      BY NowTyped, Bounds
    <3>3. i <= Now'[2]
      <4>1. CASE Now' = Now
        BY <2>2, <4>1
      <4>2. CASE Now'[2] = Now[2] + 1
        BY <2>2, <3>2, <4>2
      <4> QED BY <3>1, <4>1, <4>2
    <3>4. last' = <<2, i>> /\ last'[2] = i
      BY <1>3, <2>2
    <3> QED BY <1>2, <3>1, <3>3, <3>4 DEF ChildInv, Seen
  <2> QED BY <1>1, <2>1, <2>2
<1>4. CASE ChildReads /\ last' = view /\ view \in dirs
  <2>1. Now' = Now
    BY <1>4 DEF ChildReads, Now
  <2>2. Reached(view)
    <3>1. view # Nowhere
      BY <1>4, DirsSeen
    <3>2. ASSUME NEW i \in Iters, view = <<2, i>> PROVE Reached(view)
      <4>1. Now[1] = 2 /\ i = Now[2] /\ view[2] = i
        BY <1>4, <3>2, DirsSeen
      <4>2. i <= Now[2]
        BY <4>1, NowTyped
      <4> QED BY <3>2, <4>1, <4>2
    <3> QED BY <1>1, <3>1, <3>2 DEF Seen
  <2> QED BY <1>2, <1>4, <2>1, <2>2 DEF ChildInv, Seen
<1> QED BY <1>3, <1>4, ChildFrame DEF ChildLists, ChildReads
-----------------------------------------------------------------------------
(* The stores.                                                             *)
Halfway == {"execmap", "pmmap", "image"}

TestcasesInv ==
  /\ \A n \in Has(tcs) \ {cur} : Complete(n)
  /\ pc \notin Halfway \cup Stopped => (cur \in Has(tcs) => Complete(cur))
  /\ pc \in {"pmmap", "image"} => tcs[cur].map # "none"

GlobalInv ==
  /\ \A n \in Has(gbl) : gbl[n].map # "none" /\ gbl[n].img
  /\ Images = Has(gbl) \cup del

(* StoreInv in two parts.                                                  *)
LEMMA StoreParts == StoreInv <=> TestcasesInv /\ GlobalInv
  BY DEF StoreInv, TestcasesInv, GlobalInv, Halfway

(* The same of the next state.                                             *)
LEMMA StorePartsNext == TestcasesInv' /\ GlobalInv' => StoreInv'
<1>1. TestcasesInv /\ GlobalInv => StoreInv
  BY StoreParts
<1> QED BY <1>1, PTL

(* Whatever else happens, nothing gets into the middle of a collection,    *)
(* and nothing out of a stop.                                              *)
LEMMA Elsewhere ==
  ASSUME [Next]_vars, ~Collect
  PROVE  /\ UNCHANGED <<tcs, cur>>
         /\ UNCHANGED <<gbl, del>> \/ \E S \in SUBSET Has(gbl) : Minimized(S)
         /\ \/ pc' = pc \/ pc' \in Stopped
            \/ pc \notin Halfway \cup Stopped /\ pc' \notin Halfway
<1> USE DEF Halfway, Stopped
<1>1. ASSUME Fork \/ OpenPidFile \/ WritePid \/ Sync \/ MakeStage1 \/ RunAfl
             \/ StartStage1Timer \/ ReadTimer \/ CheckCompleted \/ Clear
             \/ NextIteration
      PROVE  /\ UNCHANGED <<tcs, cur, gbl, del>>
             /\ \/ pc' \in Stopped
                \/ pc \notin Halfway \cup Stopped /\ pc' \notin Halfway
  BY <1>1 DEF Fork, OpenPidFile, WritePid, Sync, CollectAlways, MakeStage1,
              RunAfl, StartStage1Timer, ReadTimer, CheckCompleted, Clear,
              NextIteration, Abort, storeVars, placeVars
<1>2. ASSUME Resume \/ Terminate \/ Merge
      PROVE  /\ UNCHANGED <<tcs, cur>>
             /\ UNCHANGED <<gbl, del>> \/ \E S \in SUBSET Has(gbl) : Minimized(S)
             /\ \/ pc' \in Stopped
                \/ pc \notin Halfway \cup Stopped /\ pc' \notin Halfway
  BY <1>2 DEF Resume, Terminate, Merge, MinimizeThen, Abort, placeVars
<1>3. ASSUME HandleAbort \/ Interrupt \/ ChildStep \/ TimerExpires \/ Afl
             \/ UNCHANGED vars
      PROVE  /\ UNCHANGED <<tcs, cur, gbl, del>>
             /\ pc' = pc \/ pc' \in Stopped
  BY <1>3 DEF HandleAbort, Interrupt, ChildStep, ChildStarts,
              ChildHandlesSigint, ChildLists, ChildReads, TimerExpires, Afl,
              AflSaves, vars, storeVars, placeVars
<1> QED BY <1>1, <1>2, <1>3 DEF Next, DriverStep

(* The testcases of stage 1.                                               *)
LEMMA TestcasesStep ==
  ASSUME StoreTypes, TestcasesInv, CollectStage1
  PROVE  TestcasesInv'
<1> USE DEF Halfway, Stopped
<1>1. tcs \in [Entries -> Files] /\ cur \in Entries
  BY DEF StoreTypes
<1>2. CASE ListQueue \/ GenCrashSites \/ UpdateGlobal
  <2>1. UNCHANGED <<tcs, cur>> /\ pc \notin Halfway \cup Stopped
        /\ pc' \notin Halfway
    BY <1>2 DEF ListQueue, GenCrashSites, UpdateGlobal, Abort, storeVars,
                placeVars
  <2> QED BY <2>1 DEF TestcasesInv, Has, Complete
<1>3. ASSUME NEW n \in Entries, CopyTestcase(n) PROVE TestcasesInv'
  <2>1. pc = "copy" /\ pc' = "execmap" /\ cur' = n
        /\ tcs' = [tcs EXCEPT ![n].tc = QueueFiles(n).tc]
    BY <1>3 DEF CopyTestcase
  <2>2. \A m \in Entries \ {n} : tcs'[m] = tcs[m]
    BY <1>1, <2>1
  <2>3. \A m \in Has(tcs) : Complete(m)
    BY <2>1 DEF TestcasesInv
  <2>4. \A m \in Has(tcs') \ {n} : m \in Has(tcs) /\ tcs'[m] = tcs[m]
    BY <2>2 DEF Has
  <2> QED BY <2>1, <2>3, <2>4 DEF TestcasesInv, Complete
<1>4. ASSUME CopyExecMap \/ CopyPMMap \/ GenImage
      PROVE  /\ cur' = cur
             /\ \A m \in Entries \ {cur} : tcs'[m] = tcs[m]
             /\ \/ pc' = "aborting"
                \/ pc' = "pmmap" /\ tcs'[cur].map # "none"
                \/ pc = "pmmap" /\ pc' = "image" /\ tcs'[cur].map = tcs[cur].map
                \/ pc = "image" /\ pc' = "crash"
                     /\ tcs'[cur].map = tcs[cur].map /\ tcs'[cur].img
  <2>1. tcs[cur] \in Files
    BY <1>1
  <2>2. CASE CopyExecMap
    BY <1>1, <2>1, <2>2 DEF CopyExecMap, ExecMapNeeded, Abort, placeVars, Files
  <2>3. CASE CopyPMMap
    BY <1>1, <2>1, <2>3 DEF CopyPMMap, placeVars, Files
  <2>4. CASE GenImage
    BY <1>1, <2>1, <2>4 DEF GenImage, Abort, placeVars, Files
  <2> QED BY <1>4, <2>2, <2>3, <2>4
<1>5. CASE CopyExecMap \/ CopyPMMap \/ GenImage
  <2>1. \A m \in Has(tcs') \ {cur} : m \in Has(tcs) /\ tcs'[m] = tcs[m]
    BY <1>4, <1>5 DEF Has
  <2>2. \A m \in Has(tcs') \ {cur'} : Complete(m)'
    BY <1>4, <1>5, <2>1 DEF TestcasesInv, Complete
  <2>3. pc' \notin Halfway \cup Stopped => Complete(cur)'
    BY <1>4, <1>5 DEF TestcasesInv, Complete
  <2>4. pc' \in {"pmmap", "image"} => tcs'[cur'].map # "none"
    BY <1>4, <1>5 DEF TestcasesInv
  <2> QED BY <2>2, <2>3, <2>4 DEF TestcasesInv
<1> QED BY <1>2, <1>3, <1>5 DEF CollectStage1

(* @dedup: what the collection adds, and what the minimizers take away.    *)
LEMMA Collected ==
  ASSUME StoreTypes, TestcasesInv, GlobalInv, CollectStage1
  PROVE  /\ GlobalInv'
         /\ \/ UNCHANGED <<gbl, del>>
            \/ /\ NewInGlobal \subseteq Entries \ Images
               /\ Has(gbl)' = Has(gbl) \cup NewInGlobal
               /\ Images' = Images \cup NewInGlobal
               /\ del' = del
<1>1. CASE UNCHANGED <<gbl, del>>
  BY <1>1 DEF GlobalInv, Has, Images
<1>2. CASE UpdateGlobal /\ ImagesMissing = {}
  <2>1. pc = "copy" /\ pc' = "collected" /\ del' = del
        /\ gbl' = [n \in Entries |-> IF n \in NewInGlobal THEN tcs[n] ELSE gbl[n]]
    BY <1>2 DEF UpdateGlobal
  <2>2. \A n \in Has(tcs) : Complete(n)
    BY <2>1 DEF TestcasesInv, Halfway, Stopped
  <2>3. \A n \in NewInGlobal : tcs[n].tc # "none" /\ Complete(n) /\ ~gbl[n].img
    BY <2>2 DEF NewInGlobal, Has, GlobalInv, Images
  <2>4. NewInGlobal \subseteq Entries
    BY DEF NewInGlobal, Has
  <2>5. /\ \A n \in NewInGlobal : gbl'[n] = tcs[n]
        /\ \A n \in Entries \ NewInGlobal : gbl'[n] = gbl[n]
    BY <2>1, <2>4
  <2>6. Has(gbl') = Has(gbl) \cup NewInGlobal
    BY <2>3, <2>4, <2>5 DEF Has
  <2>7. \A n \in Has(gbl') : gbl'[n].map # "none" /\ gbl'[n].img
    BY <2>3, <2>5, <2>6 DEF GlobalInv, Complete, Has
  <2>8. Images' = Images \cup NewInGlobal
    BY <2>3, <2>4, <2>5 DEF Complete, Images
  <2>9. GlobalInv'
    BY <2>1, <2>6, <2>7, <2>8 DEF GlobalInv
  <2> QED BY <2>1, <2>3, <2>4, <2>6, <2>8, <2>9 DEF Images
<1>3. UNCHANGED <<gbl, del>> \/ (UpdateGlobal /\ ImagesMissing = {})
  BY DEF CollectStage1, ListQueue, CopyTestcase, CopyExecMap, CopyPMMap,
         GenImage, GenCrashSites, UpdateGlobal, storeVars
<1> QED BY <1>1, <1>2, <1>3

(* And the other way round: what minimization takes.                       *)
LEMMA Taken ==
  ASSUME StoreTypes, GlobalInv, NEW S \in SUBSET Has(gbl), Minimized(S)
  PROVE  /\ GlobalInv'
         /\ Has(gbl)' = Has(gbl) \ S /\ del' = del \cup S
         /\ Images' = Images
<1>1. S \subseteq Entries /\ del' = del \cup S
  BY DEF Has, Minimized
<1>2. /\ \A n \in S : gbl'[n].tc = "none" /\ gbl'[n].img
      /\ \A n \in Entries \ S : gbl'[n] = gbl[n]
  BY <1>1 DEF Minimized, NoFiles
<1>3. Has(gbl)' = Has(gbl) \ S
  BY <1>1, <1>2 DEF Has
<1>4. Images' = Images
  BY <1>1, <1>2 DEF GlobalInv, Images
<1>5. GlobalInv'
  <2>1. \A n \in Has(gbl)' : gbl'[n].map # "none" /\ gbl'[n].img
    BY <1>1, <1>2, <1>3 DEF GlobalInv, Has
  <2>2. Images' = Has(gbl)' \cup del'
    BY <1>1, <1>3, <1>4 DEF GlobalInv
  <2> QED BY <2>1, <2>2 DEF GlobalInv
<1> QED BY <1>1, <1>3, <1>4, <1>5

(* Every step keeps StoreInv.                                              *)
LEMMA StoreStep ==
  ASSUME StoreTypes, StoreInv, [Next]_vars
  PROVE  StoreInv'
<1>1. TestcasesInv /\ GlobalInv
  BY StoreParts
<1>2. CASE Collect
  BY <1>1, <1>2, TestcasesStep, Collected, StorePartsNext DEF Collect
<1>3. CASE ~Collect
  <2>1. TestcasesInv'
    BY <1>1, <1>3, Elsewhere
       DEF TestcasesInv, Has, Complete, Halfway, Stopped
  <2>2. GlobalInv'
    BY <1>1, <1>3, Elsewhere, Taken DEF GlobalInv, Has, Images
  <2> QED BY <2>1, <2>2, StorePartsNext
<1> QED BY <1>2, <1>3
-----------------------------------------------------------------------------
(* The way of an entry from the queue to @dedup.                           *)
Working == {"copy", "execmap", "pmmap", "image", "crash"}

(* Nothing but the collection touches the listing, or gets into the middle *)
(* of it, and what AFL has begun it does not take back.                    *)
LEMMA ListingLeft ==
  ASSUME StoreTypes, [Next]_vars, ~Collect
  PROVE  /\ UNCHANGED todo
         /\ pc' = pc \/ pc' \notin Working
         /\ \A n \in Entries : wrote[n] > 0 => wrote'[n] > 0
         /\ \A n \in Entries : wrote[n] = LastStep(n) => wrote'[n] = wrote[n]
<1>1. ASSUME ~Afl
      PROVE  /\ UNCHANGED <<todo, wrote>>
             /\ pc' = pc \/ pc' \notin Working
  BY <1>1 DEF Next, DriverStep, ChildStep, Fork, OpenPidFile, WritePid, Sync,
     CollectAlways, MakeStage1, RunAfl, StartStage1Timer, ReadTimer,
     CheckCompleted, Resume, Terminate, Merge, MinimizeThen, Clear,
     NextIteration, HandleAbort, Interrupt, ChildStarts, ChildHandlesSigint,
     ChildLists, ChildReads, TimerExpires, Abort, vars, queueVars, placeVars,
     Working
<1>2. ASSUME NEW m \in Entries, AflSaves(m)
      PROVE  /\ UNCHANGED <<todo, pc>>
             /\ \A n \in Entries : wrote[n] > 0 => wrote'[n] > 0
             /\ \A n \in Entries : wrote[n] = LastStep(n)
                                     => wrote'[n] = wrote[n]
  <2>1. wrote \in [Entries -> 0..6]
    BY DEF StoreTypes
  <2>2. /\ UNCHANGED <<todo, pc>> /\ wrote[m] < LastStep(m)
        /\ wrote' = [wrote EXCEPT ![m] =
                       IF m \in Seeds /\ wrote[m] = 0 THEN 2 ELSE wrote[m] + 1]
    BY <1>2 DEF AflSaves, placeVars
  <2>3. wrote'[m] > 0
    BY <2>1, <2>2
  <2>4. \A n \in Entries \ {m} : wrote'[n] = wrote[n]
    BY <2>1, <2>2
  <2>5. wrote[m] # LastStep(m)
    BY <2>1, <2>2
  <2> QED BY <2>2, <2>3, <2>4, <2>5
<1> QED BY <1>1, <1>2 DEF Afl

(* The entries WayInv is about.                                            *)
Arrived == Has(gbl) \cup del \cup {m \in Entries : tcs[m].img}

(* The collection keeps WayInv: an entry enters it from the listing, and   *)
(* has an image when it leaves.                                            *)
LEMMA WayCollects ==
  ASSUME StoreTypes, WayInv, CollectStage1
  PROVE  WayInv'
<1> USE DEF InCollection
<1>1. tcs \in [Entries -> Files] /\ cur \in Entries
  BY DEF StoreTypes
<1>2. CASE ListQueue
  BY <1>2 DEF ListQueue, WayInv, queueVars, storeVars, Has
<1>3. ASSUME NEW n \in Entries, CopyTestcase(n) PROVE WayInv'
  <2>1. /\ pc = "copy" /\ n \in todo /\ todo' = todo \ {n} /\ cur' = n
        /\ tcs' = [tcs EXCEPT ![n].tc = QueueFiles(n).tc]
        /\ pc' = "execmap" /\ UNCHANGED <<wrote, gbl, del>>
    BY <1>3 DEF CopyTestcase, queueVars
  <2>2. wrote[n] > 0 /\ n \notin Has(tcs)
    BY <2>1 DEF WayInv
  <2>3. QueueFiles(n).tc # "none"
    <3>1. wrote[n] \in 0..6
      BY DEF StoreTypes
    <3> QED BY <2>2, <3>1 DEF QueueFiles, FileAt
  <2>4. /\ \A m \in Entries \ {n} : tcs'[m] = tcs[m]
        /\ tcs'[n].tc = QueueFiles(n).tc /\ tcs'[n].img = tcs[n].img
    <3>1. tcs[n] \in Files
      BY <1>1
    <3> QED BY <1>1, <2>1, <3>1 DEF Files
  <2>5. Has(tcs') = Has(tcs) \cup {n}
    BY <2>3, <2>4 DEF Has
  <2>6. Arrived' = Arrived /\ n \notin Arrived
    BY <2>1, <2>2, <2>4 DEF Arrived, Has, WayInv
  <2> QED BY <2>1, <2>5, <2>6 DEF WayInv, Arrived
<1>4. ASSUME CopyExecMap \/ CopyPMMap
      PROVE  /\ Has(tcs') = Has(tcs)
             /\ \A m \in Entries : tcs'[m].img = tcs[m].img
             /\ UNCHANGED <<wrote, todo, cur, gbl, del>>
             /\ InCollection /\ pc' \in {"pmmap", "image", "aborting"}
  <2>1. tcs[cur] \in Files
    BY <1>1
  <2>2. UNCHANGED <<wrote, todo, cur, gbl, del>>
        /\ InCollection /\ pc' \in {"pmmap", "image", "aborting"}
    BY <1>4 DEF CopyExecMap, CopyPMMap, ExecMapNeeded, Abort, queueVars,
                placeVars
  <2>3. /\ \A m \in Entries \ {cur} : tcs'[m] = tcs[m]
        /\ tcs'[cur].tc = tcs[cur].tc /\ tcs'[cur].img = tcs[cur].img
    <3>1. CASE CopyExecMap
      BY <1>1, <2>1, <3>1 DEF CopyExecMap, ExecMapNeeded, Files
    <3>2. CASE CopyPMMap
      BY <1>1, <2>1, <3>2 DEF CopyPMMap, Files
    <3> QED BY <1>4, <3>1, <3>2
  <2>4. Has(tcs') = Has(tcs)
    BY <2>3 DEF Has
  <2> QED BY <2>2, <2>3, <2>4
<1>5. CASE CopyExecMap \/ CopyPMMap
  <2>1. Has(gbl') = Has(gbl) /\ Arrived' = Arrived
    BY <1>4, <1>5 DEF Arrived, Has
  <2> QED BY <1>4, <1>5, <2>1 DEF WayInv, Arrived
<1>6. CASE GenImage
  <2>1. /\ pc = "image" /\ UNCHANGED <<wrote, todo, cur, gbl, del>>
        /\ \/ tcs' = [tcs EXCEPT ![cur].img = TRUE] /\ pc' = "crash"
           \/ UNCHANGED tcs /\ pc' = "aborting"
    BY <1>6 DEF GenImage, Abort, queueVars, placeVars
  <2>2. CASE tcs' = [tcs EXCEPT ![cur].img = TRUE] /\ pc' = "crash"
    <3>1. tcs[cur] \in Files
      BY <1>1
    <3>2. /\ \A m \in Entries \ {cur} : tcs'[m] = tcs[m]
          /\ tcs'[cur].tc = tcs[cur].tc
      BY <1>1, <2>2, <3>1 DEF Files
    <3>3. Has(tcs') = Has(tcs)
      BY <3>2 DEF Has
    <3>4. Arrived' \subseteq Arrived \cup {cur}
      BY <2>1, <3>2 DEF Arrived, Has
    <3>5. cur \in Has(tcs)
      BY <2>1 DEF WayInv
    <3> QED BY <2>1, <2>2, <3>3, <3>4, <3>5 DEF WayInv, Arrived
  <2>3. CASE UNCHANGED tcs /\ pc' = "aborting"
    BY <2>1, <2>3 DEF WayInv, Has
  <2> QED BY <2>1, <2>2, <2>3
<1>7. CASE GenCrashSites
  BY <1>7 DEF GenCrashSites, Abort, WayInv, queueVars, placeVars, Has
<1>8. CASE UpdateGlobal
  <2>1. /\ pc = "copy" /\ pc' \in {"collected", "aborting"}
        /\ UNCHANGED <<wrote, todo, cur, tcs, del>>
    BY <1>8 DEF UpdateGlobal, Abort, queueVars, placeVars
  <2>2. Has(gbl') \subseteq Has(gbl) \cup Has(tcs)
    <3>1. CASE UNCHANGED gbl
      BY <3>1 DEF Has
    <3>2. CASE gbl' = [n \in Entries |->
                         IF n \in NewInGlobal THEN tcs[n] ELSE gbl[n]]
      BY <3>2 DEF Has
    <3> QED BY <1>8, <3>1, <3>2 DEF UpdateGlobal
  <2>3. Arrived' \subseteq Arrived \cup Has(tcs)
    BY <2>1, <2>2 DEF Arrived
  <2>4. Has(tcs') = Has(tcs)
    BY <2>1 DEF Has
  <2> QED BY <2>1, <2>3, <2>4 DEF WayInv, Arrived
<1> QED BY <1>2, <1>3, <1>5, <1>6, <1>7, <1>8 DEF CollectStage1

(* Every step keeps WayInv.                                                *)
LEMMA WayStep ==
  ASSUME StoreTypes, WayInv, GlobalInv, [Next]_vars
  PROVE  WayInv'
<1>1. CASE Collect
  BY <1>1, WayCollects DEF Collect
<1>2. CASE ~Collect
  <2>1. /\ UNCHANGED <<tcs, cur, todo>>
        /\ UNCHANGED <<gbl, del>> \/ \E S \in SUBSET Has(gbl) : Minimized(S)
        /\ pc' = pc \/ pc' \notin Working
        /\ \A n \in Entries : wrote[n] > 0 => wrote'[n] > 0
    BY <1>2, Elsewhere, ListingLeft
  <2>2. Has(tcs') = Has(tcs)
    BY <2>1 DEF Has
  <2>3. Arrived' = Arrived
    <3>1. CASE UNCHANGED <<gbl, del>>
      BY <2>1, <3>1 DEF Arrived, Has
    <3>2. ASSUME NEW S \in SUBSET Has(gbl), Minimized(S)
          PROVE  Arrived' = Arrived
      <4>1. Has(gbl') = Has(gbl) \ S /\ del' = del \cup S
        BY <3>2, Taken
      <4> QED BY <2>1, <4>1 DEF Arrived
    <3> QED BY <2>1, <3>1, <3>2
  <2>4. todo \subseteq Entries
    BY DEF StoreTypes
  <2> QED BY <2>1, <2>2, <2>3, <2>4 DEF WayInv, Arrived, Working, InCollection
<1> QED BY <1>1, <1>2

(* What AFL is done with leaves all its files when it is copied.           *)
LEMMA DoneIsWhole ==
  ASSUME NEW n \in Entries, wrote[n] = LastStep(n)
  PROVE  /\ QueueFiles(n).tc = "full" /\ QueueFiles(n).map = "full"
         /\ QueueFiles(n).pm = Whole(n).pm
  BY DEF QueueFiles, FileAt, LastStep, Whole

(* An entry that is being collected is nowhere else, so if it is on its    *)
(* way the collection has missed none of its files.                        *)
LEMMA UnderWay ==
  ASSUME StoreTypes, WayInv, InCollection, OnTheWay(cur)
  PROVE  HalfCollected(cur) /\ gbl[cur].tc = "none" /\ cur \notin del
<1>1. cur \in Entries /\ cur \in Has(tcs)
  BY DEF StoreTypes, WayInv
<1>2. cur \notin Arrived
  BY DEF WayInv, Arrived
<1>3. gbl[cur].tc = "none" /\ cur \notin del /\ ~tcs[cur].img
  BY <1>1, <1>2 DEF Arrived, Has
<1>4. gbl[cur] # Whole(cur) /\ tcs[cur] # Whole(cur)
  BY <1>3 DEF Whole
<1>5. ~InQueue(cur)
  BY <1>1 DEF InQueue, Has
<1> QED BY <1>3, <1>4, <1>5 DEF OnTheWay

(* A step that leaves an entry alone everywhere leaves it on its way.      *)
LEMMA WayFrame ==
  ASSUME NEW n \in Entries, OnTheWay(n), ~HalfCollected(n),
         tcs'[n] = tcs[n], wrote[n] = LastStep(n) => wrote'[n] = wrote[n],
         gbl'[n] = gbl[n], del \subseteq del'
  PROVE  OnTheWay(n)'
<1>1. InQueue(n) => InQueue(n)'
  BY DEF InQueue, LastStep
<1>2. Whole(n)' = Whole(n)
  BY DEF Whole
<1> QED BY <1>1, <1>2 DEF OnTheWay

(* No step of the collection takes an entry off its way.                   *)
LEMMA CollectionKeeps ==
  ASSUME StoreTypes, WayInv, CollectStage1, NEW n \in Entries, OnTheWay(n)
  PROVE  OnTheWay(n)' \/ pc' \in Stopped
<1> DEFINE Goal == OnTheWay(n)' \/ pc' \in Stopped
<1>a. tcs \in [Entries -> Files] /\ cur \in Entries
  BY DEF StoreTypes
<1>1. CASE ListQueue \/ GenCrashSites
  <2>1. ~HalfCollected(n)
    BY <1>1 DEF ListQueue, GenCrashSites, HalfCollected, InCollection
  <2> QED BY <1>1, <2>1, WayFrame
          DEF ListQueue, GenCrashSites, queueVars, storeVars
<1>2. ASSUME NEW m \in Entries, CopyTestcase(m) PROVE Goal
  <2>1. /\ pc = "copy" /\ m \in todo /\ cur' = m /\ pc' = "execmap"
        /\ tcs' = [tcs EXCEPT ![m].tc = QueueFiles(m).tc]
        /\ UNCHANGED <<wrote, gbl, del>>
    BY <1>2 DEF CopyTestcase, queueVars
  <2>2. ~HalfCollected(n)
    BY <2>1 DEF HalfCollected, InCollection
  <2>3. CASE m # n
    <3>1. tcs'[n] = tcs[n]
      BY <1>a, <2>1, <2>3
    <3> QED BY <2>1, <2>2, <3>1, WayFrame
  <2>4. CASE m = n
    <3>1. n \notin Has(tcs) /\ n \notin Arrived
      BY <2>1, <2>4 DEF WayInv, Arrived
    <3>2. tcs[n].tc = "none" /\ gbl[n].tc = "none" /\ n \notin del
      BY <3>1 DEF Has, Arrived
    <3>3. wrote[n] = LastStep(n)
      BY <2>2, <3>2 DEF OnTheWay, InQueue, Whole
    <3>4. tcs'[n].tc = "full"
      <4>1. tcs[n] \in Files
        BY <1>a
      <4> QED BY <1>a, <2>1, <2>4, <3>3, <4>1, DoneIsWhole DEF Files
    <3>5. wrote'[n] = LastStep(n)' /\ InCollection'
      BY <2>1, <3>3 DEF LastStep, InCollection
    <3>6. HalfCollected(n)'
      BY <2>1, <2>4, <3>4, <3>5 DEF HalfCollected
    <3> QED BY <3>6 DEF OnTheWay
  <2> QED BY <2>3, <2>4
<1>3. ASSUME CopyExecMap \/ CopyPMMap \/ GenImage
      PROVE  /\ InCollection /\ UNCHANGED <<wrote, gbl, del, cur>>
             /\ \A m \in Entries \ {cur} : tcs'[m] = tcs[m]
  <2>1. UNCHANGED tcs \/ \E r : tcs' = [tcs EXCEPT ![cur] = r]
    BY <1>3 DEF CopyExecMap, ExecMapNeeded, CopyPMMap, GenImage
  <2>2. InCollection /\ UNCHANGED <<wrote, gbl, del, cur>>
    BY <1>3 DEF CopyExecMap, CopyPMMap, GenImage, InCollection, queueVars,
                placeVars
  <2> QED BY <1>a, <2>1, <2>2
<1>4. ASSUME CopyExecMap \/ CopyPMMap \/ GenImage, n # cur PROVE Goal
  <2>1. ~HalfCollected(n)
    BY <1>4 DEF HalfCollected
  <2> QED BY <1>3, <1>4, <2>1, WayFrame
<1>5. ASSUME CopyExecMap \/ CopyPMMap \/ GenImage, n = cur PROVE Goal
  <2>1. /\ HalfCollected(n) /\ gbl[n].tc = "none"
        /\ tcs[n] \in Files /\ wrote[n] = LastStep(n) /\ tcs[n].tc = "full"
        /\ pc # "execmap" => tcs[n].map = "full"
        /\ pc = "image" => tcs[n].pm = Whole(n).pm
    BY <1>3, <1>5, <1>a, UnderWay DEF HalfCollected
  <2>2. /\ wrote'[n] = LastStep(n)' /\ n = cur' /\ gbl'[n].tc = "none"
        /\ Whole(n)' = Whole(n)
    BY <1>3, <1>5, <2>1 DEF LastStep, Whole
  <2>3. CASE CopyExecMap
    <3>1. CASE pc' = "aborting"
      BY <3>1 DEF Stopped
    <3>2. CASE /\ tcs' = [tcs EXCEPT ![n].map = QueueFiles(n).map]
               /\ pc' = "pmmap"
      <4>1. tcs'[n].tc = "full" /\ tcs'[n].map = "full"
        BY <1>a, <2>1, <3>2, DoneIsWhole DEF Files
      <4> QED BY <2>2, <3>2, <4>1 DEF OnTheWay, HalfCollected, InCollection
    <3> QED BY <1>5, <2>3, <3>1, <3>2 DEF CopyExecMap, ExecMapNeeded, Abort
  <2>4. CASE CopyPMMap
    <3>1. /\ tcs' = [tcs EXCEPT ![n].pm = QueueFiles(n).pm]
          /\ pc = "pmmap" /\ pc' = "image"
      BY <1>5, <2>4 DEF CopyPMMap
    <3>2. /\ tcs'[n].tc = "full" /\ tcs'[n].map = "full"
          /\ tcs'[n].pm = Whole(n).pm
      BY <1>a, <2>1, <3>1, DoneIsWhole DEF Files
    <3> QED BY <2>2, <3>1, <3>2 DEF OnTheWay, HalfCollected, InCollection
  <2>5. CASE GenImage
    <3>1. CASE pc' = "aborting"
      BY <3>1 DEF Stopped
    <3>2. CASE tcs' = [tcs EXCEPT ![n].img = TRUE] /\ pc = "image"
      <4>1. tcs'[n] = [tcs[n] EXCEPT !.img = TRUE]
        BY <1>a, <3>2
      <4>2. /\ tcs'[n] \in Files /\ tcs'[n].img
            /\ tcs'[n].tc = "full" /\ tcs'[n].map = "full"
            /\ tcs'[n].pm = Whole(n).pm
        <5>1. /\ tcs[n] \in Files /\ tcs[n].tc = "full"
              /\ tcs[n].map = "full" /\ tcs[n].pm = Whole(n).pm
          BY <2>1, <3>2
        <5> HIDE DEF Goal
        <5> QED BY <4>1, <5>1 DEF Files
      <4>3. tcs'[n] = [tc |-> "full", map |-> "full", pm |-> Whole(n).pm,
                       img |-> TRUE]
        BY <4>2 DEF Files
      <4>4. tcs'[n] = Whole(n)
        BY <4>3 DEF Whole
      <4> QED BY <2>2, <4>4 DEF OnTheWay
    <3> QED BY <1>5, <2>5, <3>1, <3>2 DEF GenImage, Abort
  <2> QED BY <1>5, <2>3, <2>4, <2>5
<1>6. CASE UpdateGlobal
  <2>1. pc = "copy" /\ UNCHANGED <<wrote, tcs, del>>
    BY <1>6 DEF UpdateGlobal, queueVars
  <2>2. ~HalfCollected(n)
    BY <2>1 DEF HalfCollected, InCollection
  <2>3. CASE pc' = "aborting"
    BY <2>3 DEF Stopped
  <2>4. CASE gbl' = [m \in Entries |->
                       IF m \in NewInGlobal THEN tcs[m] ELSE gbl[m]]
    <3>1. CASE n \in NewInGlobal /\ tcs[n] = Whole(n)
      <4>1. gbl'[n] = Whole(n)'
        BY <2>4, <3>1 DEF Whole
      <4> QED BY <4>1 DEF OnTheWay
    <3>2. CASE n \notin NewInGlobal
      <4>1. gbl'[n] = gbl[n]
        BY <2>4, <3>2
      <4> QED BY <2>1, <2>2, <4>1, WayFrame
    <3>3. CASE n \in NewInGlobal /\ tcs[n] # Whole(n)
      <4>1. tcs[n].tc # "none" /\ gbl[n].tc = "none" /\ n \notin del
        BY <3>3 DEF NewInGlobal, Has
      <4> QED BY <2>2, <3>3, <4>1 DEF OnTheWay, InQueue, Whole
    <3> QED BY <3>1, <3>2, <3>3
  <2> QED BY <1>6, <2>3, <2>4 DEF UpdateGlobal, Abort
<1> QED BY <1>1, <1>2, <1>4, <1>5, <1>6 DEF CollectStage1

(* Neither does AFL, nor a signal, nor a minimizer: what it takes has a    *)
(* placeholder then.                                                       *)
LEMMA ElsewhereKeeps ==
  ASSUME StoreTypes, [Next]_vars, ~Collect, NEW n \in Entries, OnTheWay(n)
  PROVE  OnTheWay(n)' \/ pc' \in Stopped
<1>1. /\ UNCHANGED <<tcs, cur>>
      /\ UNCHANGED <<gbl, del>> \/ \E S \in SUBSET Has(gbl) : Minimized(S)
      /\ wrote[n] = LastStep(n) => wrote'[n] = wrote[n]
  BY Elsewhere, ListingLeft
<1>2. CASE HalfCollected(n)
  <2>1. pc' = pc \/ pc' \in Stopped
    BY <1>2, Elsewhere DEF HalfCollected, InCollection, Halfway
  <2>2. pc' = pc => HalfCollected(n)'
    BY <1>1, <1>2 DEF HalfCollected, InCollection, Whole, LastStep
  <2> QED BY <2>1, <2>2 DEF OnTheWay
<1>3. CASE ~HalfCollected(n) /\ UNCHANGED <<gbl, del>>
  BY <1>1, <1>3, WayFrame
<1>4. ASSUME ~HalfCollected(n), NEW S \in SUBSET Has(gbl), Minimized(S)
      PROVE  OnTheWay(n)'
  <2>1. del' = del \cup S /\ (n \notin S => gbl'[n] = gbl[n])
    BY <1>4 DEF Minimized
  <2>2. CASE n \in S
    BY <2>1, <2>2 DEF OnTheWay
  <2>3. CASE n \notin S
    BY <1>1, <1>4, <2>1, <2>3, WayFrame
  <2> QED BY <2>2, <2>3
<1> QED BY <1>1, <1>2, <1>3, <1>4
-----------------------------------------------------------------------------
(* What has been offered to @dedup.                                        *)

(* The collection ends with everything of stage 1 in @dedup or known to    *)
(* have been there.                                                        *)
LEMMA CollectionOffers ==
  ASSUME CollectStage1, pc' = "collected"
  PROVE  Offered'
<1>1. UpdateGlobal
  BY DEF CollectStage1, ListQueue, CopyTestcase, CopyExecMap, ExecMapNeeded,
         CopyPMMap, GenImage, GenCrashSites, Abort
<1>2. /\ tcs' = tcs /\ del' = del
      /\ gbl' = [n \in Entries |->
                  IF n \in NewInGlobal THEN tcs[n] ELSE gbl[n]]
  BY <1>1 DEF UpdateGlobal, Abort
<1>3. \A n \in Has(tcs) : n \in del' \/ gbl'[n].tc # "none"
  BY <1>2 DEF NewInGlobal, Has
<1> QED BY <1>2, <1>3 DEF Offered, Has

(* Every step keeps OfferInv.                                              *)
LEMMA OfferStep ==
  ASSUME StoreTypes, GlobalInv, OfferInv, [Next]_vars
  PROVE  OfferInv'
<1> DEFINE Deduped == {"collected", "terminate", "merge"}
<1>1. CASE Collect
  <2>1. pc' \in Stopped \cup Collecting \cup {"collected"}
    BY <1>1, CollectMoves DEF Collect, Move
  <2>2. pc' = "collected" => Offered'
    BY <1>1, CollectionOffers DEF Collect
  <2> QED BY <2>1, <2>2 DEF OfferInv, Stopped, Collecting
<1>2. CASE ~Collect
  <2>1. Offered => Offered'
    <3>1. tcs' = tcs
      BY <1>2, Elsewhere
    <3>2. CASE UNCHANGED <<gbl, del>>
      BY <3>1, <3>2 DEF Offered, Has
    <3>3. ASSUME NEW S \in SUBSET Has(gbl), Minimized(S), Offered
          PROVE  Offered'
      <4>1. Has(gbl') = Has(gbl) \ S /\ del' = del \cup S
        BY <3>3, Taken
      <4> QED BY <3>1, <3>3, <4>1 DEF Offered, Has
    <3> QED BY <1>2, <3>2, <3>3, Elsewhere
  <2>2. pc' \in Deduped => pc \in Deduped
    BY <1>2
       DEF Next, DriverStep, ChildStep, Fork, OpenPidFile, WritePid, Sync,
           CollectAlways, MakeStage1, RunAfl, StartStage1Timer, ReadTimer,
           CheckCompleted, Resume, Terminate, Merge, MinimizeThen, Clear,
           NextIteration, HandleAbort, Interrupt, ChildStarts,
           ChildHandlesSigint, ChildLists, ChildReads, TimerExpires, Afl,
           AflSaves, Abort, vars
  <2>3. pc' \in {"clear", "next"} => ~unmerged'
    <3>1. ASSUME Merge, pc' = "clear" PROVE ~unmerged'
      BY <3>1 DEF Merge, OffersAll
    <3>2. ASSUME pc' \in {"clear", "next"}
          PROVE  \/ Merge /\ pc' = "clear"
                 \/ pc \in {"clear", "next"} /\ UNCHANGED unmerged
      BY <1>2, <3>2
         DEF Next, DriverStep, ChildStep, Fork, OpenPidFile, WritePid, Sync,
             CollectAlways, MakeStage1, RunAfl, StartStage1Timer, ReadTimer,
             CheckCompleted, Resume, Terminate, Merge, MinimizeThen, Clear,
             NextIteration, HandleAbort, Interrupt, ChildStarts,
             ChildHandlesSigint, ChildLists, ChildReads, TimerExpires, Afl,
             AflSaves, Abort, vars
    <3> QED BY <3>1, <3>2 DEF OfferInv
  <2> QED BY <2>1, <2>2, <2>3 DEF OfferInv
<1> QED BY <1>1, <1>2
-----------------------------------------------------------------------------
(* Directories, files, pid file, timer and the two processes fit together  *)
(* in every state; the theorems below follow from it.                      *)
THEOREM Invariant == Spec => []IndInv
<1>1. IndInv /\ [Next]_vars => IndInv'
  <2> SUFFICES ASSUME IndInv, [Next]_vars PROVE IndInv'
    OBVIOUS
  <2>1. DirsInv' /\ ChildInv'
    BY DirsStep, ChildStepInv DEF IndInv
  <2>2. TypeOK' /\ TimerInv' /\ PidInv'
    BY <2>1, TypesStep, TimerStep, PidStep DEF IndInv
  <2>3. StoreInv'
    BY StoreStep DEF IndInv, TypeOK
  <2>4. WayInv' /\ OfferInv'
    BY WayStep, OfferStep, StoreParts DEF IndInv, TypeOK
  <2> QED BY <2>1, <2>2, <2>3, <2>4 DEF IndInv
<1> QED BY <1>1, InitInv, PTL DEF Spec

(* Every variable stays within its type.                                   *)
THEOREM TypeCorrect == Spec => []TypeOK
<1>1. IndInv => TypeOK
  BY DEF IndInv
<1> QED BY <1>1, Invariant, PTL

(* What stage 1 and @dedup hold is complete.                               *)
THEOREM StoresAreComplete == Spec => []StoresComplete
<1>1. IndInv => StoresComplete
  BY DEF IndInv, StoreInv, StoresComplete, InCollection, Complete, Stopped
<1> QED BY <1>1, Invariant, PTL

(* The second stage waits for the timer of the first.                      *)
THEOREM TimerFirst == Spec => []Stage2AfterTimer
<1>1. IndInv => Stage2AfterTimer
  BY DEF IndInv, TimerInv, HasStage2, Stage2AfterTimer
<1> QED BY <1>1, Invariant, PTL

(* The driver does not leave without a word to the child.                  *)
THEOREM ChildIsTold == Spec => []ChildTold
<1>1. IndInv => ChildTold
  BY DEF IndInv, PidInv
<1> QED BY <1>1, Invariant, PTL

(* However AFL, the collection, the minimizers and signals interleave,     *)
(* what AFL has completed stays on its way to @dedup, with all its files,  *)
(* until the driver stops.                                                 *)
THEOREM NeverOffTheWay == Spec => NeverLost
<1>1. IndInv /\ [Next]_vars
        => [\A n \in Entries :
              OnTheWay(n) => OnTheWay(n)' \/ pc' \in {"aborting", "ended"}]_vars
  BY CollectionKeeps, ElsewhereKeeps DEF IndInv, TypeOK, Collect, Stopped
<1> QED BY <1>1, Invariant, PTL DEF Spec, NeverLost
-----------------------------------------------------------------------------
(* Steps of the driver's position.                                         *)
LEMMA AtStep ==
  ASSUME DirsInv, [Next]_vars
  PROVE  at' # at => Younger(at', at)
<1>1. ASSUME Sync PROVE at' # at => Younger(at', at)
  <2>1. ASSUME Made, First' PROVE Younger(at', at)
    BY <2>1 DEF Made, First, Younger, Nowhere
  <2>2. ASSUME Begun, Known(1)' PROVE Younger(at', at)
    BY <2>2 DEF Begun, Known, Younger
  <2>3. ASSUME NEW i \in Last, Moved(i), Known(i + 1)' PROVE Younger(at', at)
    <3>1. i \in Nat
      BY Bounds
    <3> QED BY <2>3, <3>1 DEF Moved, Known, Younger
  <2> QED BY <1>1, <2>1, <2>2, <2>3, SyncMoves DEF Empty, First, Known
<1>2. ASSUME Quiet \/ MakeStage1 \/ ReadTimer \/ Clear \/ NextIteration
      PROVE  at' = at
  BY <1>2 DEF Quiet, MakeStage1, ReadTimer, Clear, NextIteration
<1> QED BY <1>1, <1>2, MostAreQuiet

(* And of the child's.                                                     *)
LEMMA LastStepsOn ==
  ASSUME DirsInv, ChildInv, [Next]_vars, last' # last
  PROVE  Younger(last', last) \/ last' = <<1, 1>>
<1>1. last' = view /\ view \in dirs
  BY ChildFrame DEF ChildLists, ChildReads
<1>2. view # Nowhere
  BY <1>1, DirsSeen
<1>3. ASSUME NEW i \in Iters, view = <<2, i>> PROVE Younger(last', last)
  <2>1. i = Now[2] /\ i \in Nat
    BY <1>1, <1>3, DirsSeen, Bounds
  <2>2. CASE last = <<1, 1>>
    BY <1>1, <1>3, <2>2 DEF Younger
  <2>3. ASSUME NEW j \in Iters, last = <<2, j>>, last[2] <= Now[2]
        PROVE  Younger(last', last)
    <3>1. j \in Nat /\ j <= i /\ j # i
      BY <1>1, <1>3, <2>1, <2>3, Bounds
    <3> QED BY <1>1, <1>3, <2>1, <2>3, <3>1 DEF Younger
  <2> QED BY <2>2, <2>3 DEF ChildInv
<1> QED BY <1>1, <1>2, <1>3 DEF ChildInv

(* Neither the driver nor the statistics go back to an older iteration.    *)
THEOREM NeverGoesBack == Spec => NeverBack
<1>1. IndInv /\ [Next]_vars
        => [/\ at' # at => Younger(at', at)
            /\ last' # last => Younger(last', last) \/ last' = <<1, 1>>]_vars
  BY AtStep, LastStepsOn DEF IndInv
<1> QED BY <1>1, Invariant, PTL DEF Spec, NeverBack
-----------------------------------------------------------------------------
(* Driver implements Lifecycle.                                            *)
PhaseKnown ==
  /\ pc \in Collecting => Phase = "dedup"
  /\ pc \in {"collected", "terminate", "merge"} => Phase = "deduped"
  /\ pc \in {"clear", "next"} => Phase = "complete"
  /\ pc \in Stopped => Phase = "end"
  /\ pc \in {"start", "forked", "named", "loop", "stage1", "afl", "timer",
             "resume"} => Phase = "fuzz"

(* The phase in each part of the program: what has been offered by then    *)
(* is OfferInv.                                                            *)
LEMMA PhaseIs == OfferInv => PhaseKnown
  BY DEF OfferInv, PhaseKnown, Phase, Collecting, Stopped

(* The same of the next state.                                             *)
LEMMA PhaseIsNext == OfferInv' => PhaseKnown'
  BY PhaseIs, PTL

(* An iteration that ends is one of stage 2.                               *)
LEMMA StageIs ==
  ASSUME DirsInv, pc \in Ending
  PROVE  Now[1] = 2
<1>1. \E i \in Last : Known(i)
  BY DEF DirsInv, Ending, Round, Between, Collecting, Stopped
<1>2. \A i \in Last : Known(i) => Now[1] = 2
  BY NowIs, Bounds DEF NowKnown
<1> QED BY <1>1, <1>2

(* A quiet step is one of Lifecycle's, or none.                            *)
LEMMA QuietLife ==
  ASSUME DirsInv, OfferInv, OfferInv', [Next]_vars, Quiet
  PROVE  [L!Next]_(L!vars)
<1> USE PhaseIs, PhaseIsNext DEF PhaseKnown
<1>1. Now' = Now
  BY NowStep
<1>2. CASE Phase' = Phase
  BY <1>1, <1>2 DEF L!vars
<1>3. CASE Phase # "end" /\ Phase' = "end"
  BY <1>1, <1>3 DEF L!Next, L!Stop
<1>4. CASE Phase = "dedup" /\ Phase' = "deduped"
  BY <1>1, <1>4 DEF L!Next, L!Deduped
<1>5. CASE Phase = "deduped" /\ Phase' = "fuzz"
  BY <1>1, <1>5 DEF L!Next, L!Continue
<1>6. CASE Phase = "deduped" /\ Phase' = "complete" /\ Now[1] = 2
  BY <1>1, <1>6 DEF L!Next, L!CompleteIteration
<1>7. CASE pc' = pc \/ pc' \in Stopped
  <2>1. pc' = pc => Phase' = Phase
    BY DEF OfferInv, Phase
  <2>2. pc' \in Stopped => Phase' = "end"
    OBVIOUS
  <2> QED BY <1>2, <1>3, <1>7, <2>1, <2>2
<1>8. CASE Move({"terminate", "merge"}, {"merge", "clear"})
  BY <1>2, <1>6, <1>8, StageIs DEF Move, Ending
<1>9. CASE Move(Collecting, Collecting \cup {"collected"})
  BY <1>2, <1>4, <1>9 DEF Move
<1>10. CASE pc = "collected" /\ pc' \in {"resume", "terminate"}
  BY <1>2, <1>5, <1>10
<1>11. CASE \/ Move({"start", "forked"}, {"forked", "named"})
            \/ Move({"named", "timer", "resume"}, {"loop"})
            \/ Move({"afl"}, {"timer"})
  BY <1>2, <1>11 DEF Move
<1> QED BY <1>7, <1>8, <1>9, <1>10, <1>11 DEF Quiet

(* Every step of the driver is a step of Lifecycle, or none.               *)
LEMMA LifeStep ==
  ASSUME DirsInv, OfferInv, OfferInv', [Next]_vars
  PROVE  [L!Next]_(L!vars)
<1> USE PhaseIs, PhaseIsNext DEF PhaseKnown
<1>1. CASE Sync
  <2>1. Now' = Now /\ Phase = "fuzz"
    BY <1>1, NowStep DEF Sync
  <2>2. CASE pc' = "stage1"
    BY <2>1, <2>2 DEF L!vars
  <2>3. CASE pc' = "collect" /\ Now[1] > 0
    BY <2>1, <2>3 DEF L!Next, L!Dedup, Collecting
  <2>4. pc' = "stage1" \/ (pc' = "collect" /\ Now[1] > 0)
    <3>1. Made \/ First => Now[1] > 0
      BY NowIs DEF NowKnown
    <3>2. Begun => Now[1] > 0
      BY NowIs DEF NowKnown
    <3>3. \A i \in Iters : Known(i) => Now[1] > 0
      BY NowIs DEF NowKnown
    <3>4. \A i \in Last : Moved(i) => Now[1] > 0
      BY NowIs DEF NowKnown
    <3> QED BY <1>1, <3>1, <3>2, <3>3, <3>4, SyncMoves
  <2> QED BY <2>2, <2>3, <2>4
<1>2. CASE MakeStage1
  <2>1. Now = Nowhere /\ Now' = <<1, 1>>
    BY <1>2, NowStep
  <2>2. Phase = "fuzz" /\ Phase' = "fuzz"
    BY <1>2 DEF MakeStage1
  <2> QED BY <2>1, <2>2 DEF L!Next, L!StartStage1, Nowhere
<1>3. CASE ReadTimer
  <2>1. Phase = "deduped"
    BY <1>3 DEF ReadTimer
  <2>2. CASE Now' = Now /\ pc' = "loop"
    BY <2>1, <2>2 DEF L!Next, L!Continue
  <2>3. CASE Now = <<1, 1>> /\ Now' = <<2, 1>> /\ pc' = "resume"
    BY <2>1, <2>3 DEF L!Next, L!StartStage2
  <2> QED BY <1>3, <2>2, <2>3, NowStep
<1>4. CASE Clear
  <2>1. Now' = Now /\ Phase = "complete"
    BY <1>4, NowStep DEF Clear
  <2>2. CASE pc' = "next"
    BY <2>1, <2>2 DEF L!vars
  <2>3. CASE pc' = "aborting"
    BY <2>1, <2>3 DEF L!Next, L!Stop, Stopped
  <2> QED BY <1>4, <2>2, <2>3 DEF Clear, Abort
<1>5. CASE NextIteration
  <2>1. PICK i \in Last : Now = <<2, i>> /\ Now' = <<2, i + 1>>
    BY <1>5, NowStep
  <2>2. Phase = "complete" /\ Phase' = "fuzz"
    BY <1>5 DEF NextIteration
  <2> QED BY <2>1, <2>2 DEF L!Next, L!NextIteration
<1> QED BY <1>1, <1>2, <1>3, <1>4, <1>5, QuietLife, MostAreQuiet

(* The driver takes the directory of results through its stages in the     *)
(* order that the head of core/pmfuzz.py gives.                            *)
THEOREM ImplementsLifecycle == Spec => LifecycleSpec
<1>1. Init => L!Init
  <2> SUFFICES ASSUME Init PROVE L!Init
    OBVIOUS
  <2>1. Empty /\ pc = "start"
    BY DEF Init, Empty
  <2>2. Now = <<0, 0>> /\ Phase = "fuzz"
    BY <2>1, InitInv, NowIs, PhaseIs
       DEF IndInv, NowKnown, PhaseKnown, Nowhere
  <2> QED BY <2>2 DEF L!Init
<1>2. IndInv /\ IndInv' /\ [Next]_vars => [L!Next]_(L!vars)
  BY LifeStep DEF IndInv
<1> QED BY <1>1, <1>2, Invariant, PTL DEF Spec, LifecycleSpec, L!Spec
-----------------------------------------------------------------------------
(* And Corpus.                                                             *)
LEMMA CorpusStep ==
  ASSUME IndInv, [Next]_vars
  PROVE  [TheCorpus!Update]_(TheCorpus!vars)
<1>1. StoreTypes /\ TestcasesInv /\ GlobalInv
  BY StoreParts DEF IndInv, TypeOK
<1>2. CASE UNCHANGED <<gbl, del>>
  BY <1>2 DEF TheCorpus!vars, Has
<1>3. ASSUME NEW new \in SUBSET (Entries \ Images),
             NEW gone \in SUBSET (Has(gbl) \cup new),
             Has(gbl)' = (Has(gbl) \cup new) \ gone,
             Images' = Images \cup new, del' = del \cup gone
      PROVE  TheCorpus!Update
  BY <1>3 DEF TheCorpus!Update, Images
<1> HIDE DEF IndInv
<1>4. CASE Collect
  <2>1. \/ UNCHANGED <<gbl, del>>
        \/ /\ NewInGlobal \subseteq Entries \ Images
           /\ Has(gbl)' = Has(gbl) \cup NewInGlobal
           /\ Images' = Images \cup NewInGlobal
           /\ del' = del
    BY <1>1, <1>4, Collected DEF Collect
  <2>2. CASE /\ NewInGlobal \subseteq Entries \ Images
             /\ Has(gbl)' = Has(gbl) \cup NewInGlobal
             /\ Images' = Images \cup NewInGlobal
             /\ del' = del
    <3>1. /\ {} \subseteq Has(gbl) \cup NewInGlobal
          /\ Has(gbl)' = (Has(gbl) \cup NewInGlobal) \ {}
          /\ del' = del \cup {}
      BY <2>2
    <3> QED BY <1>3, <2>2, <3>1
  <2> QED BY <1>2, <2>1, <2>2
<1>5. CASE ~Collect
  <2>1. ASSUME NEW S \in SUBSET Has(gbl), Minimized(S) PROVE TheCorpus!Update
    <3>1. Has(gbl)' = Has(gbl) \ S /\ Images' = Images /\ del' = del \cup S
      BY <1>1, <2>1, Taken
    <3>2. /\ {} \subseteq Entries \ Images /\ S \subseteq Has(gbl) \cup {}
          /\ Has(gbl)' = (Has(gbl) \cup {}) \ S
          /\ Images' = Images \cup {}
      BY <3>1
    <3> QED BY <1>3, <3>1, <3>2
  <2> QED BY <1>2, <1>5, <2>1, Elsewhere
<1> QED BY <1>4, <1>5

(* What the collection of stage 1 and the minimizers of stage 2 do to      *)
(* @dedup keeps to the promise of Corpus.                                  *)
THEOREM ImplementsCorpus == Spec => CorpusSpec
<1>1. Init => TheCorpus!Init
  BY DEF Init, InitStage1, TheCorpus!Init, Has, NoFiles
<1>2. IndInv /\ [Next]_vars => [TheCorpus!Update]_(TheCorpus!vars)
  BY CorpusStep
<1> QED BY <1>1, <1>2, Invariant, PTL DEF Spec, CorpusSpec, TheCorpus!Spec

(* So what follows from Corpus holds of @dedup: though stage 1 keeps every *)
(* testcase it has found and offers it again in each round, what has been  *)
(* minimized away stays away, and an entry has an image as long as it has  *)
(* a testcase or a placeholder.                                            *)
THEOREM PlaceholdersHold ==
  Spec => []TheCorpus!Promise /\ TheCorpus!GoneForGood
  BY ImplementsCorpus, TheCorpus!PromiseKept, TheCorpus!GoesForGood, PTL
     DEF CorpusSpec
=============================================================================
