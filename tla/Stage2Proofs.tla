--------------------------- MODULE Stage2Proofs ---------------------------
(***************************************************************************)
(* IndInv is an inductive invariant of Stage2, for every family of names,  *)
(* every choice of --cores-stage2 and with or without failure injection.   *)
(* Type correctness, the pid-file invariant, both bounds on what runs, the *)
(* iteration in which a result reaches @dedup and the action properties    *)
(* NoTestcaseLeaked and NoLostResult follow.                               *)
(***************************************************************************)
EXTENDS Stage2, FiniteSetTheorems, TLAPS

USE DEF procVars, resultVars

(* Sets of jobs are finite, and a smaller set has a smaller cardinality.   *)
LEMMA JobsFinite ==
  ASSUME NEW S \in SUBSET Jobs
  PROVE  IsFiniteSet(S) /\ Cardinality(S) \in Nat
<1>1. IsFiniteSet(Jobs)
  BY JobsAssumption, FS_Union DEF Jobs
<1>2. IsFiniteSet(S)
  BY <1>1, FS_Subset
<1> QED BY <1>2, FS_CardinalityType

(* A part of a finite set is no larger than the whole.                     *)
LEMMA SubsetCard ==
  ASSUME NEW S \in SUBSET Jobs, NEW R \in SUBSET S
  PROVE  /\ Cardinality(R) \in Nat /\ Cardinality(S) \in Nat
         /\ Cardinality(R) <= Cardinality(S)
<1>1. IsFiniteSet(S)
  BY JobsFinite
<1>2. R \in SUBSET Jobs
  OBVIOUS
<1>3. Cardinality(R) <= Cardinality(S)
  BY <1>1, FS_Subset
<1> QED BY <1>2, <1>3, JobsFinite

(* A union is no larger than its parts together.                           *)
LEMMA UnionCard ==
  ASSUME NEW A \in SUBSET Jobs, NEW B \in SUBSET Jobs,
         NEW S \in SUBSET (A \cup B)
  PROVE  Cardinality(S) <= Cardinality(A) + Cardinality(B)
<1>1. /\ IsFiniteSet(A) /\ Cardinality(A) \in Nat
      /\ IsFiniteSet(B) /\ Cardinality(B) \in Nat
  BY JobsFinite
<1>2. Cardinality(A \cap B) \in Nat
  <2>1. A \cap B \in SUBSET Jobs
    OBVIOUS
  <2> QED BY <2>1, JobsFinite
<1>3. Cardinality(A \cup B) = Cardinality(A) + Cardinality(B)
                                - Cardinality(A \cap B)
  BY <1>1, FS_Union
<1>4. A \cup B \in SUBSET Jobs
  OBVIOUS
<1>5. /\ Cardinality(S) <= Cardinality(A \cup B)
      /\ Cardinality(S) \in Nat
  BY <1>4, SubsetCard
<1> QED BY <1>1, <1>2, <1>3, <1>5

(* A part of a set with one job added has at most one job more.            *)
LEMMA AddCard ==
  ASSUME NEW A \in SUBSET Jobs, NEW x,
         NEW S \in SUBSET (A \cup {x}), S \in SUBSET Jobs
  PROVE  Cardinality(S) <= Cardinality(A) + 1
<1>1. IsFiniteSet(A) /\ Cardinality(A) \in Nat
  BY JobsFinite
<1>2. /\ IsFiniteSet(A \cup {x})
      /\ Cardinality(A \cup {x}) \in {Cardinality(A), Cardinality(A) + 1}
  BY <1>1, FS_AddElement
<1>3. Cardinality(S) <= Cardinality(A \cup {x})
  BY <1>2, FS_Subset
<1>4. Cardinality(S) \in Nat
  BY JobsFinite
<1> QED BY <1>1, <1>2, <1>3, <1>4

(* Both halves of the cores are numbers.                                   *)
LEMMA SlotsNat == CoresTC \in Nat /\ CoresCS \in Nat
<1>1. Cores \in Nat /\ Cores \div 2 \in Nat
  BY ConfigAssumption
<1> QED BY <1>1, ConfigAssumption DEF CoresTC, CoresCS, Half
-----------------------------------------------------------------------------
(* The initial states.                                                     *)

(* Stage 2 before its first scan.                                          *)
LEMMA InitInv == Init => IndInv
<1> SUFFICES ASSUME Init PROVE IndInv
  OBVIOUS
<1> USE DEF Init
<1>1. TypeOK
  <2>1. gbl \subseteq Jobs
    BY DEF Stage1Stores, Children, CrashesOf, Jobs
  <2>2. iter \in 1..(MaxIter + 1) /\ iter <= MaxIter
    BY ConfigAssumption
  <2>3. born \in [Jobs -> 0..MaxIter]
    BY ConfigAssumption
  <2> QED BY <2>1, <2>2, <2>3 DEF TypeOK
<1>2. PhaseInv /\ RunningHasPid /\ KillInv /\ FoundInv
  BY DEF PhaseInv, RunningHasPid, KillInv, FoundInv
<1>3. ASSUME NEW K \in SUBSET Jobs, NEW n \in Nat, NEW ph \in {"tc", "cs"}
      PROVE  SlotInv(K, n, ph)
  <2>1. Running(K) = {} /\ afl \cap K = {}
    BY DEF Running
  <2>2. Cardinality({}) = 0
    BY FS_EmptySet
  <2> QED BY <2>1, <2>2 DEF SlotInv
<1>4. SlotInv(Testcases, CoresTC, "tc") /\ SlotInv(CrashSites, CoresCS, "cs")
  BY <1>3, SlotsNat DEF Jobs
<1>5. InputInv /\ InTime
  <2>1. \A t \in gbl \cap Testcases : Parent[t] = Stage1
    BY JobsAssumption DEF Stage1Stores, Children, CrashesOf
  <2>2. Stage1 \notin Testcases
    BY JobsAssumption DEF Jobs
  <2> QED BY <2>1, <2>2 DEF InputInv, InTime
<1>6. LeakBounded
  BY SlotsNat DEF LeakBounded
<1> QED BY <1>1, <1>2, <1>4, <1>5, <1>6 DEF IndInv
-----------------------------------------------------------------------------
(* Every step preserves the types.                                         *)

(* Every step keeps the types.                                             *)
LEMMA TypeStep == TypeOK /\ [Next]_vars => TypeOK'
<1> SUFFICES ASSUME TypeOK, [Next]_vars PROVE TypeOK'
  OBVIOUS
<1> USE DEF TypeOK
<1>a. IterationInputs \subseteq gbl /\ IterationInputs \subseteq Jobs
  BY DEF IterationInputs, Jobs
<1>1. CASE CollectStage1
  <2>1. gbl' \subseteq Jobs /\ gbl \subseteq gbl'
    BY <1>1 DEF CollectStage1, Stage1Stores, Children, CrashesOf, Jobs
  <2> QED BY <1>1, <2>1 DEF CollectStage1
<1>2. CASE CheckCompleted
  BY <1>2 DEF CheckCompleted
<1>3. CASE Resume
  <2>1. Cardinality(Running((lds \cup IterationInputs) \cap Testcases
                               \cap Selected)) \in Nat
    BY JobsFinite DEF Running, Jobs
  <2> QED BY <1>a, <1>3, <2>1 DEF Resume
<1>4. CASE ResumeAborts
  BY <1>a, <1>4 DEF ResumeAborts
<1>5. CASE EndTestcases
  <2>1. Cardinality(Running(lds \cap CrashSites \cap Selected)) \in Nat
    BY JobsFinite DEF Running, Jobs
  <2> QED BY <1>5, <2>1 DEF EndTestcases
<1>6. CASE EndTestcasesAborts
  BY <1>6 DEF EndTestcasesAborts, Abort
<1>7. CASE EndCrashSites
  BY <1>7 DEF EndCrashSites
<1>8. CASE EndIteration
  <2>1. iter' = iter + 1 /\ pc' = IF iter = MaxIter THEN "bound" ELSE "resume"
    BY <1>8 DEF EndIteration
  <2>2. pc # "bound"
    BY <1>8 DEF EndIteration
  <2>3. iter' \in 1..(MaxIter + 1) /\ (pc' # "bound" => iter' <= MaxIter)
    BY <2>1, <2>2, ConfigAssumption
  <2>4. leaked' \in Nat
    <3>1. Cardinality(afl) \in Nat
      BY JobsFinite
    <3> QED BY <1>8, <3>1 DEF EndIteration
  <2>5. timer' \in [Jobs -> {"new", "running", "expired"}]
    BY <1>8 DEF EndIteration, ClearedTimers
  <2>6. pc' \in {"resume", "bound"}
    BY <2>1
  <2> QED BY <1>8, <2>3, <2>4, <2>5, <2>6 DEF EndIteration
<1>9. CASE EndIterationAborts
  BY <1>9 DEF EndIterationAborts, Abort
<1>10. CASE CollectIteration
  <2>1. gbl' \subseteq Jobs /\ gbl \subseteq gbl' /\ results' \subseteq Jobs
    BY <1>10 DEF CollectIteration, CollectOrphans, Jobs
  <2>2. iter \in 0..MaxIter
    BY <1>10, ConfigAssumption DEF CollectIteration
  <2>3. born' \in [Jobs -> 0..MaxIter]
    BY <1>10, <2>2 DEF CollectIteration
  <2> QED BY <1>10, <2>1, <2>3 DEF CollectIteration
<1>11. ASSUME NEW j \in Jobs, Start(j) PROVE TypeOK'
  BY <1>11 DEF Start, CountAfterStart
<1>12. ASSUME NEW j \in Jobs, StartAborts(j) PROVE TypeOK'
  BY <1>12 DEF StartAborts
<1>13. ASSUME NEW j \in Jobs, Skip(j) PROVE TypeOK'
  BY <1>13 DEF Skip
<1>14. ASSUME NEW j \in Jobs, Terminate(j) PROVE TypeOK'
  BY <1>14 DEF Terminate, Due, Told, CountAfterTermination, Children,
              CrashesOf, Jobs
<1>15. ASSUME NEW j \in Jobs, TerminateAborts(j) PROVE TypeOK'
  BY <1>15 DEF TerminateAborts, Due, Told
<1>16. ASSUME NEW j \in Jobs, Expire(j) PROVE TypeOK'
  BY <1>16 DEF Expire
<1>17. ASSUME NEW j \in Jobs, AflSaves(j) PROVE TypeOK'
  BY <1>17 DEF AflSaves, Children
<1>18. ASSUME NEW j \in Jobs, AflDies(j) PROVE TypeOK'
  BY <1>18 DEF AflDies
<1>19. CASE UNCHANGED vars
  BY <1>19 DEF vars
<1>20. CASE CollectionFails
  BY <1>20 DEF CollectionFails, Abort
<1>21. CASE ClearAborts
  BY <1>21 DEF ClearAborts, Abort
<1>22. ASSUME NEW j \in Jobs, AflEnds(j) PROVE TypeOK'
  BY <1>22 DEF AflEnds
<1> QED
  BY <1>1, <1>2, <1>3, <1>4, <1>5, <1>6, <1>7, <1>8, <1>9, <1>10, <1>11,
     <1>12, <1>13, <1>14, <1>15, <1>16, <1>17, <1>18, <1>19, <1>20, <1>21,
     <1>22
  DEF Next, Driver, Environment, Visit
-----------------------------------------------------------------------------
(* Every step preserves the parts of the invariant that count nothing.     *)

(* Every step keeps what is true of the driver's place in its loop.        *)
LEMMA PhaseStep ==
  TypeOK /\ PhaseInv /\ RunningHasPid /\ KillInv /\ [Next]_vars
    => PhaseInv' /\ RunningHasPid' /\ KillInv'
<1> SUFFICES ASSUME TypeOK, PhaseInv, RunningHasPid, KillInv, [Next]_vars
             PROVE  PhaseInv' /\ RunningHasPid' /\ KillInv'
  OBVIOUS
<1> DEFINE Goal == PhaseInv' /\ RunningHasPid' /\ KillInv'
<1> USE DEF TypeOK, PhaseInv, RunningHasPid, KillInv, Completed
<1>1. CASE CollectStage1
  BY <1>1 DEF CollectStage1
<1>2. CASE CheckCompleted
  BY <1>2 DEF CheckCompleted
<1>3. CASE Resume
  BY <1>3 DEF Resume
<1>4. CASE ResumeAborts
  BY <1>4 DEF ResumeAborts
<1>5. CASE EndTestcases
  BY <1>5 DEF EndTestcases
<1>6. CASE EndTestcasesAborts
  BY <1>6 DEF EndTestcasesAborts, Abort
<1>7. CASE EndCrashSites
  BY <1>7 DEF EndCrashSites
<1>8. CASE EndIteration
  <2>1. /\ pidf' = {} /\ pc' \in {"resume", "bound"}
        /\ \A j \in Jobs : timer'[j] = "new"
    BY <1>8 DEF EndIteration, ClearedTimers
  <2> QED BY <2>1
<1>9. CASE EndIterationAborts
  BY <1>9 DEF EndIterationAborts, Abort
<1>10. CASE CollectIteration
  BY <1>10 DEF CollectIteration
<1>11. ASSUME NEW j \in Jobs, Start(j) PROVE Goal
  BY <1>11 DEF Start
<1>12. ASSUME NEW j \in Jobs, StartAborts(j) PROVE Goal
  <2>1. pidf \subseteq Jobs /\ j \in Jobs
    BY JobsAssumption
  <2> QED BY <1>12, <2>1 DEF StartAborts
<1>13. ASSUME NEW j \in Jobs, Skip(j) PROVE Goal
  BY <1>13 DEF Skip, Jobs
<1>14. ASSUME NEW j \in Jobs, Terminate(j) PROVE Goal
  BY <1>14 DEF Terminate, Due, Told
<1>15. ASSUME NEW j \in Jobs, TerminateAborts(j) PROVE Goal
  BY <1>15 DEF TerminateAborts, Due, Told
<1>16. ASSUME NEW j \in Jobs, Expire(j) PROVE Goal
  BY <1>16 DEF Expire, Jobs
<1>17. ASSUME NEW j \in Jobs, AflSaves(j) PROVE Goal
  BY <1>17 DEF AflSaves
<1>18. ASSUME NEW j \in Jobs, AflDies(j) PROVE Goal
  BY <1>18 DEF AflDies
<1>19. CASE UNCHANGED vars
  BY <1>19 DEF vars
<1>20. CASE CollectionFails
  BY <1>20 DEF CollectionFails, Abort
<1>21. CASE ClearAborts
  BY <1>21 DEF ClearAborts, Abort
<1>22. ASSUME NEW j \in Jobs, AflEnds(j) PROVE Goal
  BY <1>22 DEF AflEnds
<1> QED
  BY <1>1, <1>2, <1>3, <1>4, <1>5, <1>6, <1>7, <1>8, <1>9, <1>10, <1>11,
     <1>12, <1>13, <1>14, <1>15, <1>16, <1>17, <1>18, <1>19, <1>20, <1>21,
     <1>22
  DEF Next, Driver, Environment, Visit
-----------------------------------------------------------------------------
(* What is found is kept.                                                  *)

(* Every step keeps what is known of the results when the directory is     *)
(* about to go: what AFL saves then is late.                               *)
LEMMA FoundStep ==
  ASSUME TypeOK, FoundInv, [Next]_vars
  PROVE  FoundInv'
<1> USE DEF FoundInv
<1>1. CASE CollectIteration
  BY <1>1 DEF CollectIteration, CollectOrphans
<1>2. CASE EndIteration
  BY <1>2 DEF EndIteration
<1>3. ASSUME NEW j \in Jobs, AflSaves(j) PROVE FoundInv'
  BY <1>3 DEF AflSaves
<1>4. CASE /\ UNCHANGED <<found, late>> /\ gbl \subseteq gbl'
           /\ pc' = "clear" => pc = "clear"
           /\ pc = "clear" => pc' \in {"clear", "aborted"}
           /\ pc = "aborted" => pc' = "aborted"
  BY <1>4
<1> QED
  BY <1>1, <1>2, <1>3, <1>4 DEF Next, Driver, Environment, Visit, vars,
     CollectStage1, CheckCompleted, Resume, ResumeAborts, EndTestcases,
     EndTestcasesAborts, EndCrashSites, EndIterationAborts, CollectionFails,
     ClearAborts, Abort, Start, StartAborts, Skip, Terminate,
     TerminateAborts, Due, Expire, AflDies, AflEnds
-----------------------------------------------------------------------------
(* What is found from testcases comes in time.                             *)

(* A step that is silent on the stores and the results keeps both parts.   *)
LEMMA InputFrame ==
  ASSUME InputInv, InTime, UNCHANGED <<iter, gbl, lds, found, results, born>>
  PROVE  InputInv' /\ InTime'
  BY DEF InputInv, InTime

(* Resume adds jobs of this iteration only.                                *)
LEMMA InputResume ==
  ASSUME InputInv, InTime, lds' = lds \cup IterationInputs,
         UNCHANGED <<iter, gbl, found, results, born>>
  PROVE  InputInv' /\ InTime'
<1>1. \A t \in IterationInputs \cap Testcases : IterCnt[t] = iter
  BY JobsAssumption DEF IterationInputs
<1> QED BY <1>1 DEF InputInv, InTime

(* What AFL saves while j has a pid file, and the crash sites made of it,  *)
(* are from j.                                                             *)
LEMMA InputSaves ==
  ASSUME TypeOK, InputInv, InTime, NEW j \in lds,
         found' \subseteq found \cup Children(j),
         results' \subseteq results \cup found \cup Children(j)
                               \cup CrashesOf(j),
         UNCHANGED <<iter, gbl, lds, born>>
  PROVE  InputInv' /\ InTime'
<1>1. InTime'
  BY DEF InTime
<1>2. CrashesOf(j) \cap Testcases = {}
  BY JobsAssumption DEF CrashesOf
<1>3. \A t \in Children(j) : Parent[t] \in lds
  BY DEF Children
<1> QED BY <1>1, <1>2, <1>3 DEF InputInv

(* The global deduplication dates what it adds by the iteration that found *)
(* it, one less than its number.                                           *)
LEMMA InputCollect ==
  ASSUME TypeOK, InputInv, InTime, CollectIteration
  PROVE  InputInv' /\ InTime'
<1>1. /\ results' = results \cup found /\ gbl' = gbl \cup results'
      /\ UNCHANGED <<iter, lds, found>>
      /\ \A j \in Jobs : born'[j] = IF j \in gbl' \ gbl THEN iter ELSE born[j]
  BY DEF CollectIteration, CollectOrphans
<1>2. InputInv'
  BY <1>1 DEF InputInv
<1>3. ASSUME NEW t \in gbl' \cap Testcases, Parent[t] \in Testcases
      PROVE  IterCnt[t] = born'[t] + 1
  <2>1. t \in Jobs /\ Parent[t] # Stage1
    BY <1>3, JobsAssumption DEF Jobs
  <2>2. IterCnt[t] = IterCnt[Parent[t]] + 1
    BY <2>1, NamesAssumption
  <2>3. CASE t \in gbl
    BY <1>1, <1>3, <2>1, <2>3 DEF InTime
  <2>4. CASE t \notin gbl
    <3>1. t \in (found \cup results) \cap Testcases
      BY <1>1, <2>4
    <3>2. IterCnt[Parent[t]] = iter
      BY <1>3, <3>1 DEF InputInv
    <3> QED BY <1>1, <2>1, <2>2, <2>4, <3>2
  <2> QED BY <2>3, <2>4
<1> QED BY <1>2, <1>3 DEF InTime

(* Every step keeps both parts.                                            *)
LEMMA InputStep ==
  ASSUME TypeOK, InputInv, InTime, [Next]_vars
  PROVE  InputInv' /\ InTime'
<1> DEFINE Goal == InputInv' /\ InTime'
<1>1. CASE CollectStage1
  <2>1. PICK new \in Stage1Stores : gbl' = gbl \cup new
    BY <1>1 DEF CollectStage1
  <2>2. \A t \in new \cap Testcases : Parent[t] = Stage1
    BY <2>1, JobsAssumption DEF Stage1Stores, Children, CrashesOf
  <2>3. Stage1 \notin Testcases
    BY JobsAssumption DEF Jobs
  <2>4. UNCHANGED <<iter, lds, found, results, born>>
    BY <1>1 DEF CollectStage1
  <2> QED BY <2>1, <2>2, <2>3, <2>4 DEF InputInv, InTime
<1>2. CASE CheckCompleted
  BY <1>2, InputFrame DEF CheckCompleted
<1>3. CASE Resume
  BY <1>3, InputResume DEF Resume
<1>4. CASE ResumeAborts
  BY <1>4, InputResume DEF ResumeAborts
<1>5. CASE EndTestcases
  BY <1>5, InputFrame DEF EndTestcases
<1>6. CASE EndTestcasesAborts
  BY <1>6, InputFrame DEF EndTestcasesAborts, Abort
<1>7. CASE EndCrashSites
  BY <1>7, InputFrame DEF EndCrashSites
<1>8. CASE EndIteration
  BY <1>8 DEF EndIteration, InputInv, InTime
<1>9. CASE EndIterationAborts
  BY <1>9, InputFrame DEF EndIterationAborts, Abort
<1>10. CASE CollectIteration
  BY <1>10, InputCollect
<1>11. ASSUME NEW j \in Jobs, Start(j) PROVE Goal
  BY <1>11, InputFrame DEF Start
<1>12. ASSUME NEW j \in Jobs, StartAborts(j) PROVE Goal
  BY <1>12, InputFrame DEF StartAborts
<1>13. ASSUME NEW j \in Jobs, Skip(j) PROVE Goal
  BY <1>13, InputFrame DEF Skip
<1>14. ASSUME NEW j \in Jobs, Terminate(j) PROVE Goal
  <2>1. /\ j \in lds /\ UNCHANGED <<iter, gbl, lds, born>>
        /\ found' \subseteq found \cup Children(j)
        /\ results' \subseteq results \cup found \cup Children(j)
                                \cup CrashesOf(j)
    BY <1>14 DEF Terminate, Due, TypeOK
  <2> QED BY <2>1, InputSaves
<1>15. ASSUME NEW j \in Jobs, TerminateAborts(j) PROVE Goal
  BY <1>15, InputFrame DEF TerminateAborts
<1>16. ASSUME NEW j \in Jobs, Expire(j) PROVE Goal
  BY <1>16, InputFrame DEF Expire
<1>17. ASSUME NEW j \in Jobs, AflSaves(j) PROVE Goal
  <2>1. /\ j \in lds /\ UNCHANGED <<iter, gbl, lds, born>>
        /\ found' \subseteq found \cup Children(j) /\ results' = results
    BY <1>17 DEF AflSaves, TypeOK
  <2> QED BY <2>1, InputSaves
<1>18. ASSUME NEW j \in Jobs, AflDies(j) PROVE Goal
  BY <1>18, InputFrame DEF AflDies
<1>19. CASE UNCHANGED vars
  BY <1>19, InputFrame DEF vars
<1>20. CASE CollectionFails
  BY <1>20, InputFrame DEF CollectionFails, Abort
<1>21. CASE ClearAborts
  BY <1>21, InputFrame DEF ClearAborts, Abort
<1>22. ASSUME NEW j \in Jobs, AflEnds(j) PROVE Goal
  BY <1>22, InputFrame DEF AflEnds
<1> QED
  BY <1>1, <1>2, <1>3, <1>4, <1>5, <1>6, <1>7, <1>8, <1>9, <1>10, <1>11,
     <1>12, <1>13, <1>14, <1>15, <1>16, <1>17, <1>18, <1>19, <1>20, <1>21,
     <1>22
  DEF Next, Driver, Environment, Visit
-----------------------------------------------------------------------------
(* The slots of one kind of job: the set K of its names, the number n of   *)
(* its slots and the phase ph of the scan that visits it.                  *)

Kind(K, n, ph) ==
  \/ K = Testcases  /\ n = CoresTC /\ ph = "tc"
  \/ K = CrashSites /\ n = CoresCS /\ ph = "cs"

(* A step after which no set of the invariant has a new element and in     *)
(* which the scan goes on, or the driver aborts.                           *)
LEMMA Shrinks ==
  ASSUME NEW K \in SUBSET Jobs, NEW n \in Nat, NEW ph,
         SlotInv(K, n, ph),
         Running(K)' \subseteq Running(K),
         afl' \cap K \subseteq afl \cap K,
         \/ pc' = "aborted"
         \/ /\ pc' = pc /\ rc' = rc
            /\ Accounted(K)' \subseteq Accounted(K)
            /\ afl' \cap K \cap todo' \subseteq afl \cap K \cap todo,
         pc # "aborted" \/ pc' = "aborted", rc \in Nat, ph # "aborted"
  PROVE  SlotInv(K, n, ph)'
<1>1. /\ Cardinality(Running(K)) \in Nat
      /\ Cardinality(Running(K)') \in Nat
      /\ Cardinality(Running(K)') <= Cardinality(Running(K))
  <2>1. Running(K) \in SUBSET Jobs /\ Running(K)' \in SUBSET Running(K)
    BY DEF Running
  <2> QED BY <2>1, SubsetCard
<1>2. /\ Cardinality(afl \cap K) \in Nat /\ Cardinality(afl' \cap K) \in Nat
      /\ Cardinality(afl' \cap K) <= Cardinality(afl \cap K)
  <2>1. afl \cap K \in SUBSET Jobs /\ afl' \cap K \in SUBSET (afl \cap K)
    OBVIOUS
  <2> QED BY <2>1, SubsetCard
<1>3. CASE pc' = "aborted"
  BY <1>1, <1>2, <1>3 DEF SlotInv
<1>4. CASE /\ pc' = pc /\ rc' = rc
           /\ Accounted(K)' \subseteq Accounted(K)
           /\ afl' \cap K \cap todo' \subseteq afl \cap K \cap todo
  <2>1. /\ Cardinality(Accounted(K)) \in Nat
        /\ Cardinality(Accounted(K)') \in Nat
        /\ Cardinality(Accounted(K)') <= Cardinality(Accounted(K))
    <3>1. Accounted(K) \in SUBSET Jobs
          /\ Accounted(K)' \in SUBSET Accounted(K)
      BY <1>4 DEF Accounted
    <3> QED BY <3>1, SubsetCard
  <2>2. /\ Cardinality(afl \cap K \cap todo) \in Nat
        /\ Cardinality(afl' \cap K \cap todo') \in Nat
        /\ Cardinality(afl' \cap K \cap todo')
              <= Cardinality(afl \cap K \cap todo)
    <3>1. /\ afl \cap K \cap todo \in SUBSET Jobs
          /\ afl' \cap K \cap todo' \in SUBSET (afl \cap K \cap todo)
      BY <1>4
    <3> QED BY <3>1, SubsetCard
  <2> QED BY <1>1, <1>2, <1>4, <2>1, <2>2 DEF SlotInv
<1> QED BY <1>3, <1>4

(* A step outside the scan of K that starts nothing of K.                  *)
LEMMA Idle ==
  ASSUME NEW K \in SUBSET Jobs, NEW n \in Nat, NEW ph,
         SlotInv(K, n, ph),
         Running(K)' \subseteq Running(K),
         afl' \cap K \subseteq afl \cap K,
         pc \notin {ph, "aborted"}, pc' # ph
  PROVE  SlotInv(K, n, ph)'
<1>1. /\ Cardinality(Running(K)) \in Nat
      /\ Cardinality(Running(K)') \in Nat
      /\ Cardinality(Running(K)') <= Cardinality(Running(K))
  <2>1. Running(K) \in SUBSET Jobs /\ Running(K)' \in SUBSET Running(K)
    BY DEF Running
  <2> QED BY <2>1, SubsetCard
<1>2. /\ Cardinality(afl \cap K) \in Nat /\ Cardinality(afl' \cap K) \in Nat
      /\ Cardinality(afl' \cap K) <= Cardinality(afl \cap K)
  <2>1. afl \cap K \in SUBSET Jobs /\ afl' \cap K \in SUBSET (afl \cap K)
    OBVIOUS
  <2> QED BY <2>1, SubsetCard
<1> QED BY <1>1, <1>2 DEF SlotInv

(* The scan of K begins: rc counts what runs, all of it on the list.       *)
LEMMA ScanBegins ==
  ASSUME NEW K \in SUBSET Jobs, NEW n \in Nat, NEW ph,
         TypeOK, PhaseInv, RunningHasPid, SlotInv(K, n, ph),
         pc \notin {ph, "aborted"},
         UNCHANGED <<timer, afl>>,
         lds \cap K \cap Selected \subseteq todo',
         todo' \subseteq K \cap Selected,
         rc' = Cardinality(Running(todo')), pc' = ph
  PROVE  SlotInv(K, n, ph)'
<1>1. Running(K)' = Running(K) /\ afl' \cap K = afl \cap K
  BY DEF Running
<1>2. /\ Running(todo') \in SUBSET Running(K)
      /\ Running(K) \in SUBSET Running(todo')
      /\ Running(todo') \in SUBSET Jobs
  BY DEF Running, RunningHasPid, PhaseInv, TypeOK
<1>3. Cardinality(Running(K)) = rc' /\ rc' \in Nat
  <2>1. Running(K) = Running(todo')
    BY <1>2
  <2> QED BY <1>2, <2>1, JobsFinite
<1>4. Cardinality(Accounted(K)') <= rc' /\ Cardinality(Accounted(K)') \in Nat
  <2>1. Accounted(K)' \in SUBSET Running(K)
    BY DEF Accounted, Running, PhaseInv, TypeOK
  <2>2. Running(K) \in SUBSET Jobs
    BY DEF Running
  <2> QED BY <1>3, <2>1, <2>2, SubsetCard
<1>5. /\ Cardinality(afl' \cap K \cap todo') <= Cardinality(afl \cap K)
      /\ Cardinality(afl' \cap K \cap todo') \in Nat
      /\ Cardinality(afl \cap K) \in Nat
  <2>1. /\ afl \cap K \in SUBSET Jobs
        /\ afl' \cap K \cap todo' \in SUBSET (afl \cap K)
    OBVIOUS
  <2> QED BY <2>1, SubsetCard
<1> QED BY <1>1, <1>3, <1>4, <1>5 DEF SlotInv

(* The scan of K ends: all the AFL processes of K are accounted for.       *)
LEMMA ScanEnds ==
  ASSUME NEW K \in SUBSET Jobs, NEW n \in Nat, NEW ph,
         TypeOK, SlotInv(K, n, ph), ph # "aborted",
         pc = ph, todo = {}, UNCHANGED <<timer, afl>>, pc' # ph
  PROVE  SlotInv(K, n, ph)'
<1>1. Running(K)' = Running(K) /\ afl' \cap K = afl \cap K
  BY DEF Running
<1>2. Accounted(K) = afl \cap K
  BY DEF Accounted
<1>3. Cardinality(afl \cap K) \in Nat
  BY JobsFinite
<1>4. Cardinality(afl \cap K) <= n
  BY <1>2, <1>3 DEF SlotInv, TypeOK
<1> QED BY <1>1, <1>3, <1>4 DEF SlotInv

(* The scan of K starts a job in a free slot.                              *)
LEMMA ScanStarts ==
  ASSUME NEW K \in SUBSET Jobs, NEW n \in Nat, NEW ph, NEW j \in K,
         TypeOK, SlotInv(K, n, ph), pc = ph, rc < n, pc' = pc,
         timer' = [timer EXCEPT ![j] = "running"],
         afl' = afl \cup {j}, rc' = rc + 1, todo' = todo \ {j},
         ph # "aborted"
  PROVE  SlotInv(K, n, ph)'
<1>1. /\ Cardinality(Running(K)') <= Cardinality(Running(K)) + 1
      /\ Cardinality(Running(K)) \in Nat /\ Cardinality(Running(K)') \in Nat
  <2>1. /\ Running(K) \in SUBSET Jobs /\ Running(K)' \in SUBSET Jobs
        /\ Running(K)' \in SUBSET (Running(K) \cup {j})
    BY DEF Running, TypeOK
  <2> QED BY <2>1, AddCard, JobsFinite
<1>2. /\ Cardinality(Accounted(K)') <= Cardinality(Accounted(K)) + 1
      /\ Cardinality(Accounted(K)) \in Nat
      /\ Cardinality(Accounted(K)') \in Nat
  <2>1. /\ Accounted(K) \in SUBSET Jobs /\ Accounted(K)' \in SUBSET Jobs
        /\ Accounted(K)' \in SUBSET (Accounted(K) \cup {j})
    BY DEF Accounted, TypeOK
  <2> QED BY <2>1, AddCard, JobsFinite
<1>3. /\ Cardinality(afl' \cap K \cap todo')
            <= Cardinality(afl \cap K \cap todo)
      /\ Cardinality(afl' \cap K \cap todo') \in Nat
      /\ Cardinality(afl \cap K \cap todo) \in Nat
  <2>1. /\ afl \cap K \cap todo \in SUBSET Jobs
        /\ afl' \cap K \cap todo' \in SUBSET (afl \cap K \cap todo)
    OBVIOUS
  <2> QED BY <2>1, SubsetCard
<1>4. /\ Cardinality(afl' \cap K) <= Cardinality(Accounted(K)')
                                      + Cardinality(afl' \cap K \cap todo')
      /\ Cardinality(afl' \cap K) \in Nat
  <2>1. /\ Accounted(K)' \in SUBSET Jobs
        /\ afl' \cap K \cap todo' \in SUBSET Jobs
        /\ afl' \cap K \in SUBSET (Accounted(K)' \cup (afl' \cap K \cap todo'))
        /\ afl' \cap K \in SUBSET Jobs
    BY DEF Accounted
  <2> QED BY <2>1, UnionCard, JobsFinite
<1> QED BY <1>1, <1>2, <1>3, <1>4 DEF SlotInv, TypeOK
-----------------------------------------------------------------------------
(* Every step preserves the bounds on either kind of job.                  *)

(* Every step keeps SlotInv, for testcases and for crash sites.            *)
LEMMA SlotStep ==
  ASSUME NEW K, NEW n, NEW ph, Kind(K, n, ph),
         TypeOK, PhaseInv, RunningHasPid, SlotInv(K, n, ph), [Next]_vars
  PROVE  SlotInv(K, n, ph)'
<1>a. /\ K \in SUBSET Jobs /\ n \in Nat /\ ph \in {"tc", "cs"}
      /\ pc = ph => Slots = n
  BY SlotsNat DEF Kind, Slots, Jobs
<1>b. K = IF ph = "tc" THEN Testcases ELSE CrashSites
  BY DEF Kind
<1>c. rc \in Nat /\ timer \in [Jobs -> {"new", "running", "expired"}]
  BY DEF TypeOK
<1> DEFINE Goal == SlotInv(K, n, ph)'
<1>1. CASE CollectStage1
  <2>1. /\ pc = "loop" /\ pc' = "check" /\ UNCHANGED <<timer, afl>>
    BY <1>1 DEF CollectStage1
  <2>2. Running(K)' = Running(K)
    BY <2>1 DEF Running
  <2> QED BY <1>a, <2>1, <2>2, Idle
<1>2. CASE CheckCompleted
  <2>1. /\ pc = "check" /\ pc' \in {"kill_all", "resume"}
        /\ UNCHANGED <<timer, afl>>
    BY <1>2 DEF CheckCompleted
  <2>2. Running(K)' = Running(K)
    BY <2>1 DEF Running
  <2> QED BY <1>a, <2>1, <2>2, Idle
<1>3. CASE Resume
  <2>1. /\ pc = "resume" /\ pc' = "tc" /\ UNCHANGED <<timer, afl>>
        /\ lds \subseteq lds'
        /\ todo' = lds' \cap Testcases \cap Selected
        /\ rc' = Cardinality(Running(todo'))
    BY <1>3 DEF Resume
  <2>2. CASE ph = "tc"
    <3>1. /\ lds \cap K \cap Selected \subseteq todo'
          /\ todo' \subseteq K \cap Selected
      BY <1>b, <2>1, <2>2
    <3> QED BY <1>a, <2>1, <2>2, <3>1, ScanBegins
  <2>3. CASE ph = "cs"
    <3>1. Running(K)' = Running(K)
      BY <2>1 DEF Running
    <3> QED BY <1>a, <2>1, <2>3, <3>1, Idle
  <2> QED BY <1>a, <2>2, <2>3
<1>4. CASE ResumeAborts
  <2>1. pc = "resume" /\ pc' = "aborted" /\ UNCHANGED <<timer, afl>>
    BY <1>4 DEF ResumeAborts
  <2>2. Running(K)' = Running(K)
    BY <2>1 DEF Running
  <2> QED BY <1>a, <2>1, <2>2, Idle
<1>5. CASE EndTestcases
  <2>1. /\ pc = "tc" /\ todo = {} /\ UNCHANGED <<timer, afl, lds>>
        /\ \/ pc' = "loop"
           \/ /\ pc' = "cs" /\ todo' = lds \cap CrashSites \cap Selected
              /\ rc' = Cardinality(Running(todo'))
    BY <1>5 DEF EndTestcases
  <2>2. Running(K)' = Running(K)
    BY <2>1 DEF Running
  <2>3. CASE ph = "tc"
    BY <1>a, <2>1, <2>3, ScanEnds
  <2>4. CASE ph = "cs" /\ pc' = "loop"
    BY <1>a, <2>1, <2>2, <2>4, Idle
  <2>5. CASE ph = "cs" /\ pc' = "cs"
    <3>1. /\ lds \cap K \cap Selected \subseteq todo'
          /\ todo' \subseteq K \cap Selected
          /\ rc' = Cardinality(Running(todo'))
      BY <1>b, <2>1, <2>5
    <3> QED BY <1>a, <2>1, <2>5, <3>1, ScanBegins
  <2> QED BY <1>a, <2>1, <2>3, <2>4, <2>5
<1>6. CASE EndTestcasesAborts
  <2>1. pc = "tc" /\ pc' = "aborted" /\ UNCHANGED <<timer, afl>>
    BY <1>6 DEF EndTestcasesAborts, Abort
  <2>2. Running(K)' = Running(K)
    BY <2>1 DEF Running
  <2> QED BY <1>a, <1>c, <2>1, <2>2, Shrinks
<1>7. CASE EndCrashSites
  <2>1. pc = "cs" /\ todo = {} /\ pc' = "loop" /\ UNCHANGED <<timer, afl>>
    BY <1>7 DEF EndCrashSites
  <2>2. Running(K)' = Running(K)
    BY <2>1 DEF Running
  <2> QED BY <1>a, <2>1, <2>2, ScanEnds, Idle
<1>8. CASE EndIteration
  <2>1. /\ pc = "clear" /\ pc' \in {"bound", "resume"} /\ afl' = {}
        /\ \A j \in Jobs : timer'[j] = "new"
    BY <1>8 DEF EndIteration, ClearedTimers
  <2>2. Running(K)' = {}
    BY <1>a, <2>1 DEF Running
  <2> QED BY <1>a, <2>1, <2>2, Idle
<1>9. CASE EndIterationAborts
  <2>1. pc = "kill_all" /\ pc' = "aborted" /\ UNCHANGED <<timer, afl>>
    BY <1>9 DEF EndIterationAborts, Abort
  <2>2. Running(K)' = Running(K)
    BY <2>1 DEF Running
  <2> QED BY <1>a, <2>1, <2>2, Idle
<1>10. CASE CollectIteration
  <2>1. pc = "kill_all" /\ pc' = "clear" /\ UNCHANGED <<timer, afl>>
    BY <1>10 DEF CollectIteration
  <2>2. Running(K)' = Running(K)
    BY <2>1 DEF Running
  <2> QED BY <1>a, <2>1, <2>2, Idle
<1>11. ASSUME NEW j \in Jobs, Start(j) PROVE Goal
  <2>1. /\ pc \in {"tc", "cs"} /\ j \in todo /\ rc < Slots /\ pc' = pc
        /\ timer' = [timer EXCEPT ![j] = "running"]
        /\ afl' = afl \cup {j} /\ rc' = rc + 1 /\ todo' = todo \ {j}
    BY <1>11 DEF Start, HasSlot, CountAfterStart
  <2>2. CASE pc = ph
    <3>1. j \in K /\ rc < n
      BY <1>a, <1>b, <2>1, <2>2 DEF PhaseInv
    <3> QED BY <1>a, <2>1, <2>2, <3>1, ScanStarts
  <2>3. CASE pc # ph
    <3>1. j \notin K
      BY <1>a, <1>b, <2>1, <2>3, JobsAssumption DEF PhaseInv
    <3>2. Running(K)' \subseteq Running(K) /\ afl' \cap K \subseteq afl \cap K
      BY <1>a, <1>c, <2>1, <3>1 DEF Running
    <3> QED BY <1>a, <2>1, <2>3, <3>2, Idle
  <2> QED BY <2>2, <2>3
<1>12. ASSUME NEW j \in Jobs, StartAborts(j) PROVE Goal
  <2>1. /\ pc \in {"tc", "cs"} /\ j \in todo /\ rc < Slots /\ pc' = "aborted"
        /\ timer' = [timer EXCEPT ![j] = "running"] /\ UNCHANGED afl
    BY <1>12 DEF StartAborts, HasSlot
  <2>2. CASE pc = ph
    <3>1. /\ Cardinality(Running(K)') <= Cardinality(Running(K)) + 1
          /\ Cardinality(Running(K)) \in Nat
          /\ Cardinality(Running(K)') \in Nat
      <4>1. /\ Running(K) \in SUBSET Jobs /\ Running(K)' \in SUBSET Jobs
            /\ Running(K)' \in SUBSET (Running(K) \cup {j})
        BY <1>a, <1>c, <2>1 DEF Running
      <4> QED BY <4>1, AddCard, JobsFinite
    <3>2. Cardinality(Running(K)) <= rc /\ rc < n
      BY <1>a, <2>1, <2>2 DEF SlotInv
    <3> QED BY <1>a, <1>c, <2>1, <3>1, <3>2 DEF SlotInv
  <2>3. CASE pc # ph
    <3>1. j \notin K
      BY <1>a, <1>b, <2>1, <2>3, JobsAssumption DEF PhaseInv
    <3>2. Running(K)' \subseteq Running(K)
      BY <1>a, <1>c, <2>1, <3>1 DEF Running
    <3> QED BY <1>a, <2>1, <2>3, <3>2, Idle
  <2> QED BY <2>2, <2>3
<1>13. ASSUME NEW j \in Jobs, Skip(j) PROVE Goal
  <2>1. /\ pc \in {"tc", "cs", "kill_all"} /\ j \in todo
        /\ todo' = todo \ {j} /\ pc' = pc /\ rc' = rc
        /\ UNCHANGED <<timer, afl>>
        /\ j \in afl => timer[j] = "running"
    BY <1>13 DEF Skip, PhaseInv, TypeOK
  <2>2. /\ Running(K)' \subseteq Running(K)
        /\ Accounted(K)' \subseteq Accounted(K)
    BY <2>1 DEF Running, Accounted
  <2> QED BY <1>a, <1>c, <2>1, <2>2, Shrinks
<1>14. ASSUME NEW j \in Jobs, Terminate(j) PROVE Goal
  <2>1. /\ pc \in {"tc", "cs", "kill_all"} /\ afl' = afl \ {j}
        /\ todo' = todo \ {j} /\ pc' = pc /\ rc' = rc /\ UNCHANGED timer
    BY <1>14 DEF Terminate, Due, Told, CountAfterTermination
  <2>2. /\ Running(K)' \subseteq Running(K)
        /\ Accounted(K)' \subseteq Accounted(K)
    BY <2>1 DEF Running, Accounted
  <2> QED BY <1>a, <1>c, <2>1, <2>2, Shrinks
<1>15. ASSUME NEW j \in Jobs, TerminateAborts(j) PROVE Goal
  <2>1. /\ pc \in {"tc", "cs", "kill_all"} /\ pc' = "aborted"
        /\ UNCHANGED timer /\ afl' \subseteq afl
    BY <1>15 DEF TerminateAborts, Due, Told
  <2>2. Running(K)' = Running(K)
    BY <2>1 DEF Running
  <2> QED BY <1>a, <1>c, <2>1, <2>2, Shrinks
<1>16. ASSUME NEW j \in Jobs, Expire(j) PROVE Goal
  <2>1. /\ timer' = [timer EXCEPT ![j] = "expired"]
        /\ UNCHANGED <<afl, todo, pc, rc>>
    BY <1>16 DEF Expire
  <2>2. /\ Running(K)' \subseteq Running(K)
        /\ Accounted(K)' \subseteq Accounted(K)
    BY <1>a, <1>c, <2>1 DEF Running, Accounted
  <2> QED BY <1>a, <1>c, <2>1, <2>2, Shrinks
<1>17. ASSUME NEW j \in Jobs, AflSaves(j) PROVE Goal
  <2>1. UNCHANGED <<timer, afl, todo, pc, rc>>
    BY <1>17 DEF AflSaves
  <2>2. Running(K)' = Running(K) /\ Accounted(K)' = Accounted(K)
    BY <2>1 DEF Running, Accounted
  <2> QED BY <1>a, <1>c, <2>1, <2>2, Shrinks
<1>18. ASSUME NEW j \in Jobs, AflDies(j) PROVE Goal
  <2>1. afl' = afl \ {j} /\ UNCHANGED <<timer, todo, pc, rc>>
    BY <1>18 DEF AflDies
  <2>2. Running(K)' = Running(K) /\ Accounted(K)' \subseteq Accounted(K)
    BY <2>1 DEF Running, Accounted
  <2> QED BY <1>a, <1>c, <2>1, <2>2, Shrinks
<1>19. CASE UNCHANGED vars
  <2>1. UNCHANGED <<timer, afl, todo, pc, rc>>
    BY <1>19 DEF vars
  <2>2. Running(K)' = Running(K) /\ Accounted(K)' = Accounted(K)
    BY <2>1 DEF Running, Accounted
  <2> QED BY <1>a, <1>c, <2>1, <2>2, Shrinks
<1>20. CASE CollectionFails
  <2>1. /\ pc \in {"loop", "resume", "kill_all"} /\ pc' = "aborted"
        /\ UNCHANGED <<timer, afl>>
    BY <1>20 DEF CollectionFails, Abort
  <2>2. Running(K)' = Running(K)
    BY <2>1 DEF Running
  <2> QED BY <1>a, <2>1, <2>2, Idle
<1>21. CASE ClearAborts
  <2>1. pc = "clear" /\ pc' = "aborted" /\ UNCHANGED <<timer, afl>>
    BY <1>21 DEF ClearAborts, Abort
  <2>2. Running(K)' = Running(K)
    BY <2>1 DEF Running
  <2> QED BY <1>a, <2>1, <2>2, Idle
<1>22. ASSUME NEW j \in Jobs, AflEnds(j) PROVE Goal
  <2>1. UNCHANGED <<timer, afl, todo, pc, rc>>
    BY <1>22 DEF AflEnds
  <2>2. Running(K)' = Running(K) /\ Accounted(K)' = Accounted(K)
    BY <2>1 DEF Running, Accounted
  <2> QED BY <1>a, <1>c, <2>1, <2>2, Shrinks
<1> QED
  BY <1>1, <1>2, <1>3, <1>4, <1>5, <1>6, <1>7, <1>8, <1>9, <1>10, <1>11,
     <1>12, <1>13, <1>14, <1>15, <1>16, <1>17, <1>18, <1>19, <1>20, <1>21,
     <1>22
  DEF Next, Driver, Environment, Visit

(* An iteration ends between two scans, with no AFL process of a testcase: *)
(* no more are left behind than there are slots for crash sites.           *)
LEMMA LeakStep ==
  ASSUME TypeOK, KillInv, SlotInv(CrashSites, CoresCS, "cs"), LeakBounded,
         [Next]_vars
  PROVE  LeakBounded'
<1> USE DEF LeakBounded
<1>a. leaked \in Nat /\ iter \in Nat /\ CoresCS \in Nat /\ CoresCS' = CoresCS
  BY SlotsNat DEF TypeOK, CoresCS, Half
<1>1. CASE EndIteration
  <2>1. /\ pc = "clear" /\ leaked' = leaked + Cardinality(afl)
        /\ iter' = iter + 1
    BY <1>1 DEF EndIteration
  <2>2. afl \cap Testcases = {} /\ afl \subseteq Jobs
    BY <2>1 DEF KillInv, TypeOK
  <2>3. afl \cap CrashSites = afl
    BY <2>2 DEF Jobs
  <2>4. Cardinality(afl) <= CoresCS /\ Cardinality(afl) \in Nat
    BY <2>1, <2>2, <2>3, JobsFinite DEF SlotInv
  <2>5. \A i, c \in Nat : (i + 1 - 1) * c = (i - 1) * c + c
    OBVIOUS
  <2>6. (iter' - 1) * CoresCS = (iter - 1) * CoresCS + CoresCS
    BY <1>a, <2>1, <2>5
  <2>7. (iter - 1) * CoresCS \in Int
    BY <1>a
  <2> HIDE DEF LeakBounded
  <2>8. leaked + Cardinality(afl) <= (iter - 1) * CoresCS + CoresCS
    <3>1. leaked <= (iter - 1) * CoresCS
      BY DEF LeakBounded
    <3> QED BY <1>a, <2>4, <2>7, <3>1
  <2>9. leaked' <= (iter' - 1) * CoresCS'
    BY <1>a, <2>1, <2>6, <2>8
  <2> QED BY <2>9 DEF LeakBounded
<1>2. CASE ~EndIteration
  <2>1. UNCHANGED <<iter, leaked>>
    BY <1>2 DEF Next, Driver, Environment, Visit, vars, CollectStage1,
       CheckCompleted, Resume, ResumeAborts, EndTestcases,
       EndTestcasesAborts, EndCrashSites, CollectIteration,
       EndIterationAborts, CollectionFails, ClearAborts, Abort, Start,
       StartAborts, Skip, Terminate, TerminateAborts, Due, Told, Expire,
       AflSaves, AflDies, AflEnds
  <2> QED BY <1>a, <2>1
<1> QED BY <1>1, <1>2
-----------------------------------------------------------------------------
(* IndInv is inductive, and holds of every reachable state.                *)

(* Every step keeps the inductive invariant.                               *)
LEMMA IndStep == IndInv /\ [Next]_vars => IndInv'
<1> SUFFICES ASSUME IndInv, [Next]_vars PROVE IndInv'
  OBVIOUS
<1>1. TypeOK'
  BY TypeStep DEF IndInv
<1>2. PhaseInv' /\ RunningHasPid' /\ KillInv'
  BY PhaseStep DEF IndInv
<1>3. FoundInv'
  BY FoundStep DEF IndInv
<1>4. InputInv' /\ InTime'
  BY InputStep DEF IndInv
<1>5. SlotInv(Testcases, CoresTC, "tc")'
  BY SlotStep DEF IndInv, Kind
<1>6. SlotInv(CrashSites, CoresCS, "cs")'
  BY SlotStep DEF IndInv, Kind
<1>7. LeakBounded'
  BY LeakStep DEF IndInv
<1> QED BY <1>1, <1>2, <1>3, <1>4, <1>5, <1>6, <1>7 DEF IndInv

(* The inductive invariant behind the theorems on stage 2.                 *)
THEOREM Invariance == Spec => []IndInv
<1>1. Init => IndInv
  BY InitInv
<1>2. IndInv /\ [Next]_vars => IndInv'
  BY IndStep
<1> QED BY <1>1, <1>2, PTL DEF Spec

(* Types, for every instance.                                              *)
THEOREM TypeCorrect == Spec => []TypeOK
<1>1. IndInv => TypeOK
  BY DEF IndInv
<1> QED BY <1>1, Invariance, PTL

(* get_run_count never opens a pid file that is not there.                 *)
THEOREM PidFilesThere == Spec => []RunningHasPid
<1>1. IndInv => RunningHasPid
  BY DEF IndInv
<1> QED BY <1>1, Invariance, PTL

(* However timers expire during a scan, no more jobs have their time       *)
(* running than there are slots.                                           *)
THEOREM SlotsRespected == Spec => []WithinSlots
<1>1. IndInv => WithinSlots
  BY DEF IndInv, SlotInv, WithinSlots
<1> QED BY <1>1, Invariance, PTL

(* There are at most twice as many AFL processes as slots, and no more     *)
(* than slots between two scans; each iteration leaves behind at most as   *)
(* many as there are slots for crash sites.                                *)
THEOREM ProcessesBounded == Spec => []AflBounded
<1>1. IndInv => AflBounded
  BY DEF IndInv, SlotInv, AflBounded
<1> QED BY <1>1, Invariance, PTL

(* What CoresRespected would have to be: those told to end apart, there    *)
(* are never more AFL processes in all than twice the slots for testcases, *)
(* and the slots for crash sites once for each iteration so far and once   *)
(* more.                                                                   *)
THEOREM ProcessesInAll ==
  Spec => [](leaked + Cardinality(afl) <= 2 * CoresTC + (iter + 1) * CoresCS)
<1>1. IndInv
        => leaked + Cardinality(afl) <= 2 * CoresTC + (iter + 1) * CoresCS
  <2> SUFFICES ASSUME IndInv
               PROVE  leaked + Cardinality(afl)
                        <= 2 * CoresTC + (iter + 1) * CoresCS
    OBVIOUS
  <2>1. /\ leaked \in Nat /\ iter \in Nat /\ afl \subseteq Jobs
        /\ CoresTC \in Nat /\ CoresCS \in Nat
    BY SlotsNat DEF IndInv, TypeOK
  <2>2. /\ Cardinality(afl \cap Testcases) <= 2 * CoresTC
        /\ Cardinality(afl \cap CrashSites) <= 2 * CoresCS
    BY DEF IndInv, SlotInv
  <2>3. /\ Cardinality(afl) <= Cardinality(afl \cap Testcases)
                                 + Cardinality(afl \cap CrashSites)
        /\ Cardinality(afl) \in Nat
        /\ Cardinality(afl \cap Testcases) \in Nat
        /\ Cardinality(afl \cap CrashSites) \in Nat
    <3>1. /\ afl \cap Testcases \in SUBSET Jobs
          /\ afl \cap CrashSites \in SUBSET Jobs
          /\ afl \in SUBSET ((afl \cap Testcases) \cup (afl \cap CrashSites))
      BY <2>1 DEF Jobs
    <3> QED BY <2>1, <3>1, UnionCard, JobsFinite
  <2>4. \A i, c \in Nat : (i + 1) * c = (i - 1) * c + 2 * c
    OBVIOUS
  <2>5. (iter + 1) * CoresCS = (iter - 1) * CoresCS + 2 * CoresCS
    BY <2>1, <2>4
  <2>6. leaked <= (iter - 1) * CoresCS /\ (iter - 1) * CoresCS \in Int
    BY <2>1 DEF IndInv, LeakBounded
  <2> QED BY <2>1, <2>2, <2>3, <2>5, <2>6
<1> QED BY <1>1, Invariance, PTL

(* In every iteration, what AFL has found from a testcase is in @dedup     *)
(* when the iteration of its number begins: none is passed over.           *)
THEOREM ChildrenInTime == Spec => []InTime
<1>1. IndInv => InTime
  BY DEF IndInv
<1> QED BY <1>1, Invariance, PTL

(* Only clear() and the next Stage2 object change the iteration.           *)
LEMMA OnlyEndIteration == [Next]_vars /\ iter' # iter => EndIteration
  BY DEF Next, Driver, Environment, Visit, vars, CollectStage1,
     CheckCompleted, Resume, ResumeAborts, EndTestcases,
     EndTestcasesAborts, EndCrashSites, CollectIteration,
     EndIterationAborts, CollectionFails, ClearAborts, Abort, Start,
     StartAborts, Skip, Terminate, TerminateAborts, Due, Told, Expire,
     AflSaves, AflDies, AflEnds

(* No step that ends an iteration deletes the directory of a testcase      *)
(* whose AFL process is alive.                                             *)
THEOREM TestcasesNotLeaked == Spec => NoTestcaseLeaked
<1>1. IndInv /\ [Next]_vars => [iter' # iter => afl \cap Testcases = {}]_vars
  BY OnlyEndIteration DEF EndIteration, IndInv, KillInv
<1> QED BY <1>1, Invariance, PTL DEF Spec, NoTestcaseLeaked

(* Whatever AFL had found by the collection of an iteration is in @dedup   *)
(* when it ends, also what it saved after its queue had been listed.       *)
THEOREM ResultsNotLost == Spec => NoLostResult
<1>1. IndInv /\ [Next]_vars
        => [iter' # iter => found \ late \subseteq gbl']_vars
  BY OnlyEndIteration DEF EndIteration, IndInv, FoundInv
<1> QED BY <1>1, Invariance, PTL DEF Spec, NoLostResult
-----------------------------------------------------------------------------
(* Aborts.                                                                 *)

(* As long as no AFL process dies, those that have a pid file are those    *)
(* that are alive.                                                         *)
NoneDead == pc # "aborted" => pidf = afl

(* What is left of the causes of an abort when no AFL process dies and no  *)
(* collection fails.                                                       *)
KnownCauses ==
  \/ pc = "kill_all" /\ (gbl \cup CollectOrphans) \cap Testcases = {}
  \/ \E x \in CrashSites : Due(x) /\ ~OneMatch(x)
  \/ pc = "clear" /\ afl \cup ending # {}

(* None of the other aborts can happen: what runs has a pid file, and so   *)
(* it is alive.                                                            *)
LEMMA NoneDeadStep ==
  ASSUME ~AflMayDie, ~MayFail, IndInv, NoneDead, [Next]_vars
  PROVE  NoneDead' /\ [pc # "aborted" /\ pc' = "aborted" => KnownCauses]_vars
<1> DEFINE Goal ==
             /\ NoneDead'
             /\ [pc # "aborted" /\ pc' = "aborted" => KnownCauses]_vars
<1> USE DEF NoneDead
<1>a. TypeOK
  BY DEF IndInv
<1>b. ASSUME NEW S \in SUBSET Jobs, CountFails(S), pc # "aborted" PROVE FALSE
  <2>1. PICK j \in Running(S) : j \notin pidf \cap afl
    BY <1>b DEF CountFails
  <2>2. j \in Jobs /\ timer[j] = "running"
    BY <2>1 DEF Running
  <2> QED BY <1>b, <2>1, <2>2 DEF IndInv, RunningHasPid
<1>1. ASSUME CollectStage1 \/ CheckCompleted \/ Resume \/ EndTestcases
             \/ EndCrashSites \/ CollectIteration \/ EndIteration
      PROVE  Goal
  BY <1>1 DEF CollectStage1, CheckCompleted, Resume, EndTestcases,
              EndCrashSites, CollectIteration, EndIteration
<1>2. ~ResumeAborts /\ ~EndTestcasesAborts /\ ~CollectionFails
  BY <1>a, <1>b DEF ResumeAborts, EndTestcasesAborts, CollectionFails, TypeOK
<1>3. CASE EndIterationAborts
  BY <1>3 DEF EndIterationAborts, Abort, KnownCauses
<1>4. CASE ClearAborts
  BY <1>4 DEF ClearAborts, Abort, KnownCauses
<1>5. ASSUME NEW j \in Jobs, Start(j) \/ Skip(j) \/ Terminate(j)
      PROVE  Goal
  BY <1>5 DEF Start, Skip, Terminate, Due, Told
<1>6. ASSUME NEW j \in Jobs, TerminateAborts(j) PROVE Goal
  <2>1. j \in afl
    BY <1>6 DEF TerminateAborts, Due
  <2> QED BY <1>6, <2>1 DEF TerminateAborts, KnownCauses
<1>7. \A j \in Jobs : ~StartAborts(j) /\ ~AflDies(j)
  BY DEF StartAborts, AflDies
<1>8. ASSUME NEW j \in Jobs, Expire(j) \/ AflSaves(j) \/ AflEnds(j)
      PROVE  Goal
  <2>1. UNCHANGED <<pc, pidf, afl>>
    BY <1>8 DEF Expire, AflSaves, AflEnds
  <2>2. CASE pc # "aborted"
    BY <2>1, <2>2
  <2> QED BY <2>1, <2>2
<1>9. CASE UNCHANGED vars
  BY <1>9 DEF vars
<1> QED
  BY <1>1, <1>2, <1>3, <1>4, <1>5, <1>6, <1>7, <1>8, <1>9
  DEF Next, Driver, Environment, Visit

(* When no AFL process dies on its own and no collection fails, the driver *)
(* of stage 2 aborts for three causes only: there is no testcase to        *)
(* deduplicate, the image of a crash site is ambiguous, or the directory   *)
(* of an iteration is deleted under an AFL process.  However timers        *)
(* expire, its count of running jobs never aborts.                         *)
THEOREM AbortsKnown ==
  ASSUME ~AflMayDie, ~MayFail
  PROVE  Spec => [][pc # "aborted" /\ pc' = "aborted" => KnownCauses]_vars
<1>1. Init => NoneDead
  BY DEF Init, NoneDead
<1>2. IndInv /\ NoneDead /\ [Next]_vars
        => NoneDead' /\ [pc # "aborted" /\ pc' = "aborted" => KnownCauses]_vars
  BY NoneDeadStep
<1> QED BY <1>1, <1>2, Invariance, PTL DEF Spec
=============================================================================
