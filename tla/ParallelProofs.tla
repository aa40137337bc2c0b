--------------------------- MODULE ParallelProofs ---------------------------
(***************************************************************************)
(* A pool of any size, over any finite set of tasks and in either failure  *)
(* mode, never holds more processes than cores, misses at most as many     *)
(* failures as it has cores, and implements JobPool.                       *)
(***************************************************************************)
EXTENDS Parallel, FiniteSetTheorems, TLAPS

(* Sets of tasks are finite.                                               *)
LEMMA TasksFinite ==
  ASSUME NEW S \in SUBSET Tasks
  PROVE  IsFiniteSet(S) /\ Cardinality(S) \in Nat
<1>1. IsFiniteSet(S)
  BY PoolAssumption, FS_Subset
<1> QED BY <1>1, FS_CardinalityType

(* A part of a set of tasks is no larger than the whole.                   *)
LEMMA SubsetCard ==
  ASSUME NEW S \in SUBSET Tasks, NEW R \in SUBSET S
  PROVE  /\ Cardinality(R) \in Nat /\ Cardinality(S) \in Nat
         /\ Cardinality(R) <= Cardinality(S)
<1>1. IsFiniteSet(S) /\ Cardinality(S) \in Nat
  BY TasksFinite
<1>2. R \in SUBSET Tasks
  OBVIOUS
<1>3. Cardinality(R) <= Cardinality(S)
  BY <1>1, FS_Subset
<1> QED BY <1>1, <1>2, <1>3, TasksFinite

(* When alive_cnt has asked every process and the pool is not full, what   *)
(* it keeps are fewer processes than cores.                                *)
LEMMA RoomLeft ==
  ASSUME IndInv, pc = "count", unasked = {}, ~Full
  PROVE  Cardinality(Kept) < Cores /\ Alive \subseteq Kept
<1>1. Kept \in SUBSET pobjs /\ pobjs \in SUBSET Tasks
  BY DEF Kept, IndInv, TypeOK
<1>2. /\ Cardinality(Kept) \in Nat /\ Cardinality(pobjs) \in Nat
      /\ Cardinality(Kept) <= Cardinality(pobjs)
  BY <1>1, SubsetCard
<1>3. cnt = Cardinality(Kept)
  BY DEF Kept, IndInv, CountInv
<1>4. Cardinality(Kept) < Cores
  BY <1>2, <1>3, PoolAssumption DEF Full, IndInv, WithinCores
<1>5. Alive \subseteq Kept
  BY DEF Alive, Kept, IndInv, HeldInv, CountInv
<1> QED BY <1>4, <1>5

(* A Parallel as its constructor leaves it.                                *)
LEMMA InitInv == Init => IndInv
<1> SUFFICES ASSUME Init PROVE IndInv
  OBVIOUS
<1>1. TypeOK /\ HeldInv /\ CountInv /\ WaitInv
  BY DEF Init, TypeOK, HeldInv, CountInv, WaitInv, Alive, Failed, Unstarted
<1>2. WithinCores
  BY FS_EmptySet, PoolAssumption DEF Init, WithinCores
<1> QED BY <1>1, <1>2 DEF IndInv

(* run, wait and processes that end keep the inductive invariant.          *)
LEMMA IndStep == IndInv /\ [Next]_vars => IndInv'
<1> SUFFICES ASSUME IndInv, [Next]_vars PROVE IndInv'
  OBVIOUS
<1>a. TypeOK /\ WithinCores /\ HeldInv /\ CountInv /\ WaitInv
  BY DEF IndInv
<1>b. Cardinality({}) = 0 /\ 0 \in Nat
  BY FS_EmptySet
<1>1. CASE Run
  <2>1. TypeOK' /\ WithinCores'
    BY <1>a, <1>1 DEF Run, Count, TypeOK, WithinCores
  <2>2. HeldInv' /\ WaitInv'
    BY <1>a, <1>1 DEF Run, Count, HeldInv, WaitInv, Alive, Failed, Unstarted
  <2>3. CountInv'
    <3>1. pobjs' \ (unasked' \cup ended') = {} /\ cnt' = 0
      BY <1>1 DEF Run, Count
    <3> QED BY <1>1, <1>b, <3>1 DEF Run, Count, CountInv, Unstarted
  <2> QED BY <2>1, <2>2, <2>3 DEF IndInv
<1>2. CASE Poll
  <2>1. TypeOK' /\ HeldInv' /\ WaitInv'
    BY <1>a, <1>2 DEF Poll, Kept, TypeOK, HeldInv, CountInv, WaitInv, Alive,
       Failed, Unstarted
  <2>2. WithinCores'
    <3>1. pobjs' \in SUBSET pobjs /\ pobjs \in SUBSET Tasks
      BY <1>a, <1>2 DEF Poll, Kept, TypeOK
    <3> QED BY <1>a, <3>1, SubsetCard, PoolAssumption DEF WithinCores
  <2>3. CountInv'
    <3>1. pobjs' \ (unasked' \cup ended') = {} /\ cnt' = 0
      BY <1>2 DEF Poll
    <3> QED BY <1>a, <1>2, <1>b, <3>1 DEF Poll, CountInv, Unstarted
  <2> QED BY <2>1, <2>2, <2>3 DEF IndInv
<1>3. CASE Wait
  BY <1>a, <1>3 DEF Wait, IndInv, TypeOK, WithinCores, HeldInv, CountInv,
     WaitInv, Alive, Failed, Unstarted
<1>4. CASE Return
  BY <1>a, <1>4 DEF Return, NoneAlive, IndInv, TypeOK, WithinCores, HeldInv,
     CountInv, WaitInv, Alive, Failed, Unstarted
<1>5. ASSUME NEW t \in Tasks, AskAlive(t) PROVE IndInv'
  <2>1. TypeOK' /\ WithinCores' /\ HeldInv' /\ WaitInv'
    BY <1>a, <1>5 DEF AskAlive, TypeOK, WithinCores, HeldInv, WaitInv, Alive,
       Failed, Unstarted
  <2>2. CountInv'
    <3> DEFINE asked == pobjs \ (unasked \cup ended)
    <3>1. /\ pobjs' \ (unasked' \cup ended') = asked \cup {t}
          /\ t \notin asked
      BY <1>a, <1>5 DEF AskAlive, TypeOK, CountInv
    <3>2. asked \in SUBSET Tasks /\ IsFiniteSet(asked)
      <4>1. asked \in SUBSET Tasks
        BY <1>a DEF TypeOK
      <4> QED BY <4>1, TasksFinite
    <3>3. Cardinality(asked \cup {t}) = Cardinality(asked) + 1
      BY <3>1, <3>2, FS_AddElement
    <3>4. cnt' = Cardinality(pobjs' \ (unasked' \cup ended'))
      BY <1>a, <1>5, <3>1, <3>3 DEF AskAlive, CountInv
    <3> QED BY <1>a, <1>5, <3>4 DEF AskAlive, CountInv, Unstarted
  <2> QED BY <2>1, <2>2 DEF IndInv
<1>6. ASSUME NEW t \in Tasks, AskEnded(t) PROVE IndInv'
  <2>1. TypeOK' /\ WithinCores' /\ HeldInv' /\ WaitInv'
    BY <1>a, <1>6 DEF AskEnded, TypeOK, WithinCores, HeldInv, WaitInv, Alive,
       Failed, Unstarted
  <2>2. CountInv'
    <3>1. pobjs' \ (unasked' \cup ended') = pobjs \ (unasked \cup ended)
      BY <1>a, <1>6 DEF AskEnded, TypeOK
    <3>2. proc[t] = "ok" \/ (proc[t] = "failed" /\ FailureMode = "cont")
      BY <1>a, <1>6, PoolAssumption DEF AskEnded, FailureIsFatal, TypeOK,
         HeldInv, Unstarted
    <3> QED BY <1>a, <1>6, <3>1, <3>2 DEF AskEnded, CountInv, Unstarted
  <2> QED BY <2>1, <2>2 DEF IndInv
<1>7. ASSUME NEW t \in Tasks, AskFailed(t) PROVE IndInv'
  BY <1>a, <1>7 DEF AskFailed, IndInv, TypeOK, WithinCores, HeldInv, CountInv,
     WaitInv, Alive, Failed, Unstarted
<1>8. ASSUME NEW t \in Tasks, Begin(t) PROVE IndInv'
  <2>1. /\ pc = "count" /\ unasked = {} /\ ~Full /\ t \in Unstarted
        /\ pobjs' = Kept \cup {t} /\ proc' = [proc EXCEPT ![t] = "alive"]
        /\ pc' = "call" /\ ended' = {} /\ cnt' = 0 /\ unasked' = unasked
    BY <1>8 DEF Begin
  <2>2. TypeOK' /\ CountInv' /\ WaitInv'
    BY <1>a, <2>1 DEF Kept, TypeOK, CountInv, WaitInv
  <2>3. HeldInv'
    BY <1>a, <2>1 DEF Kept, TypeOK, HeldInv, CountInv, Alive, Failed,
       Unstarted
  <2>4. WithinCores'
    <3>1. Kept \in SUBSET Tasks
      BY <1>a DEF Kept, TypeOK
    <3>2. IsFiniteSet(Kept) /\ Cardinality(Kept) \in Nat
      BY <3>1, TasksFinite
    <3>3. Cardinality(Kept \cup {t}) \in {Cardinality(Kept),
                                          Cardinality(Kept) + 1}
      BY <3>2, FS_AddElement
    <3>4. Cardinality(Kept) < Cores
      BY <2>1, RoomLeft
    <3> QED BY <2>1, <3>2, <3>3, <3>4, PoolAssumption DEF WithinCores
  <2> QED BY <2>2, <2>3, <2>4 DEF IndInv
<1>9. ASSUME NEW t \in Tasks, PollAlive(t) PROVE IndInv'
  BY <1>a, <1>9 DEF PollAlive, IndInv, TypeOK, WithinCores, HeldInv, CountInv,
     WaitInv, Alive, Failed, Unstarted
<1>10. ASSUME NEW t \in Tasks, End(t) PROVE IndInv'
  BY <1>a, <1>10 DEF End, IndInv, TypeOK, WithinCores, HeldInv, CountInv,
     WaitInv, Alive, Failed, Unstarted
<1>11. CASE UNCHANGED vars
  BY <1>a, <1>11 DEF vars, IndInv, TypeOK, WithinCores, HeldInv, CountInv,
     WaitInv, Alive, Failed, Unstarted
<1> QED
  BY <1>1, <1>2, <1>3, <1>4, <1>5, <1>6, <1>7, <1>8, <1>9, <1>10, <1>11
  DEF Next, Caller

(* The inductive invariant behind the theorems on the pool.                *)
THEOREM Invariance == Spec => []IndInv
<1> QED BY InitInv, IndStep, PTL DEF Spec

(* The pool never holds more processes than cores.                         *)
THEOREM PoolWithinCores == Spec => []WithinCores
<1>1. IndInv => WithinCores
  BY DEF IndInv
<1> QED BY <1>1, Invariance, PTL

(* With FAILURE_EXIT at most Cores failures go unnoticed.                  *)
THEOREM FewMissed == Spec => []FewFailuresMissed
<1>1. IndInv => FewFailuresMissed
  <2> SUFFICES ASSUME IndInv, pc = "done", FailureMode = "exit"
               PROVE  Cardinality(Failed) <= Cores
    BY DEF FewFailuresMissed
  <2>1. Failed \in SUBSET pobjs /\ pobjs \in SUBSET Tasks
    BY DEF IndInv, HeldInv, TypeOK
  <2> QED BY <2>1, SubsetCard, PoolAssumption DEF IndInv, WithinCores
<1> QED BY <1>1, Invariance, PTL

(* The pool implements JobPool.                                            *)
THEOREM Implements == Spec => PoolSpec
<1>1. Init => Pool!Init
  BY DEF Init, Pool!Init
<1>2. IndInv /\ [Next]_vars => [Pool!Next]_(Pool!vars)
  <2> SUFFICES ASSUME IndInv, [Next]_vars
               PROVE  Pool!Next \/ UNCHANGED Pool!vars
    OBVIOUS
  <2>a. TypeOK /\ HeldInv /\ CountInv /\ WaitInv
    BY DEF IndInv
  <2>1. CASE Run \/ Poll \/ Wait
    BY <2>1 DEF Run, Count, Poll, Wait, Pool!vars
  <2>2. CASE Return
    <3>1. \A t \in Tasks : proc[t] \in {"ok", "failed"}
      BY <2>2, <2>a DEF Return, NoneAlive, TypeOK, HeldInv, WaitInv, Alive,
         Unstarted
    <3>2. Pool!Close
      BY <2>2, <3>1 DEF Return, Pool!Close
    <3> QED BY <3>2 DEF Pool!Next
  <2>3. ASSUME NEW t \in Tasks, AskAlive(t) \/ AskEnded(t) \/ PollAlive(t)
        PROVE  UNCHANGED Pool!vars
    BY <2>3 DEF AskAlive, AskEnded, PollAlive, Pool!vars
  <2>4. ASSUME NEW t \in Tasks, AskFailed(t) PROVE Pool!Next
    <3>1. Pool!GiveUp
      BY <2>4 DEF AskFailed, FailureIsFatal, Pool!GiveUp
    <3> QED BY <3>1 DEF Pool!Next
  <2>5. ASSUME NEW t \in Tasks, Begin(t) PROVE Pool!Next
    <3>1. Cardinality(Alive) < Cores
      <4>1. Kept \in SUBSET Tasks
        BY <2>a DEF Kept, TypeOK
      <4>2. Alive \in SUBSET Kept /\ Cardinality(Kept) < Cores
        BY <2>5, RoomLeft DEF Begin
      <4> QED BY <4>1, <4>2, SubsetCard, PoolAssumption
    <3>2. Pool!Submit(t)
      <4>1. Pool!Cardinality(Pool!Alive) = Cardinality(Alive)
        BY DEF Pool!Alive, Alive, Pool!Cardinality, Cardinality
      <4> QED BY <2>5, <3>1, <4>1 DEF Begin, Unstarted, Pool!Submit
    <3> QED BY <3>2 DEF Pool!Next
  <2>6. ASSUME NEW t \in Tasks, End(t) PROVE Pool!Next
    <3>1. Pool!Finish(t)
      BY <2>6 DEF End, Pool!Finish
    <3> QED BY <3>1 DEF Pool!Next
  <2>7. CASE UNCHANGED vars
    BY <2>7 DEF vars, Pool!vars
  <2> QED BY <2>1, <2>2, <2>3, <2>4, <2>5, <2>6, <2>7 DEF Next, Caller
<1> QED BY <1>1, <1>2, Invariance, PTL DEF Spec, PoolSpec, Pool!Spec
=============================================================================
