------------------------------ MODULE MCStage2 ------------------------------
(***************************************************************************)
(* Stage2 on a small family of names, with the parent, the iteration count *)
(* and the selection that the operators of Names give them.  Stage 1 finds *)
(* the testcases t1, t2 and the crash site x1; fuzzing t1 gives the        *)
(* testcase t1a and the crash site x2, fuzzing x1 gives the testcase x1a.  *)
(* The name of x2 begins with the name of x1: id=1.id=3 and                *)
(* id=1.id=3.id=8.                                                         *)
(***************************************************************************)
EXTENDS Stage2, TLC

N == INSTANCE Names

AFL(i) == [id |-> i]

t1  == N!ChildName(N!NoName, AFL(1))
t2  == N!ChildName(N!NoName, AFL(2))
x1  == N!CrashSiteName(N!NoName, AFL(1), 3)
t1a == N!ChildName(t1, AFL(3))
x2  == N!CrashSiteName(t1, AFL(3), 8)
x1a == N!ChildName(x1, AFL(4))

MCTestcases  == {t1, t2, t1a, x1a}
MCCrashSites == {x1, x2}
All          == MCTestcases \cup MCCrashSites

MCParent ==
  (t1 :> Stage1) @@ (t2 :> Stage1) @@ (x1 :> Stage1)
    @@ (t1a :> t1) @@ (x2 :> t1) @@ (x1a :> x1)

MCIterCnt == [j \in All |-> N!IterationCnt(j)]

MCSameStart ==
  [x \in MCCrashSites |-> {y \in MCCrashSites : N!StartsWith(y, x)}]

(* select_ids: what descends from testcase 2 is not selected.              *)
NotFrom2 == {j \in All : N!ShouldUse(j, {1, 3, 4})}
-----------------------------------------------------------------------------
(* What Stage2 takes for granted of names: a testcase leads to its parent, *)
(* to whose image get_parent_img leads too, and names stay apart.          *)
ASSUME NamesFit ==
  /\ Cardinality(All) = 6
  /\ \A t \in MCTestcases :
       /\ t \in N!TestcaseNames
       /\ N!GetTestcaseParent(t) =
            IF MCParent[t] = Stage1 THEN N!NoName ELSE MCParent[t]
  /\ MCCrashSites \subseteq N!CrashSiteNames
  /\ MCSameStart[x1] = {x1, x2} /\ MCSameStart[x2] = {x2}
  /\ N!GetParentImg(x1a, UNION {N!ImagesOf(j) : j \in {x2, t1}}, FALSE) = {}
  /\ N!GetParentImg(x1a, {N!File("crash_cmpr_site", x1)}, FALSE)
       = {N!File("crash_cmpr_site", x1)}

(* The examples in the documentation of name_handler.py.                   *)
Example == <<<<10, 16>>, <<12, 516>>, <<13>>>>

ASSUME DocumentedExamples ==
  /\ N!GetLineage(<<<<19, 10>>, <<928>>, <<193>>>>) = <<19, 928, 193>>
  /\ N!AncestorCnt(Example) = 2
  /\ N!IterationCnt(<<<<10>>, <<12>>, <<13>>>>) = 3
  /\ N!GetTestcaseParent(<<<<1>>, <<2>>, <<2>>>>) = <<<<1>>, <<2>>>>
  /\ N!GetTestcaseParent(<<<<2>>>>) = N!NoName
  /\ N!GetTestcaseParent(Example) = <<<<10, 16>>, <<12, 516>>>>
  /\ N!GetTestcaseParent(<<<<10, 16>>, <<12, 516, 13>>>>)
       = <<<<10, 16>>, <<12, 516>>>>
  /\ Cardinality(N!GetMetadataFiles(N!File("map", <<<<10>>>>), TRUE)) = 9
=============================================================================
