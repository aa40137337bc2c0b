---------------------------- MODULE MCDedupStore ----------------------------
(***************************************************************************)
(* DedupStore on a small family of names: stage 1 finds the testcases s1   *)
(* and s2 and the crash site x; fuzzing s1 gives s1a, whose files come one *)
(* after the other, and the crash site y; fuzzing x gives xa, in the first *)
(* iteration, in the second, or in both.  There are three contents, with   *)
(* two exec maps and two PM maps.                                          *)
(***************************************************************************)
EXTENDS DedupStore, TLC

N == INSTANCE Names

CONSTANTS c1, c2, c3

AFL(i) == [id |-> i]

s1  == N!ChildName(N!NoName, AFL(1))
s2  == N!ChildName(N!NoName, AFL(2))
x   == N!CrashSiteName(N!NoName, AFL(1), 7)
s1a == N!ChildName(s1, AFL(3))
y   == N!CrashSiteName(s1, AFL(3), 5)
xa  == N!ChildName(x, AFL(4))

MCTestcases  == {s1, s2, s1a, xa}
MCCrashSites == {x, y}
MCContents   == {c1, c2, c3}
MCSlow       == {s1a}

MCParent ==
  [j \in {s1, s2, x} |-> Stage1] @@ [j \in {s1a, y} |-> s1] @@ (xa :> x)

MCIterCnt == [j \in MCTestcases \cup MCCrashSites |-> N!IterationCnt(j)]

MCRank == [j \in MCTestcases \cup MCCrashSites |->
             CASE j = s1 -> 2 [] j = s2 -> 3 [] j = s1a -> 1 [] j = xa -> 4
               [] j = x -> 5 [] j = y -> 6]

MCMap   == [c \in MCContents |-> IF c = c3 THEN 2 ELSE 1]
MCPMMap == [c \in MCContents |-> IF c = c1 THEN 1 ELSE 2]
MCImage == [j \in MCCrashSites |-> j]
=============================================================================
