------------------------------- MODULE Names -------------------------------
(***************************************************************************)
(* The names PMFuzz gives to testcases, crash sites and their files:       *)
(* handlers/name_handler.py, and the places that make names.               *)
(*                                                                         *)
(* A name is a list of generations, separated by commas, and a generation  *)
(* a list of ids, separated by dots:                                       *)
(*     id=10.id=16,id=12.id=516,id=13  is  <<<<10,16>>, <<12,516>>, <<13>>>> *)
(* and a file a name with a kind, the prefix and extension put around it.  *)
(***************************************************************************)
EXTENDS Naturals, Sequences

Ids         == Nat
Generations == Seq(Ids) \ {<<>>}

(* What the regular expressions let through, without prefix and extension. *)
Names  == Seq(Generations) \ {<<>>}
NoName == <<>>

LastOf(s)  == s[Len(s)]
FrontOf(s) == SubSeq(s, 1, Len(s) - 1)

(* The first id of each generation: those after a dot are of crash images. *)
GetLineage(n)   == [i \in 1..Len(n) |-> n[i][1]]
Lineage(n)      == {n[i][1] : i \in 1..Len(n)}
AncestorCnt(n)  == Len(n) - 1
IterationCnt(n) == AncestorCnt(n) + 1

(* A name without its last id; empty when that was the only one.           *)
GetTestcaseParent(n) ==
  IF Len(LastOf(n)) > 1
    THEN [n EXCEPT ![Len(n)] = FrontOf(@)]
    ELSE FrontOf(n)

(* Is m, written out, the beginning of n?  (Ids have a fixed width.)       *)
StartsWith(n, m) ==
  /\ Len(m) <= Len(n)
  /\ FrontOf(m) = SubSeq(n, 1, Len(m) - 1)
  /\ Len(LastOf(m)) <= Len(n[Len(m)])
  /\ LastOf(m) = SubSeq(n[Len(m)], 1, Len(LastOf(m)))
-----------------------------------------------------------------------------
(* Making names.  AFL's id:000012,src:000003,... becomes id=000012.        *)
CleanTcName(entry) == <<<<entry.id>>>>

(* What AFL saves while it fuzzes p: one generation more.  In stage 1      *)
(* there is no p.                                                          *)
ChildName(p, entry) == p \o CleanTcName(entry)

(* The image of failure f, injected while the queue entry runs on the      *)
(* image of p: two ids more, after dots.  In stage 1 the image is a        *)
(* temporary one, whose name is cut off.                                   *)
CrashSiteName(p, entry, f) ==
  IF p = NoName
    THEN <<<<entry.id, f>>>>
    ELSE [p EXCEPT ![Len(p)] = @ \o <<entry.id, f>>]

(* Stage.should_use_tc, should_use_cs: pmfuzz.stage.2.select_ids.          *)
ShouldUse(n, selectIds) == selectIds = {} \/ Lineage(n) \subseteq selectIds
-----------------------------------------------------------------------------
(* The files of a name.  The "clean" entry of get_metadata_files is the    *)
(* name itself.                                                            *)
MetadataKinds ==
  {"testcase", "min_testcase", "pm_map", "map", "crash_site",
   "crash_cmpr_site", "pm_pool", "pm_cmpr_pool"}

File(kind, n) == [kind |-> kind, name |-> n]

GetMetadataFiles(f, deleted) ==
  {File(k, f.name) :
     k \in MetadataKinds \cup (IF deleted THEN {"deleted"} ELSE {})}

(* The image of a testcase, or of its parent: none (an abort) when there   *)
(* are both, or neither, in the directory.                                 *)
ImagesOf(n) == {File("crash_cmpr_site", n), File("pm_cmpr_pool", n)}

GetParentImg(n, dir, isparent) ==
  LET there == dir \cap ImagesOf(IF isparent THEN n ELSE GetTestcaseParent(n))
  IN  IF \E f \in there : there = {f} THEN there ELSE {}
-----------------------------------------------------------------------------
(* The shapes of the names that stage 1 and stage 2 make.                  *)
TestcaseNames  == {n \in Names : Len(LastOf(n)) = 1}
CrashSiteNames == {n \in Names : Len(LastOf(n)) > 1}
=============================================================================
