---------------------------- MODULE NamesProofs ----------------------------
(***************************************************************************)
(* The names that stage 1 and stage 2 make stay apart and lead back to     *)
(* where they come from, for all ids and any number of generations.        *)
(***************************************************************************)
EXTENDS Names, TLAPS

Entries == [id : Ids]

(* A name is not empty, and neither is a generation of it.                 *)
LEMMA NameShape ==
  ASSUME NEW n \in Names
  PROVE  /\ n \in Seq(Generations) /\ Len(n) \in Nat /\ Len(n) >= 1
         /\ \A i \in 1..Len(n) : n[i] \in Seq(Ids) /\ Len(n[i]) >= 1
         /\ LastOf(n) \in Seq(Ids) /\ Len(LastOf(n)) >= 1
<1>1. n \in Seq(Generations) /\ n # <<>>  BY DEF Names
<1>2. Len(n) \in Nat /\ Len(n) >= 1  BY <1>1
<1>3. \A i \in 1..Len(n) : n[i] \in Generations  BY <1>1
<1>4. \A g \in Generations : g \in Seq(Ids) /\ Len(g) >= 1
  BY DEF Generations
<1> QED  BY <1>1, <1>2, <1>3, <1>4 DEF LastOf

(* The same with the empty name, of which stage 1 makes its names.         *)
LEMMA AnyName ==
  ASSUME NEW p \in Names \cup {NoName}
  PROVE  p \in Seq(Generations) /\ Len(p) \in Nat
<1>1. CASE p \in Names  BY <1>1, NameShape
<1>2. CASE p = NoName
  <2>1. <<>> \in Seq(Generations) /\ Len(<<>>) = 0  OBVIOUS
  <2> QED  BY <2>1, <1>2 DEF NoName
<1> QED  BY <1>1, <1>2

(* Replacing the last generation of a name.                                *)
LEMMA LastReplaced ==
  ASSUME NEW n \in Names, NEW g \in Generations
  PROVE  LET m == [n EXCEPT ![Len(n)] = g] IN
         /\ m \in Names /\ Len(m) = Len(n) /\ LastOf(m) = g
         /\ \A i \in 1..Len(n) : i # Len(n) => m[i] = n[i]
<1> DEFINE m == [n EXCEPT ![Len(n)] = g]
<1>1. n \in Seq(Generations) /\ Len(n) \in Nat /\ Len(n) >= 1  BY NameShape
<1>2. m \in Seq(Generations) /\ Len(m) = Len(n)  BY <1>1
<1>3. m # <<>>  BY <1>1, <1>2
<1>4. m[Len(n)] = g  BY <1>1
<1>5. \A i \in 1..Len(n) : i # Len(n) => m[i] = n[i]  BY <1>1
<1> QED  BY <1>2, <1>3, <1>4, <1>5 DEF Names, LastOf

(* A child's name is one of a testcase, leads back to its parent with      *)
(* get_testcase_parent, and counts one iteration more: what Stage2 and     *)
(* DedupStore assume of a testcase.                                        *)
THEOREM ChildLeadsToParent ==
  ASSUME NEW p \in Names \cup {NoName}, NEW e \in Entries
  PROVE  /\ ChildName(p, e) \in TestcaseNames
         /\ GetTestcaseParent(ChildName(p, e)) = p
         /\ IterationCnt(ChildName(p, e)) = Len(p) + 1
         /\ Lineage(ChildName(p, e)) = Lineage(p) \cup {e.id}
<1> DEFINE g == <<e.id>>
           c == ChildName(p, e)
<1>1. g \in Generations /\ Len(g) = 1 /\ g[1] = e.id
  BY DEF Entries, Generations, Ids
<1>2. p \in Seq(Generations) /\ Len(p) \in Nat  BY AnyName
<1>3. c = p \o <<g>>  BY DEF ChildName, CleanTcName
<1>4. c \in Seq(Generations) /\ Len(c) = Len(p) + 1  BY <1>1, <1>2, <1>3
<1>5. c[Len(c)] = g /\ \A i \in 1..Len(p) : c[i] = p[i]
  BY <1>1, <1>2, <1>3
<1>6. c \in TestcaseNames
  BY <1>1, <1>2, <1>4, <1>5 DEF TestcaseNames, Names, LastOf
<1>7. SubSeq(c, 1, Len(c) - 1) = p  BY <1>1, <1>2, <1>3, <1>4
<1>8. GetTestcaseParent(c) = p
  BY <1>1, <1>5, <1>7 DEF GetTestcaseParent, LastOf, FrontOf
<1>9. IterationCnt(c) = Len(p) + 1  BY <1>2, <1>4 DEF IterationCnt, AncestorCnt
<1>10. Lineage(c) = Lineage(p) \cup {e.id}
  <2>1. \A i \in 1..Len(p) : c[i][1] = p[i][1]  BY <1>5
  <2>2. c[Len(p) + 1][1] = e.id  BY <1>1, <1>4, <1>5
  <2>3. 1..Len(c) = (1..Len(p)) \cup {Len(p) + 1}  BY <1>2, <1>4
  <2> HIDE DEF c
  <2> QED  BY <2>1, <2>2, <2>3 DEF Lineage
<1> QED  BY <1>6, <1>8, <1>9, <1>10

(* The name of a crash site is never one of a testcase; it counts the same *)
(* iterations and has the same lineage as the job whose image it is.       *)
THEOREM CrashSiteKeepsIteration ==
  ASSUME NEW p \in Names, NEW e \in Entries, NEW f \in Ids
  PROVE  LET x == CrashSiteName(p, e, f) IN
         /\ x \in CrashSiteNames
         /\ LastOf(x) = LastOf(p) \o <<e.id, f>>
         /\ IterationCnt(x) = IterationCnt(p)
         /\ Lineage(x) = Lineage(p)
         /\ \A i \in 1..Len(p) : i # Len(p) => x[i] = p[i]
         /\ Len(x) = Len(p)
<1> DEFINE g == LastOf(p) \o <<e.id, f>>
           x == CrashSiteName(p, e, f)
<1>1. /\ p \in Seq(Generations) /\ Len(p) \in Nat /\ Len(p) >= 1
      /\ LastOf(p) \in Seq(Ids) /\ Len(LastOf(p)) >= 1
  BY NameShape
<1>2. <<e.id, f>> \in Seq(Ids)  BY DEF Entries
<1>3. g \in Seq(Ids) /\ Len(g) = Len(LastOf(p)) + 2 /\ g[1] = LastOf(p)[1]
  BY <1>1, <1>2
<1>4. g \in Generations /\ Len(g) > 1  BY <1>1, <1>3 DEF Generations
<1>5. x = [p EXCEPT ![Len(p)] = g]
  <2>1. p # NoName  BY DEF Names, NoName
  <2> QED  BY <2>1 DEF CrashSiteName, LastOf
<1> HIDE DEF g, x
<1>6. /\ x \in Names /\ Len(x) = Len(p) /\ LastOf(x) = g
      /\ \A i \in 1..Len(p) : i # Len(p) => x[i] = p[i]
  BY <1>4, <1>5, LastReplaced
<1>7. x \in CrashSiteNames  BY <1>4, <1>6 DEF CrashSiteNames
<1>8. \A i \in 1..Len(p) : x[i][1] = p[i][1]
  BY <1>1, <1>3, <1>6 DEF LastOf
<1>9. Lineage(x) = Lineage(p)  BY <1>6, <1>8 DEF Lineage
<1>10. IterationCnt(x) = IterationCnt(p)  BY <1>6 DEF IterationCnt, AncestorCnt
<1> QED  BY <1>6, <1>7, <1>9, <1>10 DEF x, g

(* The same of a crash site of stage 1.                                    *)
THEOREM Stage1CrashSite ==
  ASSUME NEW e \in Entries, NEW f \in Ids
  PROVE  LET x == CrashSiteName(NoName, e, f) IN
         x \in CrashSiteNames /\ IterationCnt(x) = 1 /\ Lineage(x) = {e.id}
<1> DEFINE g == <<e.id, f>>
<1>1. g \in Generations /\ Len(g) = 2 /\ g[1] = e.id
  BY DEF Entries, Generations
<1>2. <<g>> \in Seq(Generations) /\ Len(<<g>>) = 1 /\ <<g>>[1] = g  BY <1>1
<1>3. CrashSiteName(NoName, e, f) = <<g>>  BY DEF CrashSiteName
<1>4. <<g>> \in CrashSiteNames
  BY <1>1, <1>2 DEF CrashSiteNames, Names, LastOf
<1>5. IterationCnt(<<g>>) = 1  BY <1>2 DEF IterationCnt, AncestorCnt
<1>6. Lineage(<<g>>) = {e.id}
  <2>1. 1..Len(<<g>>) = {1}  BY <1>2
  <2>2. <<g>>[1][1] = e.id  BY <1>1, <1>2
  <2> QED  BY <2>1, <2>2 DEF Lineage
<1> QED  BY <1>3, <1>4, <1>5, <1>6

(* No two results get the same name: AFL's ids are distinct in a queue     *)
(* directory, and so are the failure ids of one run.                       *)
THEOREM ChildNamesDistinct ==
  ASSUME NEW p \in Names \cup {NoName}, NEW q \in Names \cup {NoName},
         NEW d \in Entries, NEW e \in Entries,
         ChildName(p, d) = ChildName(q, e)
  PROVE  p = q /\ d.id = e.id
<1>1. p = q  BY ChildLeadsToParent
<1>2. p \in Seq(Generations) /\ <<d.id>> \in Generations
         /\ <<e.id>> \in Generations
  BY AnyName DEF Entries, Generations
<1>3. p \o <<<<d.id>>>> = p \o <<<<e.id>>>>
  BY <1>1 DEF ChildName, CleanTcName
<1>4. (p \o <<<<d.id>>>>)[Len(p) + 1] = <<d.id>>
         /\ (p \o <<<<e.id>>>>)[Len(p) + 1] = <<e.id>>
  BY <1>2
<1>5. <<d.id>> = <<e.id>>  BY <1>3, <1>4
<1> QED  BY <1>1, <1>5

(* The same of crash sites.                                                *)
THEOREM CrashSiteNamesDistinct ==
  ASSUME NEW p \in Names, NEW q \in Names, NEW d \in Entries,
         NEW e \in Entries, NEW f \in Ids, NEW h \in Ids,
         CrashSiteName(p, d, f) = CrashSiteName(q, e, h)
  PROVE  p = q /\ d.id = e.id /\ f = h
<1> DEFINE a == LastOf(p)
           b == LastOf(q)
           x == CrashSiteName(p, d, f)
<1>0. x = CrashSiteName(q, e, h)  OBVIOUS
<1>a. Len(x) = Len(p) /\ LastOf(x) = a \o <<d.id, f>>
         /\ \A i \in 1..Len(p) : i # Len(p) => x[i] = p[i]
  BY CrashSiteKeepsIteration
<1>b. Len(x) = Len(q) /\ LastOf(x) = b \o <<e.id, h>>
         /\ \A i \in 1..Len(q) : i # Len(q) => x[i] = q[i]
  BY <1>0, CrashSiteKeepsIteration
<1>1. Len(p) = Len(q) /\ a \o <<d.id, f>> = b \o <<e.id, h>>
  BY <1>a, <1>b
<1>2. \A i \in 1..Len(p) : i # Len(p) => p[i] = q[i]
  BY <1>1, <1>a, <1>b
<1>3. /\ p \in Seq(Generations) /\ Len(p) \in Nat /\ Len(p) >= 1
      /\ a \in Seq(Ids)
  BY NameShape
<1>4. q \in Seq(Generations) /\ b \in Seq(Ids)  BY NameShape
<1>5. d.id \in Ids /\ e.id \in Ids  BY DEF Entries
<1> DEFINE u == a \o <<d.id, f>>
           v == b \o <<e.id, h>>
<1>6. /\ Len(u) = Len(a) + 2 /\ u[Len(a) + 1] = d.id /\ u[Len(a) + 2] = f
      /\ \A i \in 1..Len(a) : u[i] = a[i]
  BY <1>3, <1>5
<1>7. /\ Len(v) = Len(b) + 2 /\ v[Len(b) + 1] = e.id /\ v[Len(b) + 2] = h
      /\ \A i \in 1..Len(b) : v[i] = b[i]
  BY <1>4, <1>5
<1>8. Len(a) = Len(b)
  <2>1. Len(a) \in Nat /\ Len(b) \in Nat  BY <1>3, <1>4
  <2> HIDE DEF a, b
  <2> QED  BY <2>1, <1>1, <1>6, <1>7
<1>9. d.id = e.id /\ f = h /\ \A i \in 1..Len(a) : a[i] = b[i]
  BY <1>1, <1>6, <1>7, <1>8
<1>10. a = b  BY <1>3, <1>4, <1>8, <1>9
<1>11. \A i \in 1..Len(p) : p[i] = q[i]  BY <1>1, <1>2, <1>10 DEF LastOf
<1>12. p = q  BY <1>1, <1>3, <1>4, <1>11
<1> QED  BY <1>9, <1>12

(* In a store where testcases have their images and crash sites have       *)
(* theirs, get_parent_img finds the image of a name whenever there is one: *)
(* its "Both images cannot exists" is never reached.                       *)
THEOREM ParentImageFound ==
  ASSUME NEW n \in Names, NEW dir,
         \A f \in dir : f.kind = "pm_cmpr_pool" => f.name \in TestcaseNames,
         \A f \in dir : f.kind = "crash_cmpr_site" => f.name \in CrashSiteNames
  PROVE  GetParentImg(n, dir, TRUE) = dir \cap ImagesOf(n)
<1> DEFINE c == File("crash_cmpr_site", n)
           i == File("pm_cmpr_pool", n)
<1>1. ImagesOf(n) = {c, i}  BY DEF ImagesOf
<1>2. ~(c \in dir /\ i \in dir)
  <2>1. c.kind = "crash_cmpr_site" /\ c.name = n  BY DEF File
  <2>2. i.kind = "pm_cmpr_pool" /\ i.name = n  BY DEF File
  <2>3. ~(n \in TestcaseNames /\ n \in CrashSiteNames)
    <3>1. n \in TestcaseNames => Len(LastOf(n)) = 1  BY DEF TestcaseNames
    <3>2. n \in CrashSiteNames => Len(LastOf(n)) > 1  BY DEF CrashSiteNames
    <3>3. ~(1 > 1)  OBVIOUS
    <3> QED  BY <3>1, <3>2, <3>3
  <2> QED  BY <2>1, <2>2, <2>3
<1> HIDE DEF c, i
<1>3. \/ dir \cap ImagesOf(n) = {}
      \/ dir \cap ImagesOf(n) = {c}
      \/ dir \cap ImagesOf(n) = {i}
  BY <1>1, <1>2
<1>4. ASSUME dir \cap ImagesOf(n) = {}
      PROVE  GetParentImg(n, dir, TRUE) = {}
  BY <1>4 DEF GetParentImg
<1>5. ASSUME NEW g, dir \cap ImagesOf(n) = {g}
      PROVE  GetParentImg(n, dir, TRUE) = {g}
  BY <1>5 DEF GetParentImg
<1> QED  BY <1>3, <1>4, <1>5

(* select_ids accepts no testcase whose parent it rejects, and treats a    *)
(* crash site like the job whose image it is.                              *)
THEOREM SelectionInherited ==
  ASSUME NEW p \in Names, NEW e \in Entries, NEW f \in Ids,
         NEW selectIds \in SUBSET Ids
  PROVE  /\ ShouldUse(ChildName(p, e), selectIds) => ShouldUse(p, selectIds)
         /\ ShouldUse(CrashSiteName(p, e, f), selectIds)
              <=> ShouldUse(p, selectIds)
<1>1. Lineage(p) \subseteq Lineage(ChildName(p, e))  BY ChildLeadsToParent
<1>2. Lineage(CrashSiteName(p, e, f)) = Lineage(p)
  BY CrashSiteKeepsIteration
<1> QED  BY <1>1, <1>2 DEF ShouldUse
=============================================================================
