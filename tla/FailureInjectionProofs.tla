----------------------- MODULE FailureInjectionProofs -----------------------
(***************************************************************************)
(* For any limits of the library, any number of failure points and any     *)
(* luck of the dice: the crash images of a run are of different PM maps,   *)
(* the list file has the ids of the images, in order (but for a last line  *)
(* cut short by a kill) and, when the program exits, all of them, and a    *)
(* reproduction makes no more images than it has lines, unless its failure *)
(* ids run beyond failure_list.                                            *)
(***************************************************************************)
EXTENDS FailureInjection, FiniteSetTheorems, SequenceTheorems, TLAPS

(* Failure ids are numbers, and so is what is left of one cut short.        *)
LEMMA IdsAreNumbers == ASSUME NEW s \in Seq(Ids) PROVE s \in Seq(Nat)
<1>1. Ids \subseteq Nat
  BY FIAssumption DEF Ids
<1> QED BY <1>1, SeqMonotonic

LEMMA FirstDigits ==
  ASSUME NEW a \in Nat, NEW q \in Nat, q > 0 PROVE a \div q \in Nat
OBVIOUS

(* The program before its first failure point and before pmfuzz_init.      *)
LEMMA InitInv == Init => IndInv
<1> SUFFICES ASSUME Init PROVE IndInv
  OBVIOUS
<1>1. MaxPoints \in Nat /\ MaxMap \in Nat
  BY FIAssumption
<1>2. TypeOK
  <2>1. -1 \in -1..(MaxPoints - 1) /\ 0 \in 0..MaxMap
    BY <1>1
  <2>2. DOMAIN images = {} /\ buffer \in Seq(Ids) /\ file \in Seq(Nat)
    BY DEF Init
  <2>3. flist \in [0..(ListSize - 1) -> Nat]
    BY DEF Init
  <2> QED BY <2>1, <2>2, <2>3 DEF Init, TypeOK
<1>3. ImageInv /\ BufferInv /\ ListedInOrder /\ ReplayInv
  BY DEF Init, ImageInv, ImagesDistinct, BufferInv, ListedInOrder,
         WholeLines, ReplayInv
<1> QED BY <1>2, <1>3 DEF IndInv

(* What an image adds: its id to the list, its map to those saved.         *)
LEMMA InjectFailureStep == IndInv /\ InjectFailure => IndInv'
<1> SUFFICES ASSUME IndInv, InjectFailure PROVE IndInv'
  OBVIOUS
<1>a. /\ run = "gen" /\ id + 1 < MaxPoints /\ id' = id + 1
      /\ UNCHANGED <<run, inited, initAt, points, map, file, cut, flist, reps>>
  BY DEF InjectFailure
<1>b. MaxPoints \in Nat
  BY FIAssumption
<1>c. id \in -1..(MaxPoints - 1)
  BY DEF IndInv, TypeOK
<1>d. id \in Int /\ id + 1 \in Ids
  <2>1. id \in Int /\ -1 <= id
    BY <1>b, <1>c
  <2>2. id + 1 \in 0..(MaxPoints - 1)
    BY <1>a, <1>b, <2>1
  <2> QED BY <2>1, <2>2 DEF Ids
<1>1. /\ run = "gen" /\ id' = id + 1 /\ id + 1 \in Ids /\ id \in Int
      /\ UNCHANGED <<run, inited, initAt, points, map, file, cut, flist, reps>>
  BY <1>a, <1>d
<1>2. CASE UNCHANGED <<last, images, buffer>>
  <2>1. TypeOK'
    <3>1. id' \in -1..(MaxPoints - 1)
      BY <1>1, <1>b DEF Ids
    <3> QED BY <1>1, <1>2, <3>1 DEF IndInv, TypeOK
  <2>2. ImageInv'
    BY <1>1, <1>2 DEF IndInv, ImageInv, ImagesDistinct
  <2>3. BufferInv'
    <3>1. \A i \in DOMAIN images : i <= id /\ i \in Ids
      BY <1>1 DEF IndInv, TypeOK, BufferInv
    <3>2. \A i \in DOMAIN images : i <= id + 1
      BY <1>1, <1>b, <3>1 DEF Ids
    <3>3. \A i \in DOMAIN images' : i <= id'
      BY <1>1, <1>2, <3>2
    <3> QED BY <1>2, <3>3 DEF IndInv, BufferInv
  <2>4. ListedInOrder' /\ ReplayInv'
    BY <1>1, <1>2 DEF IndInv, ListedInOrder, WholeLines, ReplayInv
  <2> QED BY <2>1, <2>2, <2>3, <2>4 DEF IndInv
<1>3. CASE /\ map # last /\ last' = map
           /\ images' = [i \in DOMAIN images \cup {id + 1} |->
                           IF i = id + 1 THEN map ELSE images[i]]
           /\ buffer' = Append(buffer, id + 1)
  <2>1. /\ map \in 0..MaxMap /\ last \in 0..MaxMap /\ last < map
        /\ MaxMap \in Nat /\ MaxPoints \in Nat
    BY <1>3, FIAssumption DEF IndInv, TypeOK, ImageInv
  <2>2. /\ DOMAIN images' = DOMAIN images \cup {id + 1}
        /\ images'[id + 1] = map
        /\ \A i \in DOMAIN images : /\ i <= id /\ i \in Ids
                                    /\ images'[i] = images[i]
                                    /\ images[i] \in 0..MaxMap
                                    /\ images[i] <= last
    BY <1>1, <1>3 DEF IndInv, TypeOK, ImageInv, BufferInv, Ids
  <2>3. /\ buffer \in Seq(Ids) /\ buffer' \in Seq(Ids)
        /\ Len(buffer') = Len(buffer) + 1 /\ Len(buffer) \in Nat
        /\ buffer'[Len(buffer) + 1] = id + 1
        /\ \A k \in 1..Len(buffer) : buffer'[k] = buffer[k]
    BY <1>1, <1>3 DEF IndInv, TypeOK
  <2>4. TypeOK'
    BY <1>1, <1>3, <2>1, <2>2, <2>3, FIAssumption DEF IndInv, TypeOK, Ids
  <2>5. ImageInv'
    <3>1. last' = map /\ map' = map
      BY <1>1, <1>3
    <3>2. \A i \in DOMAIN images' : images'[i] <= last'
      BY <2>1, <2>2, <3>1
    <3>3. ImagesDistinct'
      <4>1. ASSUME NEW i \in DOMAIN images', NEW j \in DOMAIN images', i # j
            PROVE  images'[i] # images'[j]
        <5>1. CASE i = id + 1
          BY <2>1, <2>2, <4>1, <5>1
        <5>2. CASE j = id + 1
          BY <2>1, <2>2, <4>1, <5>2
        <5>3. CASE i # id + 1 /\ j # id + 1
          BY <2>2, <4>1, <5>3 DEF IndInv, ImageInv, ImagesDistinct
        <5> QED BY <5>1, <5>2, <5>3
      <4> QED BY <4>1 DEF ImagesDistinct
    <3> QED BY <2>1, <3>1, <3>2, <3>3 DEF ImageInv
  <2>6. BufferInv'
    <3>1. \A k \in 1..Len(buffer) : /\ buffer[k] \in DOMAIN images
                                    /\ buffer[k] \in Ids /\ buffer[k] <= id
      BY <1>1, <2>2 DEF IndInv, BufferInv
    <3>2. \A k \in 1..Len(buffer') : buffer'[k] \in DOMAIN images'
      BY <2>2, <2>3, <3>1
    <3>3. ASSUME NEW k \in 1..Len(buffer'), NEW m \in 1..Len(buffer'), k < m
          PROVE  buffer'[k] < buffer'[m]
      <4>1. k \in 1..Len(buffer)
        BY <2>3, <3>3
      <4>2. CASE m = Len(buffer) + 1
        BY <1>1, <2>3, <3>1, <4>1, <4>2 DEF Ids
      <4>3. CASE m \in 1..Len(buffer)
        BY <2>3, <3>3, <4>1, <4>3 DEF IndInv, BufferInv
      <4> QED BY <2>3, <4>2, <4>3
    <3>4. ASSUME NEW i \in DOMAIN images'
          PROVE  \E k \in 1..Len(buffer') : buffer'[k] = i
      <4>1. CASE i = id + 1
        BY <2>3, <4>1
      <4>2. CASE i \in DOMAIN images
        <5>1. PICK k \in 1..Len(buffer) : buffer[k] = i
          BY <4>2 DEF IndInv, BufferInv
        <5> QED BY <2>3, <5>1
      <4> QED BY <2>2, <4>1, <4>2
    <3>5. \A i \in DOMAIN images' : i <= id'
      BY <1>1, <2>2 DEF Ids
    <3> QED BY <3>2, <3>3, <3>4, <3>5 DEF BufferInv
  <2>7. ListedInOrder' /\ ReplayInv'
    BY <1>1, <2>2 DEF IndInv, ListedInOrder, WholeLines, ReplayInv
  <2> QED BY <2>4, <2>5, <2>6, <2>7 DEF IndInv
<1> QED BY <1>2, <1>3 DEF InjectFailure, LastCopied, Listed

(* The second run reads a prefix of what the first has written, the last   *)
(* number of it cut short or not.                                          *)
LEMMA SecondRunStep ==
  ASSUME IndInv, run = "gen", NEW c \in BOOLEAN, NEW f \in Seq(Nat),
         \A k \in 1..(IF c THEN Len(f) - 1 ELSE Len(f)) :
           k \in 1..Len(buffer) /\ f[k] = buffer[k],
         SecondRun(f, c)
  PROVE  IndInv'
<1>1. /\ file' = f /\ cut' = c /\ flist' = FailureList(f) /\ run' = "rep"
      /\ id' = -1 /\ points' = id
      /\ UNCHANGED <<inited, initAt, map, last, images, buffer, reps>>
  BY DEF SecondRun
<1>2. TypeOK'
  <2>1. \A i \in 0..(ListSize - 1) : FailureList(f)[i] \in Nat
    <3>1. ASSUME NEW i \in 0..(ListSize - 1), i < Len(f)
          PROVE  f[i + 1] % ByteValues \in Nat
      <4>1. f[i + 1] \in Nat
        BY <3>1
      <4> QED BY <4>1, FIAssumption
    <3> QED BY <3>1 DEF FailureList
  <2>2. flist' \in [0..(ListSize - 1) -> Nat]
    BY <1>1, <2>1 DEF FailureList
  <2> QED BY <1>1, <2>2, FIAssumption DEF IndInv, TypeOK
<1>3. ImageInv' /\ BufferInv'
  BY <1>1 DEF IndInv, ImageInv, ImagesDistinct, BufferInv
<1>4. ListedInOrder'
  BY <1>1 DEF IndInv, BufferInv, ListedInOrder, WholeLines
<1>5. ReplayInv'
  BY <1>1 DEF IndInv, ReplayInv, FailureList
<1> QED BY <1>2, <1>3, <1>4, <1>5 DEF IndInv

(* Failure points, flushes, kills and the second run of the library keep   *)
(* the inductive invariant.                                                *)
LEMMA IndStep == IndInv /\ [Next]_vars => IndInv'
<1> SUFFICES ASSUME IndInv, [Next]_vars PROVE IndInv'
  OBVIOUS
<1> USE DEF IndInv, ImageInv, ImagesDistinct, BufferInv, ListedInOrder,
            WholeLines
<1>1. CASE pmfuzz_init
  BY <1>1 DEF pmfuzz_init, TypeOK, ReplayInv
<1>2. CASE Access
  BY <1>2, FIAssumption DEF Access, TypeOK, ReplayInv
<1>3. CASE InjectFailure
  BY <1>3, InjectFailureStep
<1>4. CASE Exit
  <2>1. buffer \in Seq(Nat)
    BY IdsAreNumbers DEF TypeOK
  <2> QED BY <1>4, <2>1, SecondRunStep DEF Exit, Flushed
<1>5. CASE Killed
  <2>1. buffer \in Seq(Ids) /\ buffer \in Seq(Nat)
    BY IdsAreNumbers DEF TypeOK
  <2>2. PICK n \in 0..Len(buffer) :
          \/ SecondRun(SubSeq(buffer, 1, n), FALSE)
          \/ /\ n < Len(buffer)
             /\ \E q \in Tens :
                  SecondRun(Append(SubSeq(buffer, 1, n), buffer[n + 1] \div q),
                            TRUE)
    BY <1>5 DEF Killed
  <2> DEFINE f == SubSeq(buffer, 1, n)
  <2>3. /\ f \in Seq(Nat) /\ Len(f) = n
        /\ \A k \in 1..n : k \in 1..Len(buffer) /\ f[k] = buffer[k]
    BY <2>1
  <2> HIDE DEF f
  <2>4. CASE SecondRun(f, FALSE)
    BY <1>5, <2>3, <2>4, SecondRunStep DEF Killed
  <2>5. ASSUME NEW q \in Tens, n < Len(buffer),
               SecondRun(Append(f, buffer[n + 1] \div q), TRUE)
        PROVE  IndInv'
    <3>1. buffer[n + 1] \div q \in Nat
      <4>1. buffer[n + 1] \in Nat /\ q \in Nat /\ q > 0
        BY <2>1, <2>5, FIAssumption
      <4> QED BY <4>1, FirstDigits
    <3> DEFINE g == Append(f, buffer[n + 1] \div q)
    <3>2. /\ g \in Seq(Nat) /\ Len(g) - 1 = n
          /\ \A k \in 1..n : g[k] = f[k]
      BY <2>3, <3>1
    <3> HIDE DEF g
    <3>3. SecondRun(g, TRUE) /\ run = "gen"
      BY <1>5, <2>5 DEF g, Killed
    <3> QED BY <2>3, <3>2, <3>3, SecondRunStep
  <2> QED BY <2>2, <2>4, <2>5 DEF f
<1>6. CASE Reproduce
  <2>1. /\ id + 1 \in Ids /\ id + 1 \in -1..(MaxPoints - 1)
        /\ id' = id + 1 /\ run = "rep"
        /\ UNCHANGED <<run, inited, initAt, points, map, last, images, buffer,
                      file, cut, flist>>
    BY <1>6, FIAssumption DEF Reproduce, TypeOK, Ids
  <2>2. PICK listed \in Says(id + 1) :
          reps' = IF inited /\ id + 1 > initAt /\ listed
                    THEN reps \cup {id + 1} ELSE reps
    BY <1>6 DEF Reproduce
  <2>3. TypeOK' /\ (ImageInv /\ BufferInv /\ ListedInOrder)'
    BY <2>1, <2>2 DEF TypeOK
  <2>4. ASSUME NEW i \in reps', i < ListSize
        PROVE  i < Len(file')
    <3>1. CASE i \in reps
      BY <2>1, <2>4, <3>1 DEF ReplayInv
    <3>2. CASE i = id + 1 /\ listed
      <4>1. i \in 0..(ListSize - 1)
        BY <2>1, <2>4, <3>2, FIAssumption DEF Ids
      <4>2. flist[i] # 0
        BY <2>2, <2>4, <3>2 DEF Says
      <4> QED BY <2>1, <4>1, <4>2 DEF ReplayInv
    <3> QED BY <2>2, <2>4, <3>1, <3>2
  <2> QED BY <2>1, <2>3, <2>4 DEF ReplayInv
<1>7. CASE Over
  BY <1>7 DEF Over, TypeOK, ReplayInv
<1>8. CASE UNCHANGED vars
  BY <1>8 DEF vars, TypeOK, ReplayInv
<1> QED BY <1>1, <1>2, <1>3, <1>4, <1>5, <1>6, <1>7, <1>8 DEF Next

(* The inductive invariant behind the theorems on failure injection.       *)
THEOREM Invariance == Spec => []IndInv
<1> QED BY InitInv, IndStep, PTL DEF Spec

(* The crash images of a run are of different PM maps.                     *)
THEOREM ImagesAreDistinct == Spec => []ImagesDistinct
<1>1. IndInv => ImagesDistinct
  BY DEF IndInv, ImageInv
<1> QED BY <1>1, Invariance, PTL

(* The list file has ids of images only, in order, but for a last line     *)
(* that a kill has cut short.                                              *)
THEOREM ListIsOrdered == Spec => []ListedInOrder
<1>1. IndInv => ListedInOrder
  BY DEF IndInv
<1> QED BY <1>1, Invariance, PTL

(* A program that exits leaves a list of all its images.                   *)
THEOREM ListIsComplete == Spec => ListComplete
<1>1. IndInv /\ [Next]_vars
        => [Exit => \A i \in DOMAIN images :
                      \E k \in 1..Len(file') : file'[k] = i]_vars
  BY DEF IndInv, BufferInv, Exit, SecondRun, Flushed
<1> QED BY <1>1, Invariance, PTL DEF Spec, ListComplete

(* A reproduction makes no more images than the list has lines, as far as  *)
(* its failure ids index failure_list.                                     *)
THEOREM ReproducedBounded == Spec => []FewReproduced
<1>1. IndInv => FewReproduced
  <2> DEFINE inside == {i \in reps : i < ListSize}
  <2> SUFFICES ASSUME IndInv PROVE Cardinality(inside) <= Len(file)
    BY DEF FewReproduced
  <2>1. Len(file) \in Nat /\ inside \subseteq 0..(Len(file) - 1)
    <3>1. Len(file) \in Nat /\ \A i \in inside : i \in Nat /\ i < Len(file)
      BY FIAssumption DEF IndInv, TypeOK, ReplayInv, Ids
    <3> QED BY <3>1
  <2>2. /\ IsFiniteSet(0..(Len(file) - 1))
        /\ Cardinality(0..(Len(file) - 1)) = Len(file)
    <3>1. 0 \in Int /\ Len(file) - 1 \in Int
      BY <2>1
    <3>2. /\ IsFiniteSet(0..(Len(file) - 1))
          /\ Cardinality(0..(Len(file) - 1)) =
               IF 0 > Len(file) - 1 THEN 0 ELSE (Len(file) - 1) - 0 + 1
      BY <3>1, FS_Interval
    <3> QED BY <2>1, <3>2
  <2>3. Cardinality(inside) <= Cardinality(0..(Len(file) - 1))
    BY <2>1, <2>2, FS_Subset
  <2> QED BY <2>2, <2>3
<1> QED BY <1>1, Invariance, PTL
=============================================================================
