-------------------------- MODULE FailureInjection --------------------------
(***************************************************************************)
(* Failure injection in the instrumented program (include/libpmfuzz.c):    *)
(* pmfuzz_init, pmfuzz_inject_failure and pmfuzz_term.                     *)
(*                                                                         *)
(* The program runs once with FI_MODE=IMG_GEN, saving crash images at the  *)
(* failure points the library selects and listing their ids in the file    *)
(* FAILURE_LIST; then it runs again with FI_MODE=IMG_REP to reproduce      *)
(* them.  The program is deterministic: its second run passes the failure  *)
(* points of the first and calls pmfuzz_init at the same place.  Either    *)
(* run may be killed (a crash of the program, or the 30 second timeout of  *)
(* run_failure_inj).                                                       *)
(*                                                                         *)
(* The PM map is a number here: all the library does is compare it with    *)
(* the map at the last image, and it never decreases (PMMap, MapGrows).    *)
(***************************************************************************)
EXTENDS Integers, FiniteSets, Sequences

CONSTANTS
  GenAll,      \* is GEN_ALL_CS set?
  AllPoints,   \* is IMG_CREAT_FINJ set?
  Below,       \* with GEN_ALL_CS, ids are selected below this one (100),
  Stride,      \* and only its multiples (5)
  MaxDumpId,   \* MAX_CRASH_DUMP_ID
  ListSize,    \* MAX_FAILURE_COUNT: elements of failure_list
  ByteValues,  \* 256: what a uint8_t element of failure_list can hold
  Tens,        \* 10, 100, ...: an id divided by one has lost its last digits
  MaxPoints,   \* bound: failure points of a run
  MaxMap       \* bound: changes of the PM map in a run

ASSUME FIAssumption ==
  /\ GenAll \in BOOLEAN /\ AllPoints \in BOOLEAN
  /\ Below \in Nat /\ Stride \in Nat \ {0} /\ MaxDumpId \in Nat
  /\ ListSize \in Nat \ {0} /\ ByteValues \in Nat \ {0}
  /\ Tens \subseteq Nat \ {0, 1}
  /\ MaxPoints \in Nat /\ MaxMap \in Nat

VARIABLES
  run,     \* "gen" or "rep", the two runs; "over" when both have ended
  inited,  \* pmfuzz_init_complete
  id,      \* __pmfuzz_failure_id
  initAt,  \* the failure id at which the first run called pmfuzz_init
  points,  \* the last failure id of the first run
  map,     \* *__pmfuzz_area_ptr
  last,    \* *__last_pmfuzz_area_ptr
  images,  \* the crash images of the first run: from ids to the map saved
  buffer,  \* ids written to failure_list_file
  file,    \* the numbers that have reached the file, one per line
  cut,     \* has the last of them lost digits?
  flist,   \* failure_list
  reps     \* ids of the images the second run has saved

vars == <<run, inited, id, initAt, points, map, last, images, buffer, file,
          cut, flist, reps>>

Ids == 0..(MaxPoints - 1)

Init ==
  /\ run = "gen" /\ inited = FALSE /\ id = -1 /\ initAt = -1 /\ points = -1
  /\ map = 0 /\ last = 0
  /\ images = <<>> /\ buffer = <<>> /\ file = <<>> /\ cut = FALSE
  /\ flist = [i \in 0..(ListSize - 1) |-> 0]
  /\ reps = {}

(* The library is initialised before the first failure point or later.     *)
pmfuzz_init ==
  /\ run = "gen" /\ ~inited
  /\ inited' = TRUE /\ initAt' = id
  /\ UNCHANGED <<run, id, points, map, last, images, buffer, file,
                 cut, flist, reps>>

(* The program accesses PM at a new place.                                 *)
Access ==
  /\ run = "gen" /\ map < MaxMap
  /\ map' = map + 1
  /\ UNCHANGED <<run, inited, id, initAt, points, last, images, buffer, file,
                 cut, flist, reps>>

(* save_img: what the dice and the environment may decide about failure    *)
(* point i.  The odds are 10000/i in 10000: certain for 1, none beyond     *)
(* MaxDumpId.                                                              *)
Selections(i) ==
  CASE AllPoints          -> {TRUE}
    [] GenAll /\ ~AllPoints -> {i < Below /\ i % Stride = 0}
    [] OTHER ->
         IF i = 0 \/ i > MaxDumpId THEN {FALSE}
         ELSE IF i = 1 THEN {TRUE} ELSE BOOLEAN

(* memcpy of the map at an image.  Its mutant forgets it.                  *)
LastKept   == last
LastCopied == map

(* The failure id goes to failure_list_file.  Its mutants: not at all, and *)
(* to the front of it.                                                     *)
NotListed(i)   == buffer
ListedFirst(i) == <<i>> \o buffer
Listed(i)      == Append(buffer, i)

(* pmfuzz_inject_failure in the first run.                                 *)
InjectFailure ==
  /\ run = "gen" /\ id + 1 < MaxPoints
  /\ id' = id + 1
  /\ \E save_img \in Selections(id + 1) :
       IF inited /\ save_img /\ map # last
         THEN /\ last' = LastCopied
              /\ images' = [i \in DOMAIN images \cup {id + 1} |->
                              IF i = id + 1 THEN map ELSE images[i]]
              /\ buffer' = Listed(id + 1)
         ELSE UNCHANGED <<last, images, buffer>>
  /\ UNCHANGED <<run, inited, initAt, points, map, file, cut, flist, reps>>

(* The second run reads the file: one element of failure_list per line.    *)
(* Its mutant misses the end of the file.                                  *)
EndMissed(f) ==
  [i \in 0..(ListSize - 1) |->
     IF i < Len(f) THEN f[i + 1] % ByteValues
     ELSE IF f = <<>> THEN 0 ELSE f[Len(f)] % ByteValues]

FailureList(f) ==
  [i \in 0..(ListSize - 1) |->
     IF i < Len(f) THEN f[i + 1] % ByteValues ELSE 0]

SecondRun(f, c) ==
  /\ run' = "rep" /\ id' = -1 /\ points' = id
  /\ file' = f /\ cut' = c
  /\ flist' = FailureList(f)
  /\ UNCHANGED <<inited, initAt, map, last, images, buffer, reps>>

(* pmfuzz_term, or exit, flushes the file.                                 *)
Flushed == buffer

Exit == run = "gen" /\ SecondRun(Flushed, FALSE)

(* A program that is killed leaves a prefix of the bytes it has written:   *)
(* whole lines and, it may be, the first digits of one more.               *)
Killed ==
  /\ run = "gen"
  /\ \E n \in 0..Len(buffer) :
       \/ SecondRun(SubSeq(buffer, 1, n), FALSE)
       \/ /\ n < Len(buffer)
          /\ \E q \in Tens :
               /\ buffer[n + 1] \div q # 0
               /\ SecondRun(Append(SubSeq(buffer, 1, n), buffer[n + 1] \div q),
                            TRUE)

(* What failure_list says of failure point i.  The index is not compared   *)
(* with the size of the array: what is read beyond it may be anything.     *)
Says(i) == IF i < ListSize THEN {flist[i] # 0} ELSE BOOLEAN

(* pmfuzz_inject_failure in the second run.                                *)
Reproduce ==
  /\ run = "rep" /\ id < points
  /\ id' = id + 1
  /\ \E listed \in Says(id + 1) :
       reps' = IF inited /\ id + 1 > initAt /\ listed THEN reps \cup {id + 1}
                                                      ELSE reps
  /\ UNCHANGED <<run, inited, initAt, points, map, last, images, buffer, file,
                 cut, flist>>

(* The second run ends, or is killed.                                      *)
Over ==
  /\ run = "rep"
  /\ run' = "over"
  /\ UNCHANGED <<inited, id, initAt, points, map, last, images, buffer, file,
                 cut, flist, reps>>

Next ==
  \/ pmfuzz_init \/ Access \/ InjectFailure \/ Exit \/ Killed
  \/ Reproduce \/ Over

Spec == Init /\ [][Next]_vars
-----------------------------------------------------------------------------
TypeOK ==
  /\ run \in {"gen", "rep", "over"} /\ inited \in BOOLEAN
  /\ id \in -1..(MaxPoints - 1) /\ initAt \in -1..(MaxPoints - 1)
  /\ points \in -1..(MaxPoints - 1)
  /\ map \in 0..MaxMap /\ last \in 0..MaxMap
  /\ DOMAIN images \subseteq Ids
  /\ \A i \in DOMAIN images : images[i] \in 0..MaxMap
  /\ buffer \in Seq(Ids) /\ file \in Seq(Nat) /\ cut \in BOOLEAN
  /\ flist \in [0..(ListSize - 1) -> Nat]
  /\ reps \subseteq Ids

(* No two crash images of a run are of the same PM map, whatever the dice  *)
(* say in between.                                                         *)
ImagesDistinct ==
  \A i, j \in DOMAIN images : i # j => images[i] # images[j]

(* "the falure ids that generate dumps are written to that file, one per   *)
(* line": in the order of the dumps, even if the program is killed later,  *)
(* but for a last line that the kill has cut short.                        *)
WholeLines == 1..(IF cut THEN Len(file) - 1 ELSE Len(file))

ListedInOrder ==
  /\ \A k \in WholeLines : file[k] \in DOMAIN images
  /\ \A k, m \in WholeLines : k < m => file[k] < file[m]

(* A program that exits has every image in the list.                       *)
ListComplete ==
  [][Exit => \A i \in DOMAIN images :
               \E k \in 1..Len(file') : file'[k] = i]_vars

(* A reproduction makes no more images than the list has lines, as far as  *)
(* its failure ids index failure_list.                                     *)
FewReproduced == Cardinality({i \in reps : i < ListSize}) <= Len(file)

-----------------------------------------------------------------------------
(* The inductive invariant.                                                *)

(* Every image is of an earlier map than the one before it.                *)
ImageInv ==
  /\ last <= map
  /\ \A i \in DOMAIN images : images[i] <= last
  /\ ImagesDistinct

(* What has been written to the list is the ids of the images, in order.   *)
BufferInv ==
  /\ run = "gen" => \A i \in DOMAIN images : i <= id
  /\ \A k \in 1..Len(buffer) : buffer[k] \in DOMAIN images
  /\ \A k, m \in 1..Len(buffer) : k < m => buffer[k] < buffer[m]
  /\ \A i \in DOMAIN images : \E k \in 1..Len(buffer) : buffer[k] = i

(* Only the first elements of failure_list, one per line, are not zero.    *)
ReplayInv ==
  /\ run # "gen" => \A i \in 0..(ListSize - 1) : flist[i] # 0 => i < Len(file)
  /\ \A i \in reps : i < ListSize => i < Len(file)
  /\ run = "gen" => reps = {}

IndInv == TypeOK /\ ImageInv /\ BufferInv /\ ListedInOrder /\ ReplayInv
-----------------------------------------------------------------------------
(* pmfuzz_inject_failure, IMG_REP: "Only the failure ID in the list will   *)
(* lead to an image".                                                      *)
OnlyListed == \A i \in reps : \E k \in 1..Len(file) : file[k] = i
=============================================================================
