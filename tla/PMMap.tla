------------------------------- MODULE PMMap -------------------------------
(***************************************************************************)
(* The PM access map of libpmfuzz (include/libpmfuzz.c): pmfuzz_ro,        *)
(* pmfuzz_wo and pmfuzz_rw, called by the instrumented program, and        *)
(* update_loc.                                                             *)
(*                                                                         *)
(* With ENABLE_PM_PATH (or UNFOCUSSED_MODE) an element of the map is a     *)
(* byte that counts up to COUNTER_CAP.  In the baseline it is a shift      *)
(* register of 256 bits, and there are 32 times fewer of them.  In either  *)
(* mode the cell of an access is its location XOR the previous one shifted *)
(* to the right by one, as for the edges of AFL.                           *)
(*                                                                         *)
(* The size of the map is a power of two (MAP_SIZE of AFL++ is 2^18), so a *)
(* location is the set of the positions of its one bits: XOR is symmetric  *)
(* difference.  The locations come from random numbers of the compiler;    *)
(* the 97 highest ones, which the code leaves out, are not left out here.  *)
(***************************************************************************)
EXTENDS Integers

CONSTANTS PathBits,    \* bits of a location with ENABLE_PM_PATH
          BaseBits,    \* bits of a location in the baseline
          CounterCap,  \* COUNTER_CAP
          RegBits      \* bits of an element in the baseline

ASSUME MapAssumption ==
  /\ PathBits \in Nat \ {0} /\ BaseBits \in Nat \ {0}
  /\ CounterCap \in Nat \ {0} /\ RegBits \in Nat \ {0}

Reg == INSTANCE ShiftReg WITH Bits <- RegBits

VARIABLES mode,  \* the environment of the program: "path" or "base"
          map,   \* *__pmfuzz_area_ptr, from locations to elements
          prev   \* __pmfuzz_prev_loc

vars == <<mode, map, prev>>

BitsOf(m)    == IF m = "path" THEN PathBits ELSE BaseBits
LocsOf(m)    == SUBSET (0..(BitsOf(m) - 1))
Upper(m)     == {l \in LocsOf(m) : BitsOf(m) - 1 \in l}
Lower(m)     == LocsOf(m) \ Upper(m)
ElemsOf(m)   == IF m = "path" THEN 0..CounterCap ELSE Reg!Registers
EmptyElem(m) == IF m = "path" THEN 0 ELSE Reg!Register(0)

Xor(a, b) == (a \ b) \cup (b \ a)

(* elem_id >> 1.  Its mutant: no shift.                                    *)
NotShifted(a) == a
HalfOf(a) == {b - 1 : b \in a \ {0}}

(* One more access in an element.  Mutants: the byte wraps around, and the *)
(* register keeps its old bit.                                             *)
WrappingBump(elem) ==
  IF mode = "path" THEN (elem + 1) % (CounterCap + 1) ELSE Reg!PushBack(elem)
UnclearedBump(elem) ==
  IF mode = "path" THEN IF elem < CounterCap THEN elem + 1 ELSE elem
                   ELSE Reg!PushOnly(elem)
Bump(elem) ==
  IF mode = "path" THEN IF elem < CounterCap THEN elem + 1 ELSE elem
                   ELSE Reg!PushBack(elem)

(* update_loc: the map and prev after an access to loc.                    *)
UpdatedMap(mp, pr, loc) == [mp EXCEPT ![Xor(loc, pr)] = Bump(@)]

Init ==
  /\ mode \in {"path", "base"}
  /\ map = [l \in LocsOf(mode) |-> EmptyElem(mode)]
  /\ prev = {}

(* In the baseline update_loc takes the location modulo the number of      *)
(* elements, so that it may be any.                                        *)
Reads  == IF mode = "path" THEN Lower(mode) ELSE LocsOf(mode)
Writes == IF mode = "path" THEN Upper(mode) ELSE LocsOf(mode)

pmfuzz_ro ==
  \E loc \in Reads :
    /\ map' = UpdatedMap(map, prev, loc)
    /\ prev' = HalfOf(loc)
    /\ UNCHANGED mode

pmfuzz_wo ==
  \E loc \in Writes :
    /\ map' = UpdatedMap(map, prev, loc)
    /\ prev' = HalfOf(loc)
    /\ UNCHANGED mode

(* A read of a location and a write half a map above it: in the baseline   *)
(* what the two locations are modulo the number of elements.               *)
Paired(loc, up) == mode = "path" => up = loc \cup {BitsOf(mode) - 1}

pmfuzz_rw ==
  \E loc \in Reads, up \in Writes :
    /\ Paired(loc, up)
    /\ map' = UpdatedMap(UpdatedMap(map, prev, loc), HalfOf(loc), up)
    /\ prev' = HalfOf(up)
    /\ UNCHANGED mode

Next == pmfuzz_ro \/ pmfuzz_wo \/ pmfuzz_rw

Spec == Init /\ [][Next]_vars
-----------------------------------------------------------------------------
(* update_loc writes inside the map (the assertion of sra_push_back), and  *)
(* the previous location never has the highest bit.                        *)
TypeOK ==
  /\ mode \in {"path", "base"}
  /\ map \in [LocsOf(mode) -> ElemsOf(mode)]
  /\ prev \in Lower(mode)

(* A register has at most one bit set: it is the register of its count.    *)
OneBitSet ==
  mode = "base" =>
    \A l \in LocsOf(mode) : \E c \in 0..RegBits : map[l] = Reg!Register(c)

(* The map "cannot overflow": what an element stands for never decreases.  *)
Value(elem) == IF mode = "path" THEN elem ELSE Reg!Count(elem)

MapGrows ==
  [][\A l \in LocsOf(mode) : Value(map[l]) <= Value(map[l])']_vars

(* "First half of the map is for reads, second half for writes": with      *)
(* ENABLE_PM_PATH it is, in spite of the XOR with the previous location.   *)
HalvesKept ==
  [][mode = "path" =>
       /\ pmfuzz_ro => \A l \in Upper(mode) : map'[l] = map[l]
       /\ pmfuzz_wo => \A l \in Lower(mode) : map'[l] = map[l]]_vars

(* The map implements counters of hits.                                    *)
Hits == INSTANCE HitCounts WITH
  count <- [l \in LocsOf(mode) |-> Value(map[l])],
  cap   <- IF mode = "path" THEN CounterCap ELSE RegBits

HitsSpec == Hits!Spec
=============================================================================
