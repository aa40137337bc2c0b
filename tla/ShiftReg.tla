------------------------------ MODULE ShiftReg ------------------------------
(***************************************************************************)
(* The shift registers of include/shiftregarr.h: an element of the PM map  *)
(* counts by the position of its one set bit.  libpmfuzz only calls        *)
(* sra_push_back with basebit 0.                                           *)
(***************************************************************************)
EXTENDS Integers

CONSTANT Bits  \* elem_sz_bits, at least one

Positions == 0..(Bits - 1)
Registers == [Positions -> BOOLEAN]

(* The loop from the last bit down to the first set one: -1 if none is.    *)
LastSet(reg) ==
  CHOOSE it \in -1..(Bits - 1) :
    /\ it # -1 => reg[it]
    /\ \A b \in Positions : b > it => ~reg[b]

(* sra_push_back.  Its mutant forgets the BITCLEAR.                        *)
PushOnly(reg) ==
  LET it == LastSet(reg)
  IN  IF it = Bits - 1 THEN reg ELSE [reg EXCEPT ![it + 1] = TRUE]

PushBack(reg) ==
  LET it == LastSet(reg)
  IN  IF it = Bits - 1 THEN reg
      ELSE [b \in Positions |-> IF b = it + 1 THEN TRUE
                                ELSE IF b = it THEN FALSE ELSE reg[b]]

(* The register after c pushes, and the count a register stands for.       *)
Register(c) == [b \in Positions |-> b = c - 1]
Count(reg)  == LastSet(reg) + 1
=============================================================================
