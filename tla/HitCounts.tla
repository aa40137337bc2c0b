----------------------------- MODULE HitCounts -----------------------------
(***************************************************************************)
(* What the PM map is for: each location has a counter, every access adds  *)
(* one to the counter of one location (two accesses in one call to those   *)
(* of two), and a counter that has reached cap stays there.                *)
(***************************************************************************)
EXTENDS Naturals

VARIABLES count,  \* from locations to 0..cap
          cap

vars == <<count, cap>>

Init == cap \in Nat \ {0} /\ \A l \in DOMAIN count : count[l] = 0

Hit(c, l) == [c EXCEPT ![l] = IF @ < cap THEN @ + 1 ELSE @]

Access == \E l \in DOMAIN count : count' = Hit(count, l)

TwoAccesses ==
  \E l, m \in DOMAIN count : count' = Hit(Hit(count, l), m)

Next == (Access \/ TwoAccesses) /\ UNCHANGED cap

Spec == Init /\ [][Next]_vars
=============================================================================
