------------------------------- MODULE Corpus -------------------------------
(***************************************************************************)
(* What the global store @dedup promises, whoever writes to it: a name is  *)
(* stored once in its life, with its image; minimization may take the      *)
(* testcase away, for good; the image stays for the children of the        *)
(* testcase.  DedupStore and Driver, which look at the store from two      *)
(* sides, both implement it.                                               *)
(***************************************************************************)
EXTENDS TLAPS

CONSTANT Names

VARIABLES
  held,    \* names with a testcase
  images,  \* names with an image
  dropped  \* names with a placeholder

vars == <<held, images, dropped>>

Init == held = {} /\ images = {} /\ dropped = {}

(* Names that were never stored come, any that are there go.               *)
Update ==
  \E new \in SUBSET (Names \ images) : \E gone \in SUBSET (held \cup new) :
    /\ held'    = (held \cup new) \ gone
    /\ images'  = images \cup new
    /\ dropped' = dropped \cup gone

Spec == Init /\ [][Update]_vars
-----------------------------------------------------------------------------
(* What follows for whoever implements it.                                 *)

(* A name with an image has a testcase or a placeholder, and not both.     *)
Promise == held \cup dropped = images /\ held \cap dropped = {}

(* What is minimized away does not come back, and no image goes.           *)
GoneForGood ==
  [][/\ dropped \subseteq dropped' /\ dropped \cap held' = {}
     /\ images \subseteq images']_vars

(* update_global and the minimizers keep testcases, images and             *)
(* placeholders in step.                                                   *)
THEOREM PromiseKept == Spec => []Promise
<1>1. Init => Promise
  BY DEF Init, Promise
<1>2. Promise /\ [Update]_vars => Promise'
  BY DEF Promise, Update, vars
<1> QED BY <1>1, <1>2, PTL DEF Spec

(* No later update_global brings back what a minimizer has taken.          *)
THEOREM GoesForGood == Spec => GoneForGood
<1>1. Promise /\ [Update]_vars
        => [/\ dropped \subseteq dropped' /\ dropped \cap held' = {}
            /\ images \subseteq images']_vars
  BY DEF Promise, Update, vars
<1> QED BY <1>1, PromiseKept, PTL DEF Spec, GoneForGood
=============================================================================
