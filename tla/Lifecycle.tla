----------------------------- MODULE Lifecycle ------------------------------
(***************************************************************************)
(* What the directory of results goes through, as the head of              *)
(* core/pmfuzz.py describes it: stage 1 first, then the iterations of      *)
(* stage 2 one after the other, and deduplication each time round; an      *)
(* iteration is followed by the next once its own results have been        *)
(* deduplicated.  A run may stop at any time.                              *)
(***************************************************************************)
EXTENDS Naturals

VARIABLES
  stage, iter,  \* the youngest stage and its iteration, 0 before the first
  phase         \* "fuzz", "dedup", "deduped", "complete" or "end"

vars == <<stage, iter, phase>>

Init == stage = 0 /\ iter = 0 /\ phase = "fuzz"

StartStage1 ==
  /\ phase = "fuzz" /\ stage = 0
  /\ stage' = 1 /\ iter' = 1
  /\ UNCHANGED phase

Dedup ==
  /\ phase = "fuzz" /\ stage > 0
  /\ phase' = "dedup"
  /\ UNCHANGED <<stage, iter>>

Deduped ==
  /\ phase = "dedup" /\ phase' = "deduped"
  /\ UNCHANGED <<stage, iter>>

Continue ==
  /\ phase = "deduped" /\ phase' = "fuzz"
  /\ UNCHANGED <<stage, iter>>

(* From stage 1 to the first iteration of stage 2.                         *)
StartStage2 ==
  /\ phase = "deduped" /\ stage = 1
  /\ stage' = 2 /\ iter' = 1 /\ phase' = "fuzz"

(* An iteration's own results are deduplicated before the next begins.     *)
CompleteIteration ==
  /\ phase = "deduped" /\ stage = 2
  /\ phase' = "complete"
  /\ UNCHANGED <<stage, iter>>

NextIteration ==
  /\ phase = "complete"
  /\ iter' = iter + 1 /\ phase' = "fuzz"
  /\ UNCHANGED stage

Stop ==
  /\ phase # "end" /\ phase' = "end"
  /\ UNCHANGED <<stage, iter>>

Next ==
  \/ StartStage1 \/ Dedup \/ Deduped \/ Continue \/ StartStage2
  \/ CompleteIteration \/ NextIteration \/ Stop

Spec == Init /\ [][Next]_vars
=============================================================================
