----------------------------- MODULE MCParallel -----------------------------
(***************************************************************************)
(* Parallel with one task more than twice the cores, so that a full pool   *)
(* polls, drops and refills.  No symmetry is used: the run checks liveness *)
(* and refinement along with the invariants.                               *)
(***************************************************************************)
EXTENDS Parallel

CONSTANTS a, b, c, d, e

MCTasks == {a, b, c, d, e}
=============================================================================
