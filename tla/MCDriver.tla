------------------------------ MODULE MCDriver ------------------------------
(***************************************************************************)
(* Driver with one seed, one testcase that AFL finds, a crash site made   *)
(* from it, and two iterations of stage 2.                                 *)
(***************************************************************************)
EXTENDS Driver, TLC

CONSTANTS seed, found, cs

MCEntries    == {seed, found}
MCSeeds      == {seed}
MCTouchesPM  == {seed}
MCCrashSites == {cs}
MCCrashOf    == cs :> found
=============================================================================
