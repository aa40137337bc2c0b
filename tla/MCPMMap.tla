------------------------------ MODULE MCPMMap ------------------------------
(***************************************************************************)
(* PMMap with 8 locations and a cap of 2 on the path, 4 locations and      *)
(* registers of 3 bits in the baseline.                                    *)
(***************************************************************************)
EXTENDS PMMap
=============================================================================
