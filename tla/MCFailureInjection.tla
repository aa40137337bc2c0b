------------------------ MODULE MCFailureInjection ------------------------
(***************************************************************************)
(* FailureInjection with the limits of the library scaled down: six        *)
(* failure points, no image beyond id 4, a list of four.  Ids are written  *)
(* in base 2, so that one of them has up to three digits to lose.          *)
(***************************************************************************)
EXTENDS FailureInjection
=============================================================================
