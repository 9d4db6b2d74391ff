---------------------------- MODULE MCFitToBound ----------------------------
(* FitToBound for TLC: even, odd and coprime sides, and slivers whose      *)
(* shorter side vanishes when they are scaled.                             *)
EXTENDS FitToBound

MCExtents == {1, 2, 3, 5, 7, 8, 40}

=============================================================================
