----------------------------- MODULE MCLoadSvg -----------------------------
(* LoadSvg for TLC: budgets on both sides of zero and of the buffer.       *)
EXTENDS LoadSvg

MCBudgets == {-1, 0, 1, 3, 4, 5}

=============================================================================
