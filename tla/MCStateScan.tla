----------------------------- MODULE MCStateScan -----------------------------
(***************************************************************************)
(* Every line of N instructions over gp and one other register, in a word  *)
(* of sixteen values the middle half of which is RAM.                      *)
(***************************************************************************)
EXTENDS StateScan

MCLo == {-1, 0, 2}
=============================================================================
