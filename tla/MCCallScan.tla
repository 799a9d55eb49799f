----------------------------- MODULE MCCallScan -----------------------------
(***************************************************************************)
(* Every line of N instructions over the two registers that the scans look *)
(* at; of the masks, two are of low bits and one is not.                   *)
(***************************************************************************)
EXTENDS CallScan
=============================================================================
