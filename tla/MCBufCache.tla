----------------------------- MODULE MCBufCache -----------------------------
(* The instances of BufCache that TLC checks.                              *)
EXTENDS BufCache

Symmetric == Permutations(Proc) \cup Permutations(Sector) \cup Permutations(Value)
=============================================================================
