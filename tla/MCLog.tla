------------------------------- MODULE MCLog -------------------------------
(* The instances of Log that TLC checks.                                   *)
EXTENDS Log, TLC

Symmetric == Permutations(Proc) \cup Permutations(Block)
=============================================================================
