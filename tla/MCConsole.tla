----------------------------- MODULE MCConsole -----------------------------
(* The instances of Console that TLC checks.                               *)
EXTENDS Console, TLC

Keys == {"x", "\n", "^D", "^U", "^H"}
Symmetric == Permutations(Proc)
=============================================================================
