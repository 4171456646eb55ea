------------------------------ MODULE MCInode ------------------------------
(* The instances of Inode that TLC checks.                                 *)
EXTENDS Inode, TLC

Symmetric == Permutations(Proc) \cup Permutations(Inum)
=============================================================================
