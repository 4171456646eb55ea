------------------------------ MODULE MCSignal ------------------------------
(* The instances of Signal that TLC checks.                                *)
EXTENDS Signal, TLC

Senders == Permutations(Sender)

=============================================================================
