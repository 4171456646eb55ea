-------------------------------- MODULE MCVM --------------------------------
(* The instances of VM that TLC checks.                                    *)
EXTENDS VM

SbrkArgs == {-3, 2, 3}
=============================================================================
