----------------------------- MODULE SignalStack -----------------------------
(***************************************************************************)
(* What struct cstack promises (proc.h): a stack of signals of bounded     *)
(* depth, on which push and pop are atomic.                                *)
(***************************************************************************)
EXTENDS Sequences, Naturals

CONSTANTS Signal, Depth

VARIABLE stack    \* the pending signals, the last one sent first

Init == stack = <<>>

Push ==
  /\ Len(stack) < Depth
  /\ \E sig \in Signal : stack' = <<sig>> \o stack

Pop ==
  /\ stack # <<>>
  /\ stack' = Tail(stack)

Spec == Init /\ [][Push \/ Pop]_stack

=============================================================================
