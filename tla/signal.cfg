\* Two senders of three signals, a stack of two frames.
CONSTANTS
  Sender = {s1, s2}
  MAX_CSTACK_FRAMES = 2
  MaxSend = 3
SYMMETRY Senders
SPECIFICATION Spec
INVARIANTS OneOwner  ArgsOfSignal 
PROPERTY StackSpec
CHECK_DEADLOCK FALSE
