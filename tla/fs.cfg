CONSTANTS
  Proc = {p, q}
  Name = {"a", "b"}
  NINODES = 3
  Path <- Paths
  MaxCalls = 5
SPECIFICATION Spec
INVARIANTS RefsCounted HeldAllocated TreeSound
SYMMETRY Symmetric
