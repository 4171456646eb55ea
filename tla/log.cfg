CONSTANTS
  Proc = {p1, p2, p3}
  Block = {b1, b2, b3, b4}
  MAXOPBLOCKS = 2
  LOGSIZE = 5
  NLOG = 6
  OpBlocks = 2
  MaxOp = 3
  MaxCrash = 2
SPECIFICATION Spec
INVARIANTS Durable  BeginWaits
PROPERTY AtomicOperations
SYMMETRY Symmetric
