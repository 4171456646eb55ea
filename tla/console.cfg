CONSTANTS
  Cpu = {c, d}
  IrqCpu = c
  Proc = {p, q}
  NONE = NONE
  INPUT_BUF = 2
  UINT = 4
  Key <- Keys
  MaxKeys = 3
  MaxRead = 2
SPECIFICATION Spec
INVARIANTS  ReaderWoken InterruptsMatch
SYMMETRY Symmetric
