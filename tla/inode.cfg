CONSTANTS
  Proc = {p, q}
  Inum = {i, j}
  Garbage = Garbage
  BSIZE = 2
  NDIRECT = 1
  NINDIRECT = 2
  NBLOCK = 4
  MaxChunk = 2
  WriteSize = {3}
  ReadSize = {2}
  MkfsSize = {0, 5}
SPECIFICATION Spec
INVARIANTS BlocksOwned ReadsContent
SYMMETRY Symmetric
