CONSTANTS
  Proc = {p1, p2}
  Sector = {s1, s2, s3, s4}
  Value = {v1, v2}
  NBUF = 3
  MaxDirty = 1
  MaxError = 1
SPECIFICATION Spec
INVARIANTS OneOwner ReadsLastWrite NobodyStuck
SYMMETRY Symmetric
