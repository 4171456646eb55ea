CONSTANTS
  Proc = {1, 2}
  Initproc = 1
  NPAGE = 15
  PGSIZE = 2
  NPDE = 3
  NPTE = 2
  Sbrk <- SbrkArgs
  ProgSize = {1, 3}
SPECIFICATION Spec
INVARIANTS PageOwned AddressSpace NoPanic
