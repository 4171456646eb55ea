CONSTANTS
  NPROC = 3
  NFILE = 4
  NOFILE = 4
  NPAGE = 2
  PIPESIZE = 2
  UINT = 4
  Byte <- MCByte
  Inputs <- MCInputs
  Text <- MCText
  BUFSIZE = 2
  MAXARGS = 3
  HEADER = 2
  MORECORE = 4
  HEAPMAX = 9
  Sizes = {1, 4, 9}
SPECIFICATION ShellSpec
INVARIANTS RefsAgree PipeLifetime NoLostWakeup Output
PROPERTY Terminates
