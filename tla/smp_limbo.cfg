CONSTANTS
 NPROC = 2
 Cpu = {c0, c1}
 Boot = c0
 Calls = {"fork", "exit", "wait"}
 MaxPid = 4
SPECIFICATION Spec
INVARIANT NoLimbo
CHECK_DEADLOCK FALSE
