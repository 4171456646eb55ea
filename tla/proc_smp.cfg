CONSTANTS
 NPROC = 3
 Cpu = {c0,c1}
 Boot = c0
 Calls = {"fork","exit","wait","kill"}
 MaxPid = 4
SPECIFICATION Spec
INVARIANTS PidUnique Consistent
CHECK_DEADLOCK FALSE
