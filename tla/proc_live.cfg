CONSTANTS
 NPROC = 2
 Cpu = {c0}
 Boot = c0
 Calls = {"fork","exit","wait","sleep","sigsend","sigpause","fault","timer"}
 MaxPid = 4
SPECIFICATION FairSpec
PROPERTIES WaitReturns SleepReturns
