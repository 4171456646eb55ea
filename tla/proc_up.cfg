CONSTANTS
 NPROC = 3
 Cpu = {c0}
 Boot = c0
 Calls = {"fork","exit","wait","sleep","sigsend","fault","timer"}
 MaxPid = 4
SPECIFICATION Spec
INVARIANTS ContextSaved NoLimbo UserRunning NoMissedExit NoLostTick MemoryOwned OrphansAdopted 
