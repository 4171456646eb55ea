-------------------------------- MODULE Proc --------------------------------
(***************************************************************************)
(* The process table of the kernel (proc.c): fork, exit, wait, sleep,      *)
(* wakeup, kill, the per-CPU scheduler, and the parts of trap.c that call  *)
(* them.  The table has no lock.  Every change of p->state is a CAS, and   *)
(* the states nSLEEPING, nRUNNABLE and nZOMBIE mark a process that has     *)
(* decided to leave its CPU and whose kernel stack is still in use.        *)
(*                                                                         *)
(* One action is one access to shared memory: a CAS, a store, or the read  *)
(* that a branch depends on.  Accesses that commute with those of every    *)
(* other thread are merged with their neighbour.                           *)
(***************************************************************************)
EXTENDS Integers

CONSTANTS
  NPROC,    \* size of the process table; slot 1 is initproc
  Cpu,      \* the processors
  Boot,     \* the processor with cpu->id == 0, the one that counts ticks
  Calls,    \* the system calls, faults and timer interrupts that happen
  MaxPid    \* bound: no fork once nextpid has reached MaxPid

ASSUME ConstantsAssumption ==
  /\ NPROC \in Nat \ {0}
  /\ Boot \in Cpu
  /\ Cpu \cap (0 .. NPROC + 1) = {}
  /\ Calls \subseteq {"fork", "exit", "wait", "sleep", "kill", "sigsend", "sigpause",
                    "fault", "timer"}
  /\ MaxPid \in Nat

Proc == 1 .. NPROC
initproc == 1
Thread == Proc \cup Cpu        \* a process, or the scheduler loop of a CPU

\* Sleep channels are addresses: of a process slot, or of the tick counter.
Ticks == NPROC + 1
Channel == 0 .. NPROC + 1

VARIABLES
  state, chan, parent, pid, killed,   \* fields of struct proc
  kstack,     \* p->kstack and p->pgdir are allocated
  nextpid,
  tickslock,  \* the thread that holds tickslock, or 0
  due,        \* per process in sys_sleep: ticks - ticks0 has reached n
  sp,         \* sp[c]: the loop variable p of c's scheduler, 0 while it scans
  pc,         \* program counter of every thread
  slot,       \* loop variable p of wait and exit; np in fork
  havekids,   \* local of wait
  resume,     \* where the interrupted code of a process continues
  wk          \* wakeup1 activation of a thread: where it is, chan, loop index

table == <<state, chan, parent, pid, killed, kstack, nextpid>>
locals == <<slot, havekids, resume>>
clock == <<tickslock, due>>
vars == <<table, clock, sp, pc, locals, wk>>

States == {"UNUSED", "EMBRYO", "SLEEPING", "RUNNABLE", "RUNNING", "ZOMBIE",
           "nSLEEPING", "nRUNNABLE", "nZOMBIE"}

\* Kernel code that runs with interrupts enabled, and user mode.
Interruptible == {"user", "fork", "allocpid", "kalloc", "copyuvm", "embryo",
                  "exit", "kill", "killspin", "sigsend", "sigsent", "sigpause",
                  "pausechan", "pausecas", "pausetest", "unpause1", "unpause2"}

SchedCalls == {"sched_exit", "sched_wait", "sched_sleep", "sched_yield",
               "sched_pause"}

ProcLabels == Interruptible \cup SchedCalls \cup
  {"exitwake", "reparent", "adopt", "zombie_exit",
   "wait", "waitcas", "scan", "childtest", "scanend", "reap", "clearpid", "clearparent", "unchan",
   "unsleep1", "unsleep2",
   "sleep", "ticktest", "sleepcas", "sleeprelease", "reacquire",
   "tick", "tickrelease", "yield", "resume", "panic"}

CpuLabels == {"scan", "run", "recas1", "recas2", "recas3", "zombietest",
              "freeproc", "kfree", "freefields", "tick", "tickrelease", "panic"}

WakeLabels == {"idle", "test", "nsleeping", "nclear", "sleeping", "clear"}

WakeActivation == [at : WakeLabels, chan : Channel, slot : Proc]

IdleWake == [at |-> "idle", chan |-> 0, slot |-> 1]

Init ==
  /\ state = [p \in Proc |-> IF p = initproc THEN "RUNNABLE" ELSE "UNUSED"]
  /\ chan = [p \in Proc |-> 0]
  /\ parent = [p \in Proc |-> 0]
  /\ pid = [p \in Proc |-> IF p = initproc THEN 2 ELSE 0]
  /\ killed = [p \in Proc |-> FALSE]
  /\ kstack = [p \in Proc |-> p = initproc]
  /\ nextpid = 2
  /\ tickslock = 0
  /\ due = [p \in Proc |-> FALSE]
  /\ sp = [c \in Cpu |-> 0]
  /\ pc = [t \in Thread |-> IF t \in Cpu THEN "scan" ELSE "user"]
  /\ slot = [p \in Proc |-> 1]
  /\ havekids = [p \in Proc |-> FALSE]
  /\ resume = [p \in Proc |-> "user"]
  /\ wk = [t \in Thread |-> IdleWake]

-----------------------------------------------------------------------------
(* Threads.  From swtch(&cpu->scheduler, ...) until sched() switches back, *)
(* CPU c is on the kernel stack of process sp[c]; otherwise it is on its   *)
(* own stack, in the scheduler loop.                                       *)

OnStack(c, p) == pc[c] = "run" /\ sp[c] = p

(* A kernel stack is corrupted when two CPUs run on it, or when a CPU runs *)
(* on it after it was freed or while its slot is given to a new process.   *)
(* What the machine does from there on is undefined; a behaviour ends in   *)
(* the first such state.                                                   *)

Corrupted ==
  \E c \in Cpu :
    /\ pc[c] = "run"
    /\ \/ ~kstack[sp[c]]
       \/ state[sp[c]] = "EMBRYO"
       \/ \E d \in Cpu \ {c} : OnStack(d, sp[c])

Executes(t) ==
  /\ ~Corrupted
  /\ IF t \in Cpu THEN pc[t] # "run" ELSE \E c \in Cpu : OnStack(c, t)

\* t is at label l and not inside wakeup1.
At(t, l) == pc[t] = l /\ wk[t].at = "idle" /\ Executes(t)

Goto(t, l) == pc' = [pc EXCEPT ![t] = l]

\* Calls wakeup1(ch) and continues at l when it returns.
CallWakeup1(t, ch, l) ==
  /\ Goto(t, l)
  /\ wk' = [wk EXCEPT ![t] = [at |-> "test", chan |-> ch, slot |-> 1]]

\* Return from a system call; trap() exits a process that has been killed.
Return(p) == Goto(p, IF killed[p] THEN "exit" ELSE "user")

\* cas(&q->state, from, to), result ignored.
Cas(q, from, to) ==
  state' = [state EXCEPT ![q] = IF @ = from THEN to ELSE @]

-----------------------------------------------------------------------------
(* wakeup1(chan): one pass over the table.                                 *)

WakeAt(t, l) == wk[t].at = l /\ Executes(t)

\* Variant: the pass stops before the last slot.
AdvanceShort(w) ==
  IF w.slot < NPROC - 1 THEN [w EXCEPT !.at = "test", !.slot = @ + 1] ELSE IdleWake

Advance(w) ==
  IF w.slot < NPROC THEN [w EXCEPT !.at = "test", !.slot = @ + 1] ELSE IdleWake

WakeupTest(t) ==
  /\ WakeAt(t, "test")
  /\ wk' = [wk EXCEPT ![t] = IF chan[@.slot] = @.chan
                             THEN [@ EXCEPT !.at = "nsleeping"] ELSE Advance(@)]
  /\ UNCHANGED <<table, clock, sp, pc, locals>>

WakeupNSleeping(t) ==
  /\ WakeAt(t, "nsleeping")
  /\ Cas(wk[t].slot, "nSLEEPING", "nRUNNABLE")
  /\ wk' = [wk EXCEPT ![t].at = IF state[wk[t].slot] = "nSLEEPING"
                                THEN "nclear" ELSE "sleeping"]
  /\ UNCHANGED <<chan, parent, pid, killed, kstack, nextpid,
                 clock, sp, pc, locals>>

WakeupNClear(t) ==
  /\ WakeAt(t, "nclear")
  /\ chan' = [chan EXCEPT ![wk[t].slot] = 0]
  /\ wk' = [wk EXCEPT ![t].at = "sleeping"]
  /\ UNCHANGED <<state, parent, pid, killed, kstack, nextpid,
                 clock, sp, pc, locals>>

WakeupSleeping(t) ==
  /\ WakeAt(t, "sleeping")
  /\ Cas(wk[t].slot, "SLEEPING", "RUNNABLE")
  /\ wk' = [wk EXCEPT ![t] = IF state[@.slot] = "SLEEPING"
                             THEN [@ EXCEPT !.at = "clear"] ELSE Advance(@)]
  /\ UNCHANGED <<chan, parent, pid, killed, kstack, nextpid,
                 clock, sp, pc, locals>>

WakeupClear(t) ==
  /\ WakeAt(t, "clear")
  /\ chan' = [chan EXCEPT ![wk[t].slot] = 0]
  /\ wk' = [wk EXCEPT ![t] = Advance(@)]
  /\ UNCHANGED <<state, parent, pid, killed, kstack, nextpid,
                 clock, sp, pc, locals>>

Wakeup1(t) ==
  \/ WakeupTest(t)
  \/ WakeupNSleeping(t)
  \/ WakeupNClear(t)
  \/ WakeupSleeping(t)
  \/ WakeupClear(t)

-----------------------------------------------------------------------------
(* trap(): system calls, faults and the timer interrupt.                   *)

\* What a program may call.  init (init.c) never exits while its forks succeed.
SysCalls(p) ==
  {call \in Calls \ {"timer", "fault"} :
     /\ p = initproc => call # "exit"
     /\ call = "fork" => nextpid < MaxPid}

\* A system call from user mode, or a fault that kills the process.
UserTrap(p) ==
  /\ At(p, "user")
  /\ \/ /\ \E call \in SysCalls(p) : Goto(p, IF killed[p] THEN "exit" ELSE call)
        /\ UNCHANGED killed
     \/ /\ "fault" \in Calls /\ p # initproc
        /\ killed' = [killed EXCEPT ![p] = TRUE]
        /\ Goto(p, "exit")
  /\ UNCHANGED <<state, chan, parent, pid, kstack, nextpid,
                 clock, sp, locals, wk>>

Timer(c, p) ==
  /\ "timer" \in Calls
  /\ OnStack(c, p) /\ Executes(p)
  /\ pc[p] \in Interruptible /\ wk[p].at = "idle"
  /\ resume' = [resume EXCEPT ![p] = pc[p]]
  /\ Goto(p, IF c = Boot THEN "tick" ELSE "yield")
  /\ UNCHANGED <<table, clock, sp, slot, havekids, wk>>

\* The scheduler enables interrupts between two passes over the table.
IdleTimer(c) ==
  /\ "timer" \in Calls
  /\ c = Boot
  /\ At(c, "scan")
  /\ Goto(c, "tick")
  /\ UNCHANGED <<table, clock, sp, locals, wk>>

SleepLabels == {"ticktest", "sleepcas", "sleeprelease", "sched_sleep", "reacquire"}

\* Variant: the tick wakes nobody.
TickSilent(t) ==
  /\ At(t, "tick")
  /\ tickslock = 0
  /\ tickslock' = t
  /\ due' = [q \in Proc |-> pc[q] \in SleepLabels]
  /\ Goto(t, "tickrelease")
  /\ UNCHANGED <<table, sp, locals, wk>>

\* acquire(&tickslock); ticks++; wakeup(&ticks)
Tick(t) ==
  /\ At(t, "tick")
  /\ tickslock = 0
  /\ tickslock' = t
  /\ due' = [q \in Proc |-> pc[q] \in SleepLabels]
  /\ CallWakeup1(t, Ticks, "tickrelease")
  /\ UNCHANGED <<table, sp, locals>>

TickRelease(t) ==
  /\ At(t, "tickrelease")
  /\ tickslock' = 0
  /\ Goto(t, IF t \in Cpu THEN "scan" ELSE "yield")
  /\ UNCHANGED <<table, due, sp, locals, wk>>


\* The end of trap() for a timer interrupt, with yield() up to its sched().
Yield(p) ==
  /\ At(p, "yield")
  /\ LET dies == resume[p] = "user" /\ killed[p]
     IN  /\ Goto(p, IF dies THEN "exit"
                    ELSE IF state[p] = "RUNNING" THEN "sched_yield" ELSE "resume")
         /\ IF dies THEN UNCHANGED state ELSE Cas(p, "RUNNING", "nRUNNABLE")
  /\ UNCHANGED <<chan, parent, pid, killed, kstack, nextpid,
                 clock, sp, locals, wk>>

Resume(p) ==
  /\ At(p, "resume")
  /\ Goto(p, IF resume[p] = "user" /\ killed[p] THEN "exit" ELSE resume[p])
  /\ resume' = [resume EXCEPT ![p] = "user"]
  /\ UNCHANGED <<table, clock, sp, slot, havekids, wk>>

-----------------------------------------------------------------------------
(* fork() and allocproc().                                                 *)

\* The scan of the table claims an UNUSED slot, or reaches its end: slots that
\* are freed behind it are not found.
AllocSlot(p) ==
  /\ At(p, "fork")
  /\ \/ \E np \in Proc :
          /\ state[np] = "UNUSED"
          /\ state' = [state EXCEPT ![np] = "EMBRYO"]
          /\ slot' = [slot EXCEPT ![p] = np]
          /\ Goto(p, "allocpid")
     \/ Return(p) /\ UNCHANGED <<state, slot>>
  /\ UNCHANGED <<chan, parent, pid, killed, kstack, nextpid,
                 clock, sp, havekids, resume, wk>>

\* Variant: the increment of nextpid is lost.
AllocPidLost(p) ==
  /\ At(p, "allocpid")
  /\ pid' = [pid EXCEPT ![slot[p]] = nextpid + 1]
  /\ Goto(p, "kalloc")
  /\ UNCHANGED <<state, chan, parent, killed, kstack, nextpid, clock, sp, locals, wk>>

\* p->pid = allocpid(): the CAS loop increments nextpid atomically.
AllocPid(p) ==
  /\ At(p, "allocpid")
  /\ nextpid' = nextpid + 1
  /\ pid' = [pid EXCEPT ![slot[p]] = nextpid + 1]
  /\ Goto(p, "kalloc")
  /\ UNCHANGED <<state, chan, parent, killed, kstack, clock, sp, locals, wk>>

\* Variant: the new stack gets no context, and keeps what was there before.
KallocNoContext(p) ==
  /\ At(p, "kalloc")
  /\ kstack' = [kstack EXCEPT ![slot[p]] = TRUE]
  /\ Goto(p, "copyuvm")
  /\ UNCHANGED <<state, chan, parent, pid, killed, nextpid, clock, sp, locals, wk>>

\* The kernel stack, with a context that returns to user mode through forkret.
\* When kalloc() fails the slot keeps its pid.
KallocStack(p) ==
  /\ At(p, "kalloc")
  /\ \/ /\ kstack' = [kstack EXCEPT ![slot[p]] = TRUE]
        /\ pc' = [pc EXCEPT ![p] = "copyuvm", ![slot[p]] = "user"]
        /\ UNCHANGED state
     \/ /\ kstack' = [kstack EXCEPT ![slot[p]] = FALSE]
        /\ state' = [state EXCEPT ![slot[p]] = "UNUSED"]
        /\ Return(p)
  /\ UNCHANGED <<chan, parent, pid, killed, nextpid, clock, sp, locals, wk>>

CopyUvm(p) ==
  /\ At(p, "copyuvm")
  /\ \/ /\ parent' = [parent EXCEPT ![slot[p]] = p]
        /\ Goto(p, "embryo")
        /\ UNCHANGED <<state, kstack>>
     \/ /\ kstack' = [kstack EXCEPT ![slot[p]] = FALSE]
        /\ state' = [state EXCEPT ![slot[p]] = "UNUSED"]
        /\ Return(p)
        /\ UNCHANGED parent
  /\ UNCHANGED <<chan, pid, killed, nextpid, clock, sp, locals, wk>>

ForkDone(p) ==
  /\ At(p, "embryo")
  /\ Cas(slot[p], "EMBRYO", "RUNNABLE")
  /\ Return(p)
  /\ UNCHANGED <<chan, parent, pid, killed, kstack, nextpid,
                 clock, sp, locals, wk>>

-----------------------------------------------------------------------------
(* exit().  Closing the files and the working directory is not modelled.   *)

\* When the CAS fails exit() returns: to user mode, or to the system call that
\* trap() was about to make for a killed process.
ExitCas(p) ==
  /\ At(p, "exit")
  /\ \/ /\ p = initproc
        /\ Goto(p, "panic")
        /\ UNCHANGED state
     \/ /\ p # initproc /\ state[p] = "RUNNING"
        /\ state' = [state EXCEPT ![p] = "nZOMBIE"]
        /\ Goto(p, "exitwake")
     \/ /\ p # initproc /\ state[p] # "RUNNING"
        /\ \/ Goto(p, "user")
           \/ killed[p] /\ \E call \in SysCalls(p) : Goto(p, call)
        /\ UNCHANGED state
  /\ UNCHANGED <<chan, parent, pid, killed, kstack, nextpid,
                 clock, sp, locals, wk>>

\* Variant: wakes on the wrong channel.
ExitWakeSelf(p) ==
  /\ At(p, "exitwake")
  /\ CallWakeup1(p, p, "reparent")
  /\ slot' = [slot EXCEPT ![p] = 1]
  /\ UNCHANGED <<table, clock, sp, havekids, resume>>

ExitWakeParent(p) ==
  /\ At(p, "exitwake")
  /\ CallWakeup1(p, parent[p], "reparent")
  /\ slot' = [slot EXCEPT ![p] = 1]
  /\ UNCHANGED <<table, clock, sp, havekids, resume>>

\* Variant: the loop stops before the last slot.
NextSlotShort(p, again, done) ==
  /\ slot' = [slot EXCEPT ![p] = IF @ < NPROC - 1 THEN @ + 1 ELSE 1]
  /\ Goto(p, IF slot[p] < NPROC - 1 THEN again ELSE done)

\* The step of a loop over the table: the next slot, or done after the last.
NextSlot(p, again, done) ==
  /\ slot' = [slot EXCEPT ![p] = IF @ < NPROC THEN @ + 1 ELSE 1]
  /\ Goto(p, IF slot[p] < NPROC THEN again ELSE done)

Reparent(p) ==
  /\ At(p, "reparent")
  /\ IF parent[slot[p]] = p
     THEN /\ parent' = [parent EXCEPT ![slot[p]] = initproc]
          /\ Goto(p, "adopt")
          /\ UNCHANGED slot
     ELSE NextSlot(p, "reparent", "sched_exit") /\ UNCHANGED parent
  /\ UNCHANGED <<state, chan, pid, killed, kstack, nextpid,
                 clock, sp, havekids, resume, wk>>

Adopt(p) ==
  /\ At(p, "adopt")
  /\ NextSlot(p, "reparent", "sched_exit")
  /\ wk' = IF state[slot[p]] \in {"ZOMBIE", "nZOMBIE"}
           THEN [wk EXCEPT ![p] = [at |-> "test", chan |-> initproc, slot |-> 1]]
           ELSE wk
  /\ UNCHANGED <<table, clock, sp, havekids, resume>>

-----------------------------------------------------------------------------
(* wait().                                                                 *)

WaitChan(p) ==
  /\ At(p, "wait")
  /\ chan' = [chan EXCEPT ![p] = p]
  /\ Goto(p, "waitcas")
  /\ UNCHANGED <<state, parent, pid, killed, kstack, nextpid,
                 clock, sp, locals, wk>>

\* Variant: straight to SLEEPING while still on the stack.
WaitCasSleeping(p) ==
  /\ At(p, "waitcas")
  /\ Cas(p, "RUNNING", "SLEEPING")
  /\ slot' = [slot EXCEPT ![p] = 1]
  /\ havekids' = [havekids EXCEPT ![p] = FALSE]
  /\ Goto(p, "scan")
  /\ UNCHANGED <<chan, parent, pid, killed, kstack, nextpid,
                 clock, sp, resume, wk>>

WaitCas(p) ==
  /\ At(p, "waitcas")
  /\ Cas(p, "RUNNING", "nSLEEPING")
  /\ slot' = [slot EXCEPT ![p] = 1]
  /\ havekids' = [havekids EXCEPT ![p] = FALSE]
  /\ Goto(p, "scan")
  /\ UNCHANGED <<chan, parent, pid, killed, kstack, nextpid,
                 clock, sp, resume, wk>>

ScanParent(p) ==
  /\ At(p, "scan")
  /\ IF parent[slot[p]] = p
     THEN /\ havekids' = [havekids EXCEPT ![p] = TRUE]
          /\ Goto(p, "childtest")
          /\ UNCHANGED slot
     ELSE NextSlot(p, "scan", "scanend") /\ UNCHANGED havekids
  /\ UNCHANGED <<table, clock, sp, resume, wk>>

\* while(p->state == nZOMBIE); if(p->state == ZOMBIE) ...
ScanState(p) ==
  /\ At(p, "childtest")
  /\ state[slot[p]] # "nZOMBIE"
  /\ IF state[slot[p]] = "ZOMBIE"
     THEN Goto(p, "reap") /\ UNCHANGED slot
     ELSE NextSlot(p, "scan", "scanend")
  /\ UNCHANGED <<table, clock, sp, havekids, resume, wk>>

Reap(p) ==
  /\ At(p, "reap")
  /\ Cas(slot[p], "ZOMBIE", "UNUSED")
  /\ Goto(p, "clearpid")
  /\ UNCHANGED <<chan, parent, pid, killed, kstack, nextpid,
                 clock, sp, locals, wk>>

ReapPid(p) ==
  /\ At(p, "clearpid")
  /\ pid' = [pid EXCEPT ![slot[p]] = 0]
  /\ Goto(p, "clearparent")
  /\ UNCHANGED <<state, chan, parent, killed, kstack, nextpid,
                 clock, sp, locals, wk>>

ReapParent(p) ==
  /\ At(p, "clearparent")
  /\ parent' = [parent EXCEPT ![slot[p]] = 0]
  /\ Goto(p, "unchan")
  /\ UNCHANGED <<state, chan, pid, killed, kstack, nextpid,
                 clock, sp, locals, wk>>

WaitUnchan(p) ==
  /\ At(p, "unchan")
  /\ chan' = [chan EXCEPT ![p] = 0]
  /\ Goto(p, "unsleep1")
  /\ UNCHANGED <<state, parent, pid, killed, kstack, nextpid,
                 clock, sp, locals, wk>>

WaitRunning1(p) ==
  /\ At(p, "unsleep1")
  /\ Cas(p, "nRUNNABLE", "RUNNING")
  /\ Goto(p, "unsleep2")
  /\ UNCHANGED <<chan, parent, pid, killed, kstack, nextpid,
                 clock, sp, locals, wk>>

\* Variant: wait() returns in its transient state.
WaitRunning2Dropped(p) ==
  /\ At(p, "unsleep2")
  /\ Return(p)
  /\ UNCHANGED <<table, clock, sp, locals, wk>>

\* The last CAS of both ways out of wait().
WaitRunning2(p) ==
  /\ At(p, "unsleep2")
  /\ Cas(p, "nSLEEPING", "RUNNING")
  /\ Return(p)
  /\ UNCHANGED <<chan, parent, pid, killed, kstack, nextpid,
                 clock, sp, locals, wk>>

ScanEnd(p) ==
  /\ At(p, "scanend")
  /\ IF ~havekids[p] \/ killed[p]
     THEN chan' = [chan EXCEPT ![p] = 0] /\ Goto(p, "unsleep2")
     ELSE Goto(p, "sched_wait") /\ UNCHANGED chan
  /\ UNCHANGED <<state, parent, pid, killed, kstack, nextpid,
                 clock, sp, locals, wk>>

-----------------------------------------------------------------------------
(* sys_sleep() with sleep(&ticks, &tickslock) in its loop.                 *)

SleepAcquire(p) ==
  /\ At(p, "sleep")
  /\ tickslock = 0
  /\ tickslock' = p
  /\ due' = [due EXCEPT ![p] = FALSE]
  /\ Goto(p, "ticktest")
  /\ UNCHANGED <<table, sp, locals, wk>>

SleepTest(p) ==
  /\ At(p, "ticktest")
  /\ IF due[p] \/ killed[p]
     THEN /\ tickslock' = 0
          /\ due' = [due EXCEPT ![p] = FALSE]
          /\ Return(p)
          /\ UNCHANGED chan
     ELSE /\ chan' = [chan EXCEPT ![p] = Ticks]
          /\ Goto(p, "sleepcas")
          /\ UNCHANGED clock
  /\ UNCHANGED <<state, parent, pid, killed, kstack, nextpid, sp, locals, wk>>

SleepCas(p) ==
  /\ At(p, "sleepcas")
  /\ Cas(p, "RUNNING", "nSLEEPING")
  /\ Goto(p, "sleeprelease")
  /\ UNCHANGED <<chan, parent, pid, killed, kstack, nextpid,
                 clock, sp, locals, wk>>

SleepRelease(p) ==
  /\ At(p, "sleeprelease")
  /\ tickslock' = 0
  /\ Goto(p, "sched_sleep")
  /\ UNCHANGED <<table, due, sp, locals, wk>>

SleepReacquire(p) ==
  /\ At(p, "reacquire")
  /\ tickslock = 0
  /\ tickslock' = p
  /\ Goto(p, "ticktest")
  /\ UNCHANGED <<table, due, sp, locals, wk>>

-----------------------------------------------------------------------------
(* kill().  The scan finds a slot with the pid it is given, or none.       *)

KillFind(p) ==
  /\ At(p, "kill")
  /\ \/ \E q \in Proc :
          /\ killed' = [killed EXCEPT ![q] = TRUE]
          /\ slot' = [slot EXCEPT ![p] = q]
          /\ Goto(p, "killspin")
     \/ Return(p) /\ UNCHANGED <<killed, slot>>
  /\ UNCHANGED <<state, chan, parent, pid, kstack, nextpid,
                 clock, sp, havekids, resume, wk>>

\* cas(&proc->state, SLEEPING, RUNNING) is on the caller's own state, and the
\* popcli() that follows, with interrupts enabled, panics.
KillSpin(p) ==
  /\ At(p, "killspin")
  /\ state[slot[p]] # "nSLEEPING"
  /\ Cas(p, "SLEEPING", "RUNNING")
  /\ Goto(p, "panic")
  /\ UNCHANGED <<chan, parent, pid, killed, kstack, nextpid,
                 clock, sp, locals, wk>>

-----------------------------------------------------------------------------
(* What sigsend() and sigpause() do to the process table.  The stack of    *)
(* pending signals is the subject of module Signal; here is_empty() may    *)
(* find it either way.                                                     *)

\* sigsend() to process q: after the push, wakeup(q->chan) with no lock held.
SigSend(p) ==
  /\ At(p, "sigsend")
  /\ \/ \E q \in Proc : CallWakeup1(p, chan[q], "sigsent")
     \/ Return(p) /\ UNCHANGED wk
  /\ UNCHANGED <<table, clock, sp, locals>>

SigSent(p) ==
  /\ At(p, "sigsent")
  /\ Return(p)
  /\ UNCHANGED <<table, clock, sp, locals, wk>>

SigPause(p) ==
  /\ At(p, "sigpause")
  /\ Return(p) \/ Goto(p, "pausechan")
  /\ UNCHANGED <<table, clock, sp, locals, wk>>

PauseChan(p) ==
  /\ At(p, "pausechan")
  /\ chan' = [chan EXCEPT ![p] = p]
  /\ Goto(p, "pausecas")
  /\ UNCHANGED <<state, parent, pid, killed, kstack, nextpid,
                 clock, sp, locals, wk>>

PauseCas(p) ==
  /\ At(p, "pausecas")
  /\ Cas(p, "RUNNING", "nSLEEPING")
  /\ Goto(p, "pausetest")
  /\ UNCHANGED <<chan, parent, pid, killed, kstack, nextpid,
                 clock, sp, locals, wk>>

PauseTest(p) ==
  /\ At(p, "pausetest")
  /\ Goto(p, "unpause1") \/ Goto(p, "sched_pause")
  /\ UNCHANGED <<table, clock, sp, locals, wk>>

PauseUndo1(p) ==
  /\ At(p, "unpause1")
  /\ Cas(p, "nSLEEPING", "RUNNING")
  /\ Goto(p, "unpause2")
  /\ UNCHANGED <<chan, parent, pid, killed, kstack, nextpid,
                 clock, sp, locals, wk>>

PauseUndo2(p) ==
  /\ At(p, "unpause2")
  /\ Cas(p, "SLEEPING", "RUNNING")
  /\ Return(p)
  /\ UNCHANGED <<chan, parent, pid, killed, kstack, nextpid,
                 clock, sp, locals, wk>>

-----------------------------------------------------------------------------
(* scheduler(), sched() and freeproc().                                    *)

\* A pass over the table takes any runnable process: a CAS that fails has no
\* effect, so the place of the pass in the table is not kept.
Pick(c, p) ==
  /\ At(c, "scan")
  /\ state[p] = "RUNNABLE"
  /\ state' = [state EXCEPT ![p] = "RUNNING"]
  /\ sp' = [sp EXCEPT ![c] = p]
  /\ Goto(c, "run")
  /\ UNCHANGED <<chan, parent, pid, killed, kstack, nextpid, clock, locals, wk>>

\* Where a process continues when the scheduler switches back to it; one that
\* has exited would be at panic("zombie exit").
AfterSched(l) ==
  CASE l = "sched_exit"  -> "zombie_exit"
    [] l = "sched_wait"  -> "wait"
    [] l = "sched_sleep" -> "reacquire"
    [] l = "sched_yield" -> "resume"
    [] l = "sched_pause" -> "pausechan"

Sched(c, p) ==
  /\ OnStack(c, p) /\ Executes(p)
  /\ pc[p] \in SchedCalls /\ wk[p].at = "idle"
  /\ IF state[p] = "RUNNING"
     THEN Goto(p, "panic")
     ELSE pc' = [pc EXCEPT ![p] = AfterSched(@), ![c] = "recas1"]
  /\ UNCHANGED <<table, clock, sp, locals, wk>>

Recas(c, from, to, here, next) ==
  /\ At(c, here)
  /\ Cas(sp[c], from, to)
  /\ Goto(c, next)
  /\ UNCHANGED <<chan, parent, pid, killed, kstack, nextpid,
                 clock, sp, locals, wk>>

RecasRunnable(c) == Recas(c, "nRUNNABLE", "RUNNABLE", "recas1", "recas2")

\* Variant: the scheduler does not finish the transition to SLEEPING.
RecasSleepingDropped(c) == Recas(c, "SLEEPING", "SLEEPING", "recas2", "recas3")

RecasSleeping(c) == Recas(c, "nSLEEPING", "SLEEPING", "recas2", "recas3")

RecasZombie(c) == Recas(c, "nZOMBIE", "ZOMBIE", "recas3", "zombietest")

\* Variant: freeproc() is not called.
ZombieTestLeak(c) ==
  /\ At(c, "zombietest")
  /\ Goto(c, "scan")
  /\ sp' = [sp EXCEPT ![c] = 0]
  /\ UNCHANGED <<table, clock, locals, wk>>

ZombieTest(c) ==
  /\ At(c, "zombietest")
  /\ IF state[sp[c]] = "ZOMBIE"
     THEN Goto(c, "freeproc") /\ UNCHANGED sp
     ELSE Goto(c, "scan") /\ sp' = [sp EXCEPT ![c] = 0]
  /\ UNCHANGED <<table, clock, locals, wk>>

FreeprocTest(c) ==
  /\ At(c, "freeproc")
  /\ Goto(c, IF state[sp[c]] = "ZOMBIE" THEN "kfree" ELSE "panic")
  /\ UNCHANGED <<table, clock, sp, locals, wk>>

\* kfree(p->kstack), which panics on a null pointer, and freevm(p->pgdir).
FreeprocMemory(c) ==
  /\ At(c, "kfree")
  /\ Goto(c, IF kstack[sp[c]] THEN "freefields" ELSE "panic")
  /\ kstack' = [kstack EXCEPT ![sp[c]] = FALSE]
  /\ UNCHANGED <<state, chan, parent, pid, killed, nextpid,
                 clock, sp, locals, wk>>

FreeprocFields(c) ==
  /\ At(c, "freefields")
  /\ killed' = [killed EXCEPT ![sp[c]] = FALSE]
  /\ chan' = [chan EXCEPT ![sp[c]] = 0]
  /\ sp' = [sp EXCEPT ![c] = 0]
  /\ Goto(c, "scan")
  /\ UNCHANGED <<state, parent, pid, kstack, nextpid, clock, locals, wk>>

-----------------------------------------------------------------------------
Process(p) ==
  \/ UserTrap(p) \/ Tick(p) \/ TickRelease(p) \/ Yield(p) \/ Resume(p)
  \/ AllocSlot(p) \/ AllocPid(p) \/ KallocStack(p) \/ CopyUvm(p) \/ ForkDone(p)
  \/ ExitCas(p) \/ ExitWakeParent(p) \/ Reparent(p) \/ Adopt(p)
  \/ WaitChan(p) \/ WaitCas(p) \/ ScanParent(p) \/ ScanState(p) \/ ScanEnd(p)
  \/ Reap(p) \/ ReapPid(p) \/ ReapParent(p)
  \/ WaitUnchan(p) \/ WaitRunning1(p) \/ WaitRunning2(p)
  \/ SleepAcquire(p) \/ SleepTest(p) \/ SleepCas(p)
  \/ SleepRelease(p) \/ SleepReacquire(p)
  \/ KillFind(p) \/ KillSpin(p)
  \/ SigSend(p) \/ SigSent(p) \/ SigPause(p) \/ PauseChan(p) \/ PauseCas(p)
  \/ PauseTest(p) \/ PauseUndo1(p) \/ PauseUndo2(p)

Scheduler(c) ==
  \/ IdleTimer(c) \/ Tick(c) \/ TickRelease(c)
  \/ \E p \in Proc : Pick(c, p) \/ Sched(c, p) \/ Timer(c, p)
  \/ RecasRunnable(c) \/ RecasSleeping(c) \/ RecasZombie(c)
  \/ ZombieTest(c) \/ FreeprocTest(c) \/ FreeprocMemory(c) \/ FreeprocFields(c)

Next ==
  \/ \E t \in Thread : Wakeup1(t)
  \/ \E p \in Proc : Process(p)
  \/ \E c \in Cpu : Scheduler(c)

Spec == Init /\ [][Next]_vars

-----------------------------------------------------------------------------
(* Fairness.  A CPU executes the code it is in, kernel code that the timer *)
(* interrupts again and again goes on in between, and the timer interrupts *)
(* a process again and again, not only in the few instructions where it    *)
(* is not RUNNING.  Every pass of a scheduler over the table reaches every *)
(* slot, so a process that is runnable again and again is picked.  Nothing *)
(* forces a user program to make a system call.                            *)

KernelStep(p) == Process(p) /\ pc[p] # "user"

InterruptedStep(p) == KernelStep(p) /\ pc[p] \in Interruptible

Preempt(c, p) == Timer(c, p) /\ state[p] = "RUNNING"

SchedulerStep(c) == Scheduler(c) /\ pc[c] \notin {"scan", "run"}

Fairness ==
  /\ \A t \in Thread : WF_vars(Wakeup1(t))
  /\ \A p \in Proc : WF_vars(KernelStep(p)) /\ SF_vars(InterruptedStep(p))
  /\ \A c \in Cpu :
       /\ WF_vars(SchedulerStep(c))
       /\ WF_vars(IdleTimer(c))
       /\ \A p \in Proc : /\ WF_vars(Sched(c, p))
                         /\ SF_vars(Pick(c, p))
                         /\ SF_vars(Preempt(c, p))

FairSpec == Spec /\ Fairness

-----------------------------------------------------------------------------
(* Properties that hold for every number of CPUs.                          *)

TypeTable ==
  /\ state \in [Proc -> States]
  /\ chan \in [Proc -> Channel]
  /\ parent \in [Proc -> 0 .. NPROC]
  /\ pid \in [Proc -> Nat]
  /\ killed \in [Proc -> BOOLEAN]
  /\ kstack \in [Proc -> BOOLEAN]
  /\ nextpid \in Nat

TypePc ==
  /\ pc \in [Thread -> ProcLabels \cup CpuLabels]
  /\ \A p \in Proc : pc[p] \in ProcLabels
  /\ sp \in [Cpu -> 0 .. NPROC]
  /\ \A c \in Cpu :
       /\ pc[c] \in CpuLabels
       /\ pc[c] \notin {"scan", "tick", "tickrelease"} => sp[c] \in Proc

TypeRest ==
  /\ tickslock \in Thread \cup {0}
  /\ due \in [Proc -> BOOLEAN]
  /\ slot \in [Proc -> Proc]
  /\ havekids \in [Proc -> BOOLEAN]
  /\ resume \in [Proc -> Interruptible]
  /\ wk \in [Thread -> WakeActivation]

\* Every variable has its type, and the loop variable of a scheduler is a slot
\* from the moment it has picked a process until it scans again.
TypeOK == TypeTable /\ TypePc /\ TypeRest

\* No two slots of the table hold the same nonzero pid (allocpid), although
\* slots are reused and failed forks leave their pid behind.
PidUnique == \A p, q \in Proc : p # q /\ pid[p] = pid[q] => pid[p] = 0

ForkLabels == {"allocpid", "kalloc", "copyuvm", "embryo"}

\* Where process p is, looking through a timer interrupt.
Place(p) ==
  IF pc[p] \in {"tick", "tickrelease", "yield", "sched_yield", "resume"}
  THEN resume[p] ELSE pc[p]

Forking(p) == Place(p) \in ForkLabels

\* The slot that a fork has claimed stays an EMBRYO and stays its own until the
\* fork itself gives it up: nobody else claims, reaps or schedules it, even
\* while the forking process is preempted half way (allocproc, fork).
EmbryoOwned ==
  /\ \A p \in Proc : Forking(p) => state[slot[p]] = "EMBRYO"
  /\ \A p, q \in Proc : Forking(p) /\ Forking(q) /\ slot[p] = slot[q] => p = q

\* A RUNNING process is on a CPU: the scheduler never loses one (proc.c 346,
\* 359-365), and sched() never leaves one behind.
RunningOnCpu ==
  \A p \in Proc : state[p] = "RUNNING" => \E c \in Cpu : OnStack(c, p)

\* As long as no kernel stack has been corrupted, a process that calls sched()
\* has changed its state, so panic("sched running") is not reached, ...
SchedNotRunning ==
  ~Corrupted =>
    \A p \in Proc : pc[p] \in SchedCalls => state[p] # "RUNNING"

\* ... and no scheduler switches to a process that has exited, so
\* panic("zombie exit") is not reached.
ExitedNeverRuns ==
  ~Corrupted =>
    \A c \in Cpu, p \in Proc : OnStack(c, p) => pc[p] # "zombie_exit"

(* The inductive invariant behind these properties.                        *)

OnCpu(p) == \E c \in Cpu : OnStack(c, p)

Live == {"RUNNABLE", "RUNNING", "SLEEPING", "nRUNNABLE", "nSLEEPING"}
Dead == {"nZOMBIE", "ZOMBIE", "UNUSED"}

\* exit() after its CAS.
Exiting == {"exitwake", "reparent", "adopt", "sched_exit"}

\* After the CAS that leaves RUNNING, and before the one that undoes it.
Leaving == Exiting \cup SchedCalls \cup
  {"scan", "childtest", "scanend", "reap", "clearpid", "clearparent", "unchan",
   "unsleep1", "sleeprelease"}

\* What a process on a CPU, at label l and continuing at r after an interrupt,
\* has done to its state s.
Active(l, r, s) ==
  /\ l # "zombie_exit"
  /\ IF l \in Exiting THEN s \in Dead ELSE s \in Live
  /\ l \in Leaving \cup {"pausetest"} => s # "RUNNING"
  /\ l \in {"tick", "tickrelease", "yield", "resume"} /\ r = "pausetest" => s # "RUNNING"
  /\ l = "sched_yield" => r # "pausetest"

\* A process that is off the CPU is where a context switch left it; one that
\* has exited is not runnable before its slot has a new context.
Parked(l, r, s) ==
  /\ l \in {"user", "wait", "reacquire", "resume", "pausechan", "zombie_exit"}
  /\ l \notin {"user", "zombie_exit"} => s \in Live
  /\ l = "zombie_exit" => s \in Dead \cup {"EMBRYO"}
  /\ l = "resume" => r # "pausetest"

Placed(p) ==
  IF OnCpu(p) THEN Active(pc[p], resume[p], state[p])
              ELSE Parked(pc[p], resume[p], state[p])

\* A claimed slot that has its kernel stack has the context of forkret.
NewContext(p) == Place(p) \in {"copyuvm", "embryo"} => pc[slot[p]] = "user"

\* Where every process is agrees with its state, on any number of CPUs, until
\* a kernel stack is corrupted (proc.c, all CAS operations together).
Consistent ==
  /\ RunningOnCpu
  /\ EmbryoOwned
  /\ ~Corrupted => \A p \in Proc : Placed(p) /\ NewContext(p)

-----------------------------------------------------------------------------
(* Properties that hold on one CPU.                                        *)

\* A process that others may schedule, wake, reap or free is off its kernel
\* stack: this is what the states nSLEEPING, nRUNNABLE and nZOMBIE are for.
ContextSaved ==
  \A c \in Cpu, p \in Proc :
    OnStack(c, p) => state[p] \in {"RUNNING", "nSLEEPING", "nRUNNABLE", "nZOMBIE"}

\* A process in a transient state is on a CPU or is being put into its final
\* state by the scheduler that it left; none stays in between for ever.
NoLimbo ==
  \A p \in Proc :
    state[p] \in {"nSLEEPING", "nRUNNABLE", "nZOMBIE"} =>
      \E c \in Cpu : sp[c] = p /\ pc[c] \in {"run", "recas1", "recas2", "recas3"}

\* User code runs in state RUNNING: wait() and the others undo their transient
\* states before they return, so exit() and yield() find the state they need.
UserRunning ==
  \A c \in Cpu, p \in Proc :
    OnStack(c, p) /\ pc[p] = "user" => state[p] = "RUNNING"

\* Someone still has to pass slot p in a wakeup1(ch).
WakeupPending(ch, p) ==
  \E t \in Thread : wk[t].at # "idle" /\ wk[t].chan = ch /\ wk[t].slot <= p

InWait(p) ==
  pc[p] \in {"wait", "waitcas", "scan", "childtest", "scanend", "sched_wait",
            "reap", "clearpid", "clearparent", "unchan", "unsleep1", "unsleep2"}

\* A parent does not sleep in wait() while it has a zombie to reap.
NoMissedExit ==
  \A p, q \in Proc :
    state[p] = "SLEEPING" /\ InWait(p) /\ parent[q] = p => state[q] # "ZOMBIE"

\* A process does not sleep on after the tick it waits for, and what is asleep
\* has a channel on which it can be woken.
NoLostTick ==
  \A p \in Proc :
    state[p] = "SLEEPING" =>
      /\ chan[p] # 0
      /\ chan[p] = Ticks /\ due[p] => WakeupPending(Ticks, p)

\* The memory of a process is there while it can run, and is returned before
\* its slot is free again: freeproc runs exactly once for every exit.
MemoryOwned ==
  \A p \in Proc :
    /\ state[p] \in {"SLEEPING", "RUNNABLE", "RUNNING",
                    "nSLEEPING", "nRUNNABLE", "nZOMBIE"} => kstack[p]
    /\ state[p] = "UNUSED" => ~kstack[p]

\* A process that has exited is nobody's parent: its children, the zombies and
\* the half-made ones among them, belong to a live process or to init.
OrphansAdopted ==
  \A p, q \in Proc :
    parent[p] = q => state[q] \notin {"UNUSED", "EMBRYO", "ZOMBIE"}

\* No panic of the process code is reached.
NoPanic ==
  /\ \A t \in Thread : pc[t] # "panic"
  /\ \A c \in Cpu, p \in Proc : OnStack(c, p) => pc[p] # "zombie_exit"

\* A wait() whose caller has a zombie child returns.
WaitReturns ==
  \A p \in Proc :
    (InWait(p) /\ \E q \in Proc : parent[q] = p /\ state[q] = "ZOMBIE")
      ~> ~InWait(p)

\* A sys_sleep() returns.
SleepReturns ==
  \A p \in Proc : Place(p) \in {"sleep"} \cup SleepLabels ~> Place(p) = "user"

=============================================================================
