------------------------------ MODULE Console ------------------------------
(***************************************************************************)
(* Console input and output (console.c) with spin locks (spinlock.c),      *)
(* interrupts (trap.c), and processes that sleep and are preempted.        *)
(*                                                                         *)
(* A CPU runs a process or, when run is NONE, the scheduler; an interrupt  *)
(* handler runs on top of either and is the thread named by the CPU.  A    *)
(* step that holds a lock does what there is to do until the next test,    *)
(* character, acquire or release.  Process states are those of Proc with   *)
(* its transitions merged: here nothing depends on the steps in between.   *)
(***************************************************************************)
EXTENDS Integers, Sequences, FiniteSets, SequencesExt

CONSTANTS
  Cpu, Proc, NONE,
  IrqCpu,             \* the CPU that the keyboard's and the serial line's interrupts go to
  INPUT_BUF,          \* size of the input buffer
  UINT,               \* numbers of an index: a multiple of INPUT_BUF
  Key,                \* keys that are typed
  MaxKeys,            \* bound: keys typed in a behaviour
  MaxRead             \* bound: what a read asks for

ASSUME ConsoleAssumption == IrqCpu \in Cpu /\ {INPUT_BUF, UINT} \subseteq Nat \ {0} /\ UINT % INPUT_BUF = 0 /\ UINT > INPUT_BUF

Lock == {"input", "cons"}

VARIABLES
  cpu,          \* per CPU: IF, ncli, intena, and the process it runs
  lock,         \* the CPU that holds each lock
  pc, want,     \* per thread: place; the lock it waits for, and where it goes then
  state, in, intena, killed,    \* per process: state, what it is switched out in, and intena meanwhile
  n, target,    \* per process: locals of consoleread
  input,        \* buf, r, w, e
  typed,        \* how many keys were fetched from the keyboard
  panic,
  stream, line  \* history: complete lines not yet read, and the line under edit

lockvars == <<cpu, lock>>
procvars == <<state, in, intena, killed>>
readvars == <<n, target>>
vars == <<lockvars, pc, want, procvars, readvars, input, typed, panic, stream, line>>

Nowhere == [lock |-> "input", then |-> "none"]

Init ==
  /\ cpu = [c \in Cpu |-> [IF |-> TRUE, ncli |-> 0, intena |-> TRUE, run |-> NONE]]
  /\ lock = [l \in Lock |-> NONE]
  /\ pc = [t \in Cpu \cup Proc |-> IF t \in Cpu THEN "none" ELSE "user"]
  /\ want = [t \in Cpu \cup Proc |-> Nowhere]
  /\ state = [p \in Proc |-> "runnable"] /\ in = [p \in Proc |-> "yield"]
  /\ intena = [p \in Proc |-> FALSE] /\ killed = [p \in Proc |-> FALSE]
  /\ n = [p \in Proc |-> 0] /\ target = [p \in Proc |-> 0]
  /\ input = [buf |-> [i \in 0 .. INPUT_BUF - 1 |-> NONE], r |-> 0, w |-> 0, e |-> 0]
  /\ typed = 0
  /\ panic = FALSE
  /\ stream = <<>> /\ line = <<>>
----------------------------------------------------------------------------
(* spinlock.c *)

\* The thread that CPU c executes.
Thread(c) == IF pc[c] # "none" THEN c ELSE cpu[c].run
At(c, t, l) == t = Thread(c) /\ pc[t] = l /\ ~panic
Goto(t, l) == pc' = [pc EXCEPT ![t] = l]

pushcli(x) == [x EXCEPT !.ncli = @ + 1, !.intena = IF x.ncli = 0 THEN x.IF ELSE @, !.IF = FALSE]
popcli(x) == [x EXCEPT !.ncli = @ - 1, !.IF = (x.ncli = 1 /\ x.intena)]

\* acquire(l): pushcli and the test of holding; then Spin, which goes to label then.
acquire(c, t, l, then) ==
  /\ panic' = (lock[l] = c)                                    \* "acquire"
  /\ cpu' = [cpu EXCEPT ![c] = pushcli(@)]
  /\ want' = [want EXCEPT ![t] = [lock |-> l, then |-> then]]
  /\ Goto(t, "spin")
  /\ UNCHANGED lock

\* xchg(&lk->locked, 1), when it returns 0.
Spin(c) ==
  \E t \in Cpu \cup Proc :
    /\ At(c, t, "spin") /\ lock[want[t].lock] = NONE
    /\ lock' = [lock EXCEPT ![want[t].lock] = c]
    /\ Goto(t, want[t].then)
    /\ want' = [want EXCEPT ![t] = Nowhere]
    /\ UNCHANGED <<cpu, procvars, readvars, input, typed, panic, stream, line>>

release(c, l) ==
  /\ lock' = [lock EXCEPT ![l] = NONE]
  /\ cpu' = [cpu EXCEPT ![c] = popcli(@)]
----------------------------------------------------------------------------
(* The scheduler, yield and sleep *)

\* The scheduler switches to process p, with interrupts off and ncli 1, at the
\* beginning of its loop or after another process; sched then restores intena.
KeepIntena(p, x) == x
RestoreIntena(p, x) == [x EXCEPT !.intena = intena[p]]
Resumed(p, x) == RestoreIntena(p, IF x.ncli = 0 THEN pushcli(x) ELSE x)

scheduler(c) ==
  /\ cpu[c].run = NONE /\ pc[c] = "none" /\ ~panic
  /\ \E p \in Proc :
       /\ state[p] = "runnable"
       /\ state' = [state EXCEPT ![p] = "running"]
       /\ cpu' = [cpu EXCEPT ![c] = [Resumed(p, @) EXCEPT !.run = p]]
  /\ UNCHANGED <<lock, pc, want, in, intena, killed, readvars, input, typed, panic, stream, line>>

\* The end of the scheduler's loop: popcli, and sti.
SchedulerSti(c) ==
  /\ cpu[c].run = NONE /\ cpu[c].ncli = 1 /\ pc[c] = "none" /\ ~panic
  /\ cpu' = [cpu EXCEPT ![c] = [@ EXCEPT !.IF = TRUE, !.ncli = 0, !.intena = TRUE]]
  /\ UNCHANGED <<lock, pc, want, procvars, readvars, input, typed, panic, stream, line>>

\* sched: the CPU goes on in the scheduler's loop.
Sched(c, p, s, how, x) ==
  /\ intena' = [intena EXCEPT ![p] = x.intena]
  /\ state' = [state EXCEPT ![p] = s]
  /\ in' = [in EXCEPT ![p] = how]
  /\ cpu' = [cpu EXCEPT ![c] = [x EXCEPT !.run = NONE]]
  /\ UNCHANGED killed

\* The rest of yield, and the return from the timer's trap, which restores IF.
YieldReturns(c) ==
  /\ cpu[c].run # NONE /\ pc[c] = "none" /\ ~panic
  /\ in[cpu[c].run] = "yield"
  /\ in' = [in EXCEPT ![cpu[c].run] = "none"]
  /\ cpu' = [cpu EXCEPT ![c] = [popcli(@) EXCEPT !.IF = TRUE]]
  /\ UNCHANGED <<lock, pc, want, state, intena, killed, readvars, input, typed, panic, stream, line>>

\* sleep(&input.r, &input.lock) by p, which holds the lock.
sleep(c, p) ==
  /\ lock' = [lock EXCEPT !["input"] = NONE]
  /\ Sched(c, p, "sleeping", "sleep", popcli(pushcli(cpu[c])))
  /\ Goto(p, "sleep")

\* The rest of sleep: acquire the lock again, and popcli.
SleepReturns(c, p) ==
  /\ At(c, p, "sleep") /\ in[p] = "sleep"
  /\ in' = [in EXCEPT ![p] = "none"]
  /\ acquire(c, p, "input", "popcli")
  /\ UNCHANGED <<state, intena, killed, readvars, input, typed, stream, line>>

SleepPopcli(c, p) ==
  /\ At(c, p, "popcli")
  /\ cpu' = [cpu EXCEPT ![c] = popcli(@)]
  /\ Goto(p, "consoleread")
  /\ UNCHANGED <<lock, want, procvars, readvars, input, typed, panic, stream, line>>

\* wakeup(&input.r): who of the sleepers of consoleread is made runnable.
WakesNobody == state
WakesReaders == [p \in Proc |-> IF state[p] = "sleeping" THEN "runnable" ELSE state[p]]
----------------------------------------------------------------------------
(* consoleread and consolewrite *)

\* A system call: interrupts are on.
Runs(c, p) == p = Thread(c) /\ in[p] = "none"

CallRead(c, p) ==
  /\ At(c, p, "user") /\ Runs(c, p) /\ ~killed[p]
  /\ \E k \in 1 .. MaxRead : n' = [n EXCEPT ![p] = k] /\ target' = [target EXCEPT ![p] = k]
  /\ acquire(c, p, "input", "consoleread")
  /\ UNCHANGED <<procvars, input, typed, stream, line>>

CallWrite(c, p) ==
  /\ At(c, p, "user") /\ Runs(c, p) /\ ~killed[p]
  /\ acquire(c, p, "cons", "consolewrite")
  /\ UNCHANGED <<procvars, readvars, input, typed, stream, line>>

Done(c, p, l) ==
  /\ release(c, l) /\ Goto(p, "return")
  /\ n' = [n EXCEPT ![p] = 0] /\ target' = [target EXCEPT ![p] = 0]

\* The return from the system call restores the user's IF.
Trapret(c, p) ==
  /\ At(c, p, "return") /\ Runs(c, p) /\ ~killed[p]
  /\ cpu' = [cpu EXCEPT ![c].IF = TRUE]
  /\ Goto(p, "user")
  /\ UNCHANGED <<lock, want, procvars, readvars, input, typed, panic, stream, line>>

\* trap makes a killed process exit, at the beginning or at the end of a call.
Exit(c, p) ==
  /\ At(c, p, pc[p]) /\ pc[p] \in {"user", "return"} /\ Runs(c, p) /\ killed[p]
  /\ Sched(c, p, "zombie", "none", pushcli(cpu[c]))
  /\ Goto(p, "none")
  /\ UNCHANGED <<lock, want, readvars, input, typed, panic, stream, line>>

\* One round of the loop of consoleread.  A ^D after other bytes stays for the next read.
consoleread(c, p) ==
  LET ch == input.buf[input.r % INPUT_BUF]
      eof == ch = "^D"
      last == eof \/ ch = "\n" \/ n[p] = 1
      takes == ~(eof /\ n[p] < target[p])
  IN
  /\ At(c, p, "consoleread")
  /\ \/ /\ input.r = input.w /\ ~killed[p]
        /\ sleep(c, p)
        /\ UNCHANGED <<readvars, input, stream>>
     \/ /\ input.r = input.w /\ killed[p]
        /\ Done(c, p, "input")
        /\ UNCHANGED <<procvars, input, stream>>
     \/ /\ input.r # input.w
        /\ input' = [input EXCEPT !.r = IF takes THEN (@ + 1) % UINT ELSE @]
        /\ stream' = IF takes THEN Tail(stream) ELSE stream
        /\ IF last THEN Done(c, p, "input")
           ELSE n' = [n EXCEPT ![p] = @ - 1] /\ UNCHANGED <<lockvars, pc, target>>
        /\ UNCHANGED procvars
  /\ UNCHANGED <<want, typed, panic, line>>

consolewrite(c, p) ==
  /\ At(c, p, "consolewrite")
  /\ Done(c, p, "cons")
  /\ UNCHANGED <<want, procvars, input, typed, panic, stream, line>>
----------------------------------------------------------------------------
(* Interrupts *)

\* A key is typed, and the CPU takes the interrupt: the gate clears IF, and
\* consoleintr acquires the lock.
consoleintr(c) ==
  /\ c = IrqCpu /\ cpu[c].IF /\ pc[c] = "none" /\ typed < MaxKeys /\ ~panic
  /\ panic' = (lock["input"] = c)
  /\ cpu' = [cpu EXCEPT ![c] = pushcli([@ EXCEPT !.IF = FALSE])]
  /\ want' = [want EXCEPT ![c] = [lock |-> "input", then |-> "getc"]]
  /\ Goto(c, "spin")
  /\ UNCHANGED <<lock, procvars, readvars, input, typed, stream, line>>

Room(i) == (i.e - i.r) % UINT < INPUT_BUF

\* ^U: the edit index goes back to the write index; no newline is in between.
KillLine(i) == [i EXCEPT !.e = i.w]

\* One key: control keys edit the line; others go into the buffer, and the
\* line is complete after a newline, a ^D or when the buffer is full.
Getc(c, k) ==
  LET e1 == (input.e + 1) % UINT
      complete == k \in {"\n", "^D"} \/ e1 = (input.r + INPUT_BUF) % UINT
  IN
  /\ At(c, c, "getc") /\ typed < MaxKeys /\ k # "^P"
  /\ typed' = typed + 1
  /\ \/ /\ k = "^U"
        /\ input' = KillLine(input)
        /\ line' = <<>>
        /\ UNCHANGED <<state, stream>>
     \/ /\ k = "^H" /\ input.e # input.w
        /\ input' = [input EXCEPT !.e = (@ - 1) % UINT]
        /\ line' = Front(line)
        /\ UNCHANGED <<state, stream>>
     \/ /\ k \notin {"^U", "^H"} /\ Room(input)
        /\ input' = [input EXCEPT !.buf[input.e % INPUT_BUF] = k, !.e = e1, !.w = IF complete THEN e1 ELSE @]
        /\ stream' = IF complete THEN stream \o Append(line, k) ELSE stream
        /\ line' = IF complete THEN <<>> ELSE Append(line, k)
        /\ state' = IF complete THEN WakesReaders ELSE state
     \/ /\ (k = "^H" /\ input.e = input.w) \/ (k \notin {"^U", "^H"} /\ ~Room(input))
        /\ UNCHANGED <<input, state, stream, line>>
  /\ UNCHANGED <<lockvars, pc, want, in, intena, killed, readvars, panic>>

\* ^P: procdump prints with cprintf, which takes cons.lock inside input.lock.
Procdump(c) ==
  /\ At(c, c, "getc") /\ typed < MaxKeys
  /\ typed' = typed + 1
  /\ acquire(c, c, "cons", "cprintf")
  /\ UNCHANGED <<procvars, readvars, input, stream, line>>

Cprintf(c) ==
  /\ At(c, c, "cprintf")
  /\ release(c, "cons") /\ Goto(c, "getc")
  /\ UNCHANGED <<want, procvars, readvars, input, typed, panic, stream, line>>

\* No more keys: release, and the return from the trap restores IF.
IntrReturns(c) ==
  /\ At(c, c, "getc")
  /\ lock' = [lock EXCEPT !["input"] = NONE]
  /\ cpu' = [cpu EXCEPT ![c] = [popcli(@) EXCEPT !.IF = TRUE]]
  /\ Goto(c, "none")
  /\ UNCHANGED <<want, procvars, readvars, input, typed, panic, stream, line>>

\* The timer interrupts a process, which yields.
Timer(c) ==
  LET p == cpu[c].run IN
  /\ cpu[c].IF /\ pc[c] = "none" /\ p # NONE /\ ~panic
  /\ in[p] = "none"
  /\ Sched(c, p, "runnable", "yield", pushcli([cpu[c] EXCEPT !.IF = FALSE]))
  /\ UNCHANGED <<lock, pc, want, readvars, input, typed, panic, stream, line>>

\* kill sets the flag; it does not wake the process.  (Its popcli panics, module
\* Proc: that stops the killer, which is none of the processes here.)  One process is killed.
Kill(p) ==
  /\ \A q \in Proc : ~killed[q]
  /\ ~panic
  /\ killed' = [killed EXCEPT ![p] = TRUE]
  /\ UNCHANGED <<lockvars, pc, want, state, in, intena, readvars, input, typed, panic, stream, line>>

\* Everybody waits for a key, or the kernel has panicked.
Halted ==
  /\ panic \/ (typed = MaxKeys /\ \A p \in Proc : state[p] \in {"sleeping", "zombie"})
  /\ UNCHANGED vars

Next ==
  \/ \E c \in Cpu :
       \/ Spin(c) \/ scheduler(c) \/ SchedulerSti(c) \/ YieldReturns(c)
       \/ consoleintr(c) \/ (\E k \in Key : Getc(c, k)) \/ Procdump(c) \/ Cprintf(c) \/ IntrReturns(c) \/ Timer(c)
       \/ \E p \in Proc :
            \/ CallRead(c, p) \/ CallWrite(c, p) \/ consoleread(c, p) \/ consolewrite(c, p)
            \/ SleepReturns(c, p) \/ SleepPopcli(c, p) \/ Trapret(c, p) \/ Exit(c, p)
  \/ \E p \in Proc : Kill(p)
  \/ Halted

Spec == Init /\ [][Next]_vars
----------------------------------------------------------------------------
(* Properties *)

InBuffer(from, len) == [i \in 1 .. len |-> input.buf[(from + i - 1) % INPUT_BUF]]


\* No process sleeps in consoleread while there is a line to read.
ReaderWoken == stream # <<>> => \A p \in Proc : state[p] # "sleeping"

\* A CPU that holds a lock has interrupts off, so its handler never waits for
\* a lock that the code under it holds ("acquire" panics); and one in a system
\* call that holds none has them on, after any sleeping, migration and
\* preemption: intena belongs to the process and not to the CPU.
InterruptsMatch ==
  /\ ~panic
  /\ \A c \in Cpu :
       /\ (\E l \in Lock : lock[l] = c) => ~cpu[c].IF
       /\ cpu[c].IF <=> (cpu[c].ncli = 0 /\ pc[c] = "none")
=============================================================================
