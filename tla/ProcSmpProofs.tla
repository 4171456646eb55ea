---------------------------- MODULE ProcSmpProofs ----------------------------
(***************************************************************************)
(* Proofs, for every number of CPUs and of slots, that the invariant       *)
(* Consistent is inductive, and of the properties it implies.              *)
(***************************************************************************)
EXTENDS ProcProofs

\* How a CAS by one thread may change the state of a process that does not move:
\* it makes nobody RUNNING, and keeps the living alive, the dead dead and an
\* embryo an embryo.
Harmless(a, b) ==
  /\ b = "RUNNING" => a = "RUNNING"
  /\ a \in Live => b \in Live
  /\ a \in Dead => b \in Dead
  /\ a = "EMBRYO" => b = "EMBRYO"

\* A process that does not move stays where its state says it is, whatever
\* harmless CAS others apply to it (wakeup1, scheduler, wait).
LEMMA Untouched ==
  ASSUME NEW q \in Proc, Placed(q), pc'[q] = pc[q], resume'[q] = resume[q],
         OnCpu(q)' <=> OnCpu(q), Harmless(state[q], state'[q])
  PROVE  Placed(q)'
<1>1. ASSUME NEW l, NEW r, NEW s, NEW u, Harmless(s, u), Active(l, r, s)
      PROVE  Active(l, r, u)
  BY <1>1 DEF Harmless, Active
<1>2. ASSUME NEW l, NEW r, NEW s, NEW u, Harmless(s, u), Parked(l, r, s)
      PROVE  Parked(l, r, u)
  BY <1>2 DEF Harmless, Parked
<1> QED
  BY <1>1, <1>2 DEF Placed

\* An untouched process that others do not make RUNNING is still on its CPU.
LEMMA UntouchedRunning ==
  ASSUME RunningOnCpu, NEW q \in Proc, OnCpu(q) => OnCpu(q)',
         Harmless(state[q], state'[q]), state'[q] = "RUNNING"
  PROVE  OnCpu(q)'
  BY DEF RunningOnCpu, Harmless, OnCpu

\* A process on a CPU of a sane machine is not an embryo, so no fork owns its slot.
LEMMA NotEmbryo ==
  ASSUME TypeOK, ~Corrupted, NEW p \in Proc, OnCpu(p)
  PROVE  state[p] # "EMBRYO" /\ kstack[p]
  BY DEF Corrupted, OnCpu, OnStack

\* When the CPUs do not switch, the same processes are on a CPU.
LEMMA SameCpu ==
  ASSUME NEW q \in Proc, sp' = sp, \A c \in Cpu : pc'[c] = "run" <=> pc[c] = "run"
  PROVE  OnCpu(q)' <=> OnCpu(q)
  BY DEF OnCpu, OnStack

\* A step of a CPU or of wakeup1 that moves no process.
LEMMA CpuStep ==
  ASSUME TypeOK, Consistent, ~Corrupted,
         \A q \in Proc : OnCpu(q)' <=> OnCpu(q),
         \A q \in Proc : pc'[q] = pc[q], resume' = resume, slot' = slot,
         \A q \in Proc : Harmless(state[q], state'[q])
  PROVE  Consistent'
<1>1. RunningOnCpu'
  BY UntouchedRunning DEF RunningOnCpu, Consistent, OnCpu
<1>2. \A q \in Proc : slot[q] \in Proc
  BY DEF TypeOK, TypeRest
<1>3. \A q \in Proc : Place(q)' = Place(q)
  BY DEF Place
<1>4. EmbryoOwned'
  BY <1>2, <1>3 DEF EmbryoOwned, Consistent, Forking, Harmless
<1>5. \A q \in Proc : Placed(q)'
  BY Untouched DEF Consistent
<1>6. \A q \in Proc : NewContext(q)'
  BY <1>2, <1>3 DEF NewContext, Consistent
<1> QED
  BY <1>1, <1>4, <1>5, <1>6 DEF Consistent

\* A step of a process p on a CPU, to label l.
LEMMA ProcStep ==
  ASSUME TypeOK, Consistent, ~Corrupted, NEW p \in Proc, OnCpu(p),
         NEW l, pc' = [pc EXCEPT ![p] = l], sp' = sp,
         \A q \in Proc \ {p} : /\ resume'[q] = resume[q] /\ slot'[q] = slot[q]
                               /\ Harmless(state[q], state'[q]),
         Active(l, resume'[p], state'[p]),
         Forking(p)' => Forking(p) /\ slot'[p] = slot[p],
         Place(p)' \in {"copyuvm", "embryo"} => Place(p) \in {"copyuvm", "embryo"}
  PROVE  Consistent'
<1>0. pc \in [Thread -> ProcLabels \cup CpuLabels] /\ p \in Thread
  BY Basics DEF TypeOK, TypePc
<1>1. \A q \in Proc : OnCpu(q)' <=> OnCpu(q)
  BY <1>0, Basics, SameCpu
<1>2. pc'[p] = l /\ \A q \in Proc \ {p} : pc'[q] = pc[q]
  BY <1>0, Basics
<1>3. RunningOnCpu'
  BY <1>1, UntouchedRunning DEF RunningOnCpu, Consistent, OnCpu
<1>4. \A q \in Proc : slot[q] \in Proc
  BY DEF TypeOK, TypeRest
<1>5. \A q \in Proc \ {p} : Place(q)' = Place(q)
  BY <1>2 DEF Place
<1>6. \A q \in Proc : Forking(q)' => Forking(q) /\ slot'[q] = slot[q]
  BY <1>5 DEF Forking
<1>7. \A q \in Proc : Forking(q) => slot[q] # p
  BY NotEmbryo DEF EmbryoOwned, Consistent
<1>8. EmbryoOwned'
  BY <1>4, <1>6, <1>7 DEF EmbryoOwned, Consistent, Harmless
<1>9. \A q \in Proc : Placed(q)'
  <2>1. Placed(p)'
    BY <1>1, <1>2 DEF Placed
  <2>2. \A q \in Proc \ {p} : Placed(q)'
    BY <1>1, <1>2, Untouched DEF Consistent
  <2> QED
    BY <2>1, <2>2
<1>10. \A q \in Proc : NewContext(q)'
  <2> SUFFICES ASSUME NEW q \in Proc, Place(q)' \in {"copyuvm", "embryo"}
               PROVE  pc'[slot'[q]] = "user"
    BY DEF NewContext
  <2>1. Place(q) \in {"copyuvm", "embryo"}
    BY <1>5
  <2>2. Forking(q)' /\ Forking(q)
    BY <2>1 DEF Forking, ForkLabels
  <2> QED
    BY <2>1, <2>2, <1>2, <1>4, <1>6, <1>7 DEF NewContext, Consistent
<1> QED
  BY <1>3, <1>8, <1>9, <1>10 DEF Consistent

\* What is known of a process that takes a step.
LEMMA AtProc ==
  ASSUME TypeOK, Consistent, NEW p \in Proc, NEW l, At(p, l)
  PROVE  /\ ~Corrupted /\ OnCpu(p) /\ pc[p] = l
         /\ Active(l, resume[p], state[p])
         /\ pc \in [Thread -> ProcLabels \cup CpuLabels]
         /\ resume \in [Proc -> Interruptible]
         /\ slot \in [Proc -> Proc]
         /\ state \in [Proc -> States]
  BY Basics DEF At, Executes, OnCpu, Consistent, Placed, TypeOK, TypePc, TypeRest, TypeTable

\* ... and of a CPU in its scheduler loop.
LEMMA AtCpu ==
  ASSUME TypeOK, Consistent, NEW c \in Cpu, NEW l, At(c, l)
  PROVE  /\ ~Corrupted /\ pc[c] = l /\ l # "run"
         /\ pc \in [Thread -> ProcLabels \cup CpuLabels]
         /\ state \in [Proc -> States]
         /\ sp[c] \in 0 .. NPROC
         /\ l \notin {"scan", "tick", "tickrelease"} => sp[c] \in Proc
  BY Basics DEF At, Executes, TypeOK, TypePc, TypeTable

\* Nothing changes for a state that stays the same.
LEMMA HarmlessSame == \A a : Harmless(a, a)
  BY DEF Harmless

\* The CAS operations of wakeup1, of the scheduler and of wait() on the state
\* of another process are harmless.
LEMMA HarmlessCas ==
  ASSUME state \in [Proc -> States], NEW q \in Proc,
         NEW from, NEW to, Cas(q, from, to),
         \/ from = "nSLEEPING" /\ to = "nRUNNABLE"
         \/ from = "SLEEPING" /\ to = "RUNNABLE"
         \/ from = "nRUNNABLE" /\ to = "RUNNABLE"
         \/ from = "nSLEEPING" /\ to = "SLEEPING"
         \/ from = "nZOMBIE" /\ to = "ZOMBIE"
         \/ from = "ZOMBIE" /\ to = "UNUSED"
  PROVE  \A r \in Proc : Harmless(state[r], state'[r])
<1>1. Harmless(from, to)
  BY DEF Harmless, Live, Dead
<1>2. \A r \in Proc : state'[r] = state[r] \/ (state[r] = from /\ state'[r] = to)
  BY DEF Cas
<1> QED
  BY <1>1, <1>2, HarmlessSame

Interrupt == {"tick", "tickrelease", "yield", "sched_yield", "resume"}

\* A step to a label that demands nothing but a live state.
LEMMA PlainStep ==
  ASSUME TypeOK, Consistent, ~Corrupted, NEW p \in Proc, OnCpu(p),
         NEW l, pc' = [pc EXCEPT ![p] = l], sp' = sp, resume' = resume,
         \A q \in Proc \ {p} : slot'[q] = slot[q] /\ Harmless(state[q], state'[q]),
         l \notin Leaving \cup Interrupt \cup ForkLabels \cup {"zombie_exit", "pausetest"},
         state'[p] \in Live
  PROVE  Consistent'
<1>1. Active(l, resume'[p], state'[p])
  BY DEF Active, Leaving, Interrupt
<1>2. pc'[p] = l
  BY Basics DEF TypeOK, TypePc
<1>3. Place(p)' = l
  BY <1>2 DEF Place, Interrupt
<1>4. l \notin ForkLabels /\ ~Forking(p)' /\ Place(p)' \notin {"copyuvm", "embryo"}
  BY <1>3 DEF Forking, ForkLabels
<1> QED
  BY <1>1, <1>4, ProcStep

\* A step inside exit().
LEMMA ExitStep ==
  ASSUME TypeOK, Consistent, ~Corrupted, NEW p \in Proc, OnCpu(p),
         NEW l, pc' = [pc EXCEPT ![p] = l], sp' = sp, resume' = resume,
         \A q \in Proc \ {p} : slot'[q] = slot[q] /\ Harmless(state[q], state'[q]),
         l \in Exiting, state'[p] \in Dead
  PROVE  Consistent'
<1>1. Active(l, resume'[p], state'[p])
  BY DEF Active, Exiting, Dead
<1>2. pc'[p] = l
  BY Basics DEF TypeOK, TypePc
<1>3. Place(p)' = l
  BY <1>2 DEF Place, Exiting
<1>4. ~Forking(p)' /\ Place(p)' \notin {"copyuvm", "embryo"}
  BY <1>3 DEF Forking, ForkLabels, Exiting
<1> QED
  BY <1>1, <1>4, ProcStep

\* A step between the CAS that leaves RUNNING and sched(), or the CAS back.
LEMMA LeaveStep ==
  ASSUME TypeOK, Consistent, ~Corrupted, NEW p \in Proc, OnCpu(p),
         NEW l, pc' = [pc EXCEPT ![p] = l], sp' = sp, resume' = resume,
         \A q \in Proc \ {p} : slot'[q] = slot[q] /\ Harmless(state[q], state'[q]),
         l \in (Leaving \cup {"pausetest"}) \ (Exiting \cup {"sched_yield"}),
         state'[p] \in Live \ {"RUNNING"}
  PROVE  Consistent'
<1>1. Active(l, resume'[p], state'[p])
  BY DEF Active, Leaving, Exiting, SchedCalls
<1>2. pc'[p] = l
  BY Basics DEF TypeOK, TypePc
<1>3. Place(p)' = l
  BY <1>2 DEF Place, Leaving, SchedCalls, Exiting
<1>4. ~Forking(p)' /\ Place(p)' \notin {"copyuvm", "embryo"}
  BY <1>3 DEF Forking, ForkLabels, Leaving, SchedCalls, Exiting
<1> QED
  BY <1>1, <1>4, ProcStep

-----------------------------------------------------------------------------
(* One lemma per part of proc.c: its actions keep Consistent.              *)

\* wakeup1(), on any channel and at any moment.
LEMMA WakeupConsistent ==
  ASSUME TypeOK, Consistent, NEW t \in Thread, Wakeup1(t)
  PROVE  Consistent'
<1>1. wk[t].slot \in Proc /\ state \in [Proc -> States]
  BY WakeType DEF TypeOK, TypeRest, TypeTable
<1>2. ~Corrupted /\ pc' = pc /\ sp' = sp /\ resume' = resume /\ slot' = slot
  BY DEF Wakeup1, WakeupTest, WakeupNSleeping, WakeupNClear, WakeupSleeping, WakeupClear,
         WakeAt, Executes, locals
<1>3. \A q \in Proc : Harmless(state[q], state'[q])
  <2>1. CASE WakeupTest(t) \/ WakeupNClear(t) \/ WakeupClear(t)
    BY <2>1, HarmlessSame DEF WakeupTest, WakeupNClear, WakeupClear, table
  <2>2. CASE WakeupNSleeping(t)
    BY <2>2, <1>1, HarmlessCas DEF WakeupNSleeping
  <2>3. CASE WakeupSleeping(t)
    BY <2>3, <1>1, HarmlessCas DEF WakeupSleeping
  <2> QED
    BY <2>1, <2>2, <2>3 DEF Wakeup1
<1>4. \A q \in Proc : OnCpu(q)' <=> OnCpu(q)
  BY <1>2, SameCpu
<1> QED
  BY <1>2, <1>3, <1>4, CpuStep

\* The timer interrupt of a process, up to yield() and back.
LEMMA InterruptConsistent ==
  ASSUME TypeOK, Consistent, NEW p \in Proc,
         Tick(p) \/ TickRelease(p) \/ Yield(p) \/ Resume(p) \/ \E c \in Cpu : Timer(c, p)
  PROVE  Consistent'
<1> USE HarmlessSame, Basics
<1>1. CASE Tick(p)
  <2>1. pc' = [pc EXCEPT ![p] = "tickrelease"] /\ At(p, "tick")
    BY <1>1 DEF Tick, CallWakeup1, Goto
  <2>2. sp' = sp /\ resume' = resume /\ slot' = slot /\ state' = state
    BY <1>1 DEF Tick, table, locals
  <2>3. Active("tickrelease", resume'[p], state'[p])
    BY <2>1, <2>2, AtProc DEF Active, Exiting, Leaving, SchedCalls
  <2>4. Place(p)' = Place(p)
    BY <2>1, <2>2, AtProc DEF Place
  <2> QED
    BY <2>1, <2>2, <2>3, <2>4, AtProc, ProcStep DEF Forking
<1>2. CASE TickRelease(p)
  <2>1. pc' = [pc EXCEPT ![p] = "yield"] /\ At(p, "tickrelease")
    BY <1>2 DEF TickRelease, Goto
  <2>2. sp' = sp /\ resume' = resume /\ slot' = slot /\ state' = state
    BY <1>2 DEF TickRelease, table, locals
  <2>3. Active("yield", resume'[p], state'[p])
    BY <2>1, <2>2, AtProc DEF Active, Exiting, Leaving, SchedCalls
  <2>4. Place(p)' = Place(p)
    BY <2>1, <2>2, AtProc DEF Place
  <2> QED
    BY <2>1, <2>2, <2>3, <2>4, AtProc, ProcStep DEF Forking
<1>3. CASE Yield(p)
  <2>1. At(p, "yield") /\ sp' = sp /\ resume' = resume /\ slot' = slot
    BY <1>3 DEF Yield, locals
  <2>2. CASE resume[p] = "user" /\ killed[p]
    <3>1. pc' = [pc EXCEPT ![p] = "exit"] /\ state' = state
      BY <2>2, <1>3 DEF Yield, Goto
    <3>2. state[p] \in Live
      BY <2>1, AtProc DEF Active, Exiting
    <3> QED
      BY <3>1, <3>2, <2>1, AtProc, PlainStep
      DEF Leaving, Exiting, SchedCalls, Interrupt, ForkLabels
  <2>3. CASE ~(resume[p] = "user" /\ killed[p]) /\ state[p] = "RUNNING"
    <3>1. pc' = [pc EXCEPT ![p] = "sched_yield"]
      BY <2>3, <1>3 DEF Yield, Goto
    <3>2. state' = [state EXCEPT ![p] = "nRUNNABLE"]
      BY <2>3, <1>3 DEF Yield, Cas
    <3>3. Active("sched_yield", resume'[p], state'[p])
      BY <3>2, <2>1, <2>3, AtProc DEF Active, Exiting, Leaving, SchedCalls, Live
    <3>4. Place(p)' = Place(p)
      BY <2>1, <3>1, AtProc DEF Place
    <3>5. \A q \in Proc \ {p} : state'[q] = state[q]
      BY <3>2, <2>1, AtProc
    <3>6. ~Corrupted /\ OnCpu(p) /\ (Forking(p)' <=> Forking(p))
      BY <2>1, <3>4, AtProc DEF Forking
    <3>7. \A q \in Proc \ {p} : Harmless(state[q], state'[q])
      BY <3>5
    <3> QED
      BY <2>1, <3>1, <3>3, <3>4, <3>6, <3>7, ProcStep
  <2>4. CASE ~(resume[p] = "user" /\ killed[p]) /\ state[p] # "RUNNING"
    <3>1. pc' = [pc EXCEPT ![p] = "resume"]
      BY <2>4, <1>3 DEF Yield, Goto
    <3>2. state' = state
      BY <2>1, <2>4, <1>3, AtProc DEF Yield, Cas
    <3>3. Active("resume", resume'[p], state'[p])
      BY <3>2, <2>1, <2>4, AtProc DEF Active, Exiting, Leaving, SchedCalls, Live
    <3>4. Place(p)' = Place(p)
      BY <2>1, <3>1, AtProc DEF Place
    <3> QED
      BY <2>1, <3>1, <3>2, <3>3, <3>4, AtProc, ProcStep DEF Forking
  <2> QED
    BY <2>2, <2>3, <2>4
<1>4. CASE Resume(p)
  <2>1. At(p, "resume") /\ sp' = sp /\ slot' = slot /\ state' = state
    BY <1>4 DEF Resume, table
  <2>2. resume' = [resume EXCEPT ![p] = "user"]
    BY <1>4 DEF Resume
  <2>3. resume[p] \in Interruptible /\ resume'[p] = "user"
    BY <2>1, <2>2, AtProc
  <2>4. \A q \in Proc \ {p} : resume'[q] = resume[q]
    BY <2>1, <2>2, AtProc
  <2>5. PICK l : /\ pc' = [pc EXCEPT ![p] = l]
                 /\ l = resume[p] \/ l = "exit"
    BY <1>4 DEF Resume, Goto
  <2>6. Active(l, resume'[p], state'[p])
    BY <2>1, <2>3, <2>5, AtProc
    DEF Active, Exiting, Leaving, SchedCalls, Interruptible
  <2>7. Place(p)' = l /\ Place(p) = resume[p]
    BY <2>1, <2>3, <2>5, AtProc DEF Place, Interruptible
  <2>8. l = "exit" \/ Place(p)' = Place(p)
    BY <2>5, <2>7
  <2>9. Forking(p)' => Forking(p)
    BY <2>7, <2>8 DEF Forking, ForkLabels
  <2> QED
    BY <2>1, <2>4, <2>5, <2>6, <2>7, <2>8, <2>9, AtProc, ProcStep
<1>5. ASSUME NEW c \in Cpu, Timer(c, p) PROVE Consistent'
  <2>1. At(p, pc[p]) /\ pc[p] \in Interruptible
    BY <1>5 DEF Timer, At
  <2>2. sp' = sp /\ slot' = slot /\ state' = state
    BY <1>5 DEF Timer, table
  <2>3. resume' = [resume EXCEPT ![p] = pc[p]]
    BY <1>5 DEF Timer
  <2>4. resume'[p] = pc[p] /\ \A q \in Proc \ {p} : resume'[q] = resume[q]
    BY <2>1, <2>3, AtProc
  <2>5. PICK l \in {"tick", "yield"} : pc' = [pc EXCEPT ![p] = l]
    BY <1>5 DEF Timer, Goto
  <2>6. Active(l, resume'[p], state'[p])
    BY <2>1, <2>2, <2>4, AtProc
    DEF Active, Exiting, Leaving, SchedCalls, Interruptible
  <2>7. Place(p)' = Place(p)
    BY <2>1, <2>4, <2>5, AtProc DEF Place, Interruptible
  <2>8. ~Corrupted /\ OnCpu(p) /\ (Forking(p)' <=> Forking(p))
    BY <2>1, <2>7, AtProc DEF Forking
  <2>9. \A q \in Proc \ {p} : Harmless(state[q], state'[q])
    BY <2>2
  <2> QED
    BY <2>2, <2>4, <2>5, <2>6, <2>7, <2>8, <2>9, ProcStep
<1> QED
  BY <1>1, <1>2, <1>3, <1>4, <1>5

\* The end of a fork: p gives up the slot it has claimed.
LEMMA ForkEnd ==
  ASSUME TypeOK, Consistent, NEW p \in Proc, NEW f \in ForkLabels, At(p, f),
         NEW l \in {"exit", "user"}, pc' = [pc EXCEPT ![p] = l], sp' = sp,
         resume' = resume, slot' = slot, NEW u \in {"UNUSED", "RUNNABLE"},
         state' = [state EXCEPT ![slot[p]] = u],
         u = "RUNNABLE" => f = "embryo"
  PROVE  Consistent'
<1> PICK n \in Proc : n = slot[p]
  BY DEF TypeOK, TypeRest
<1>1. ~Corrupted /\ OnCpu(p) /\ pc[p] = f /\ Place(p) = f /\ Forking(p)
  BY AtProc DEF Forking, Place, ForkLabels
<1>2. state[n] = "EMBRYO" /\ ~OnCpu(n) /\ n # p
  BY <1>1, NotEmbryo DEF Consistent, EmbryoOwned
<1>3. pc'[p] = l /\ \A q \in Proc \ {p} : pc'[q] = pc[q]
  BY AtProc, Basics
<1>4. state'[n] = u /\ \A q \in Proc \ {n} : state'[q] = state[q]
  BY <1>1, AtProc
<1>5. \A q \in Proc : OnCpu(q)' <=> OnCpu(q)
  BY AtProc, Basics, SameCpu
<1>6. RunningOnCpu'
  BY <1>4, <1>5 DEF RunningOnCpu, Consistent, OnCpu
<1>7. \A q \in Proc : slot[q] \in Proc /\ (Forking(q) => slot[q] # p)
  BY <1>1, NotEmbryo DEF TypeOK, TypeRest, Consistent, EmbryoOwned
<1>8. \A q \in Proc \ {p} : Place(q)' = Place(q) /\ (Forking(q) => slot[q] # n)
  BY <1>1, <1>3 DEF Place, Consistent, EmbryoOwned
<1>9. Place(p)' = l /\ ~Forking(p)'
  BY <1>3 DEF Place, Forking, ForkLabels
<1>10. EmbryoOwned'
  BY <1>4, <1>7, <1>8, <1>9 DEF EmbryoOwned, Consistent, Forking
<1>11. \A q \in Proc : Placed(q)'
  <2>1. Placed(p)'
    <3>1. state[p] \in Live
      BY <1>1, AtProc DEF Active, Exiting, ForkLabels
    <3> QED
      BY <3>1, <1>1, <1>2, <1>3, <1>4, <1>5
      DEF Placed, Active, Exiting, Leaving, SchedCalls
  <2>2. Placed(n)'
    <3>1. Parked(pc[n], resume[n], "EMBRYO")
      BY <1>1, <1>2 DEF Consistent, Placed
    <3>2. u = "RUNNABLE" => pc[n] = "user"
      BY <1>1 DEF Consistent, NewContext
    <3>3. Parked(pc[n], resume[n], u)
      BY <3>1, <3>2 DEF Parked, Live, Dead
    <3> QED
      BY <3>3, <1>2, <1>3, <1>4, <1>5 DEF Placed
  <2>3. \A q \in Proc \ {p, n} : Placed(q)'
    BY <1>1, <1>3, <1>4, <1>5, Untouched, HarmlessSame DEF Consistent
  <2> QED
    BY <2>1, <2>2, <2>3
<1>12. \A q \in Proc : NewContext(q)'
  BY <1>1, <1>3, <1>7, <1>8, <1>9 DEF NewContext, Consistent, Forking, ForkLabels
<1> QED
  BY <1>6, <1>10, <1>11, <1>12 DEF Consistent

\* A fork goes on with the slot that it has claimed already.
LEMMA ForkStep ==
  ASSUME TypeOK, Consistent, NEW p \in Proc, NEW f \in ForkLabels, At(p, f),
         NEW l \in ForkLabels, pc' = [pc EXCEPT ![p] = l], sp' = sp,
         resume' = resume, slot' = slot, state' = state,
         l \in {"copyuvm", "embryo"} => f \in {"copyuvm", "embryo"}
  PROVE  Consistent'
<1>1. ~Corrupted /\ OnCpu(p) /\ Place(p) = f /\ Forking(p)
  BY AtProc DEF Forking, Place, ForkLabels
<1>2. pc'[p] = l
  BY AtProc, Basics
<1>3. Place(p)' = l
  BY <1>2 DEF Place, ForkLabels
<1>4. Active(l, resume'[p], state'[p])
  BY AtProc DEF Active, ForkLabels, Exiting, Leaving, SchedCalls
<1> QED
  BY <1>1, <1>3, <1>4, HarmlessSame, ProcStep

\* fork() and allocproc(), with all their failures.
LEMMA ForkConsistent ==
  ASSUME TypeOK, Consistent, NEW p \in Proc,
         AllocSlot(p) \/ AllocPid(p) \/ KallocStack(p) \/ CopyUvm(p) \/ ForkDone(p)
  PROVE  Consistent'
<1> USE HarmlessSame, Basics
<1>1. CASE AllocSlot(p)
  <2>1. At(p, "fork") /\ sp' = sp /\ resume' = resume
    BY <1>1 DEF AllocSlot
  <2>2. ~Corrupted /\ OnCpu(p) /\ state[p] \in Live /\ Place(p) = "fork"
    BY <2>1, AtProc DEF Active, Exiting, Place
  <2>3. CASE Return(p) /\ UNCHANGED <<state, slot>>
    <3>1. PICK l \in {"exit", "user"} : pc' = [pc EXCEPT ![p] = l]
      BY <2>3 DEF Return, Goto
    <3> QED
      BY <3>1, <2>1, <2>2, <2>3, PlainStep
      DEF Leaving, Exiting, SchedCalls, Interrupt, ForkLabels
  <2>4. ASSUME NEW n \in Proc, state[n] = "UNUSED",
               state' = [state EXCEPT ![n] = "EMBRYO"],
               slot' = [slot EXCEPT ![p] = n], Goto(p, "allocpid")
        PROVE  Consistent'
    <3>1. n # p
      BY <2>2, <2>4 DEF Live
    <3>2. pc'[p] = "allocpid" /\ \A q \in Proc \ {p} : pc'[q] = pc[q]
      BY <2>1, <2>4, AtProc DEF Goto
    <3>3. state'[n] = "EMBRYO" /\ \A q \in Proc \ {n} : state'[q] = state[q]
      BY <2>1, <2>4, AtProc
    <3>4. slot'[p] = n /\ \A q \in Proc \ {p} : slot'[q] = slot[q]
      BY <2>1, <2>4, AtProc
    <3>5. \A q \in Proc : OnCpu(q)' <=> OnCpu(q)
      BY <2>1, <2>4, AtProc, SameCpu DEF Goto
    <3>6. RunningOnCpu'
      BY <3>3, <3>5 DEF RunningOnCpu, Consistent, OnCpu
    <3>7. \A q \in Proc : slot[q] \in Proc /\ (Forking(q) => slot[q] \notin {p, n})
      BY <2>2, <2>4, NotEmbryo DEF TypeOK, TypeRest, Consistent, EmbryoOwned
    <3>8. Place(p)' = "allocpid" /\ \A q \in Proc \ {p} : Place(q)' = Place(q)
      BY <2>1, <3>2 DEF Place
    <3>9. EmbryoOwned'
      BY <3>3, <3>4, <3>7, <3>8 DEF EmbryoOwned, Consistent, Forking
    <3>10. ASSUME ~Corrupted' PROVE \A q \in Proc : Placed(q)'
      <4>1. ~OnCpu(n)'
        BY <3>3, <3>10 DEF Corrupted, OnCpu, OnStack
      <4>2. Placed(n)'
        <5>1. Parked(pc[n], resume[n], "UNUSED")
          BY <4>1, <3>5, <2>2, <2>4 DEF Consistent, Placed
        <5>2. Parked(pc[n], resume[n], "EMBRYO")
          BY <5>1 DEF Parked, Live, Dead
        <5> QED
          BY <5>2, <4>1, <3>1, <3>2, <3>3, <2>1 DEF Placed
      <4>3. Placed(p)'
        BY <2>2, <3>1, <3>2, <3>3, <3>5 DEF Placed, Active, Exiting, Leaving, SchedCalls
      <4>4. \A q \in Proc \ {p, n} : Placed(q)'
        BY <2>1, <2>2, <3>2, <3>3, <3>5, Untouched DEF Consistent
      <4> QED
        BY <4>2, <4>3, <4>4
    <3>11. \A q \in Proc : NewContext(q)'
      BY <2>2, <3>2, <3>4, <3>7, <3>8 DEF NewContext, Consistent, Forking, ForkLabels
    <3> QED
      BY <3>6, <3>9, <3>10, <3>11 DEF Consistent
  <2> QED
    BY <1>1, <2>3, <2>4 DEF AllocSlot
<1>2. CASE AllocPid(p)
  <2>1. At(p, "allocpid") /\ sp' = sp /\ resume' = resume /\ slot' = slot /\ state' = state
    BY <1>2 DEF AllocPid, locals
  <2>2. pc' = [pc EXCEPT ![p] = "kalloc"]
    BY <1>2 DEF AllocPid, Goto
  <2> QED
    BY <2>1, <2>2, ForkStep DEF ForkLabels
<1>3. CASE KallocStack(p)
  <2>1. At(p, "kalloc") /\ sp' = sp /\ resume' = resume /\ slot' = slot
    BY <1>3 DEF KallocStack, locals
  <2>2. CASE Return(p) /\ state' = [state EXCEPT ![slot[p]] = "UNUSED"]
    <3>1. PICK l \in {"exit", "user"} : pc' = [pc EXCEPT ![p] = l]
      BY <2>2 DEF Return, Goto
    <3> QED
      BY <3>1, <2>1, <2>2, ForkEnd DEF ForkLabels
  <2>3. CASE pc' = [pc EXCEPT ![p] = "copyuvm", ![slot[p]] = "user"] /\ state' = state
    <3>0. PICK n \in Proc : n = slot[p]
      BY DEF TypeOK, TypeRest
    <3>1. ~Corrupted /\ OnCpu(p) /\ pc[p] = "kalloc" /\ Forking(p)
      BY <2>1, AtProc DEF Forking, Place, ForkLabels
    <3>2. state[n] = "EMBRYO" /\ ~OnCpu(n) /\ n # p
      BY <3>0, <3>1, NotEmbryo DEF Consistent, EmbryoOwned
    <3>3. /\ pc'[p] = "copyuvm" /\ pc'[n] = "user"
          /\ \A q \in Proc \ {p, n} : pc'[q] = pc[q]
          /\ \A c \in Cpu : pc'[c] = pc[c]
      BY <2>1, <2>3, <3>0, <3>2, AtProc
    <3>4. \A q \in Proc : OnCpu(q)' <=> OnCpu(q)
      BY <2>1, <3>3, SameCpu
    <3>5. RunningOnCpu'
      BY <2>3, <3>4 DEF RunningOnCpu, Consistent, OnCpu
    <3>6. \A q \in Proc : /\ slot[q] \in Proc
                          /\ Forking(q) => slot[q] # p
                          /\ Forking(q) /\ q # p => slot[q] # n
      BY <3>0, <3>1, NotEmbryo DEF TypeOK, TypeRest, Consistent, EmbryoOwned
    <3>7. /\ Place(p)' = "copyuvm" /\ Place(n)' = "user"
          /\ \A q \in Proc \ {p, n} : Place(q)' = Place(q)
      BY <2>1, <3>3 DEF Place
    <3>8. EmbryoOwned'
      BY <2>1, <2>3, <3>1, <3>7 DEF EmbryoOwned, Consistent, Forking, ForkLabels
    <3>9. \A q \in Proc : Placed(q)'
      <4>1. Placed(n)'
        BY <3>2, <3>3, <3>4 DEF Placed, Parked
      <4>2. Placed(p)'
        <5>1. Active("kalloc", resume[p], state[p])
          BY <2>1, AtProc
        <5> QED
          BY <5>1, <2>1, <2>3, <3>1, <3>3, <3>4 DEF Placed, Active, Exiting, Leaving, SchedCalls
      <4>3. \A q \in Proc \ {p, n} : Placed(q)'
        BY <2>1, <2>3, <3>1, <3>3, <3>4, Untouched DEF Consistent
      <4> QED
        BY <4>1, <4>2, <4>3
    <3>10. \A q \in Proc : NewContext(q)'
      BY <2>1, <3>0, <3>1, <3>3, <3>6, <3>7 DEF NewContext, Consistent, Forking, ForkLabels
    <3> QED
      BY <3>5, <3>8, <3>9, <3>10 DEF Consistent
  <2> QED
    BY <1>3, <2>2, <2>3 DEF KallocStack
<1>4. CASE CopyUvm(p)
  <2>1. At(p, "copyuvm") /\ sp' = sp /\ resume' = resume /\ slot' = slot
    BY <1>4 DEF CopyUvm, locals
  <2>2. CASE Return(p) /\ state' = [state EXCEPT ![slot[p]] = "UNUSED"]
    <3>1. PICK l \in {"exit", "user"} : pc' = [pc EXCEPT ![p] = l]
      BY <2>2 DEF Return, Goto
    <3> QED
      BY <3>1, <2>1, <2>2, ForkEnd DEF ForkLabels
  <2>3. CASE Goto(p, "embryo") /\ state' = state
    BY <2>1, <2>3, ForkStep DEF Goto, ForkLabels
  <2> QED
    BY <1>4, <2>2, <2>3 DEF CopyUvm
<1>5. CASE ForkDone(p)
  <2>1. At(p, "embryo") /\ sp' = sp /\ resume' = resume /\ slot' = slot
    BY <1>5 DEF ForkDone, locals
  <2>2. PICK l \in {"exit", "user"} : pc' = [pc EXCEPT ![p] = l]
    BY <1>5 DEF ForkDone, Return, Goto
  <2>3. Forking(p)
    BY <2>1, AtProc DEF Forking, Place, ForkLabels
  <2>4. state' = [state EXCEPT ![slot[p]] = "RUNNABLE"]
    BY <1>5, <2>3 DEF ForkDone, Cas, Consistent, EmbryoOwned
  <2> QED
    BY <2>1, <2>2, <2>4, ForkEnd DEF ForkLabels
<1> QED
  BY <1>1, <1>2, <1>3, <1>4, <1>5

\* Labels that say more about a process than that it is alive.
Special == Leaving \cup Interrupt \cup ForkLabels \cup {"zombie_exit", "pausetest"}

\* From l to m a process keeps what is known of its state.
Quiet(l, m) ==
  \/ l \notin Exiting /\ m \notin Special
  \/ l \in Exiting /\ m \in Exiting
  \/ /\ l \in (Leaving \cup {"pausetest"}) \ Exiting
     /\ m \in Leaving \ (Exiting \cup {"sched_yield"})

\* From l to m a process may apply a CAS to its own state.
Changes(l, m, from, to) ==
  /\ l \notin Exiting
  /\ to \in Live
  /\ \/ m \notin Special
     \/ /\ from = "RUNNING" /\ to # "RUNNING"
        /\ m \in (Leaving \cup {"pausetest"}) \ (Exiting \cup {"sched_yield"})

\* A step of a process that changes no state.
LEMMA QuietStep ==
  ASSUME TypeOK, Consistent, NEW p \in Proc, NEW l, At(p, l), NEW m, Goto(p, m),
         state' = state, sp' = sp, resume' = resume,
         \A q \in Proc \ {p} : slot'[q] = slot[q], Quiet(l, m)
  PROVE  Consistent'
<1>1. ~Corrupted /\ OnCpu(p) /\ Active(l, resume[p], state[p])
  BY AtProc
<1>2. pc' = [pc EXCEPT ![p] = m]
  BY DEF Goto
<1>3. CASE l \notin Exiting /\ m \notin Special
  BY <1>1, <1>2, <1>3, HarmlessSame, PlainStep DEF Active, Special
<1>4. CASE l \in Exiting /\ m \in Exiting
  BY <1>1, <1>2, <1>4, HarmlessSame, ExitStep DEF Active
<1>5. CASE /\ l \in (Leaving \cup {"pausetest"}) \ Exiting
           /\ m \in Leaving \ (Exiting \cup {"sched_yield"})
  BY <1>1, <1>2, <1>5, HarmlessSame, LeaveStep DEF Active
<1> QED
  BY <1>3, <1>4, <1>5 DEF Quiet

\* A step of a process that applies a CAS to its own state.
LEMMA OwnCasStep ==
  ASSUME TypeOK, Consistent, NEW p \in Proc, NEW l, At(p, l), NEW m, Goto(p, m),
         NEW from, NEW to, Cas(p, from, to), sp' = sp, resume' = resume,
         \A q \in Proc \ {p} : slot'[q] = slot[q], Changes(l, m, from, to)
  PROVE  Consistent'
<1>1. ~Corrupted /\ OnCpu(p) /\ Active(l, resume[p], state[p]) /\ state \in [Proc -> States]
  BY AtProc
<1>2. pc' = [pc EXCEPT ![p] = m]
  BY DEF Goto
<1>3. /\ state'[p] = IF state[p] = from THEN to ELSE state[p]
      /\ \A q \in Proc \ {p} : state'[q] = state[q]
  BY <1>1 DEF Cas
<1>4. state'[p] \in Live
  BY <1>1, <1>3 DEF Active, Changes
<1>5. \A q \in Proc \ {p} : slot'[q] = slot[q] /\ Harmless(state[q], state'[q])
  BY <1>3, HarmlessSame
<1>6. CASE m \notin Special
  BY <1>1, <1>2, <1>4, <1>5, <1>6, PlainStep DEF Special, Changes
<1>7. CASE /\ from = "RUNNING" /\ to # "RUNNING"
           /\ m \in (Leaving \cup {"pausetest"}) \ (Exiting \cup {"sched_yield"})
  <2>1. state'[p] \in Live \ {"RUNNING"}
    BY <1>3, <1>4, <1>7
  <2> QED
    BY <1>1, <1>2, <1>5, <1>7, <2>1, LeaveStep
<1> QED
  BY <1>6, <1>7 DEF Changes

\* A system call or a fault in user mode.
LEMMA SyscallConsistent ==
  ASSUME TypeOK, Consistent, NEW p \in Proc,
         UserTrap(p)
  PROVE  Consistent'
<1>1. CASE UserTrap(p)
  <2>1. At(p, "user") /\ state' = state /\ sp' = sp /\ resume' = resume /\ slot' = slot
    BY <1>1 DEF UserTrap, locals
  <2>2. PICK m : Goto(p, m) /\ m \in Calls \cup {"exit"} /\ m \notin {"timer", "fault"}
    BY <1>1 DEF UserTrap, SysCalls
  <2>3. m \notin Special
    BY <2>2, ConstantsAssumption
    DEF Special, Leaving, Exiting, SchedCalls, Interrupt, ForkLabels
  <2> QED
    BY <2>1, <2>2, <2>3, QuietStep DEF Quiet, Exiting
<1> QED
  BY <1>1

\* exit().
LEMMA ExitConsistent ==
  ASSUME TypeOK, Consistent, NEW p \in Proc,
         ExitCas(p) \/ ExitWakeParent(p) \/ Reparent(p) \/ Adopt(p)
  PROVE  Consistent'
<1>1. CASE ExitCas(p)
  <2>1. At(p, "exit") /\ sp' = sp /\ resume' = resume /\ slot' = slot
    BY <1>1 DEF ExitCas, locals
  <2>2. CASE state[p] = "RUNNING" /\ Goto(p, "exitwake")
             /\ state' = [state EXCEPT ![p] = "nZOMBIE"]
    <3>1. ~Corrupted /\ OnCpu(p) /\ state \in [Proc -> States]
      BY <2>1, AtProc
    <3>2. state'[p] \in Dead /\ \A q \in Proc \ {p} : state'[q] = state[q]
      BY <2>2, <3>1 DEF Dead
    <3>3. \A q \in Proc \ {p} : slot'[q] = slot[q] /\ Harmless(state[q], state'[q])
      BY <2>1, <3>2, HarmlessSame
    <3>4. pc' = [pc EXCEPT ![p] = "exitwake"] /\ "exitwake" \in Exiting
      BY <2>2 DEF Goto, Exiting
    <3> QED
      BY <2>1, <3>1, <3>2, <3>3, <3>4, ExitStep
  <2>3. CASE state' = state /\ \E m \in Calls \cup {"panic", "user"} :
                                m \notin {"timer", "fault"} /\ Goto(p, m)
    <3>1. PICK m \in Calls \cup {"panic", "user"} : m \notin {"timer", "fault"} /\ Goto(p, m)
      BY <2>3
    <3>2. m \notin Special
      BY <3>1, ConstantsAssumption
      DEF Special, Leaving, Exiting, SchedCalls, Interrupt, ForkLabels
    <3> QED
      BY <2>1, <2>3, <3>1, <3>2, QuietStep DEF Quiet, Exiting
  <2> QED
    BY <1>1, <2>2, <2>3 DEF ExitCas, SysCalls
<1>2. CASE ExitWakeParent(p)
  <2>1. At(p, "exitwake") /\ Goto(p, "reparent")
    BY <1>2 DEF ExitWakeParent, table, locals, clock, CallWakeup1
  <2>2. state' = state /\ sp' = sp /\ resume' = resume
    BY <1>2 DEF ExitWakeParent, table, locals, clock, CallWakeup1
  <2>3. \A q \in Proc \ {p} : slot'[q] = slot[q]
    BY <1>2, AtProc DEF ExitWakeParent, table, locals, clock, CallWakeup1
  <2>4. Quiet("exitwake", "reparent")
    BY DEF Quiet, Special, Leaving, Exiting, SchedCalls, Interrupt, ForkLabels
  <2> QED
    BY <2>1, <2>2, <2>3, <2>4, QuietStep
<1>3. CASE Reparent(p)
  <2>1. At(p, "reparent") /\ (Goto(p, "reparent") \/ Goto(p, "adopt") \/ Goto(p, "sched_exit"))
    BY <1>3 DEF Reparent, table, locals, clock, NextSlot
  <2>2. state' = state /\ sp' = sp /\ resume' = resume
    BY <1>3 DEF Reparent, table, locals, clock, NextSlot
  <2>3. \A q \in Proc \ {p} : slot'[q] = slot[q]
    BY <1>3, AtProc DEF Reparent, table, locals, clock, NextSlot
  <2>4. /\ Quiet("reparent", "reparent")
        /\ Quiet("reparent", "adopt")
        /\ Quiet("reparent", "sched_exit")
    BY DEF Quiet, Special, Leaving, Exiting, SchedCalls, Interrupt, ForkLabels
  <2> QED
    BY <2>1, <2>2, <2>3, <2>4, QuietStep
<1>4. CASE Adopt(p)
  <2>1. At(p, "adopt") /\ (Goto(p, "reparent") \/ Goto(p, "sched_exit"))
    BY <1>4 DEF Adopt, table, locals, clock, NextSlot
  <2>2. state' = state /\ sp' = sp /\ resume' = resume
    BY <1>4 DEF Adopt, table, locals, clock, NextSlot
  <2>3. \A q \in Proc \ {p} : slot'[q] = slot[q]
    BY <1>4, AtProc DEF Adopt, table, locals, clock, NextSlot
  <2>4. Quiet("adopt", "reparent") /\ Quiet("adopt", "sched_exit")
    BY DEF Quiet, Special, Leaving, Exiting, SchedCalls, Interrupt, ForkLabels
  <2> QED
    BY <2>1, <2>2, <2>3, <2>4, QuietStep
<1> QED
  BY <1>1, <1>2, <1>3, <1>4

\* wait(), the reaping of another slot included.
LEMMA WaitConsistent ==
  ASSUME TypeOK, Consistent, NEW p \in Proc,
         WaitChan(p) \/ WaitCas(p) \/ ScanParent(p) \/ ScanState(p) \/
         ScanEnd(p) \/ Reap(p) \/ ReapPid(p) \/ ReapParent(p) \/ WaitUnchan(p)
         \/ WaitRunning1(p) \/ WaitRunning2(p)
  PROVE  Consistent'
<1>1. CASE WaitChan(p)
  <2>1. At(p, "wait") /\ Goto(p, "waitcas")
    BY <1>1 DEF WaitChan, table, locals, clock
  <2>2. state' = state /\ sp' = sp /\ resume' = resume
    BY <1>1 DEF WaitChan, table, locals, clock
  <2>3. \A q \in Proc \ {p} : slot'[q] = slot[q]
    BY <1>1 DEF WaitChan, table, locals, clock
  <2>4. Quiet("wait", "waitcas")
    BY DEF Quiet, Special, Leaving, Exiting, SchedCalls, Interrupt, ForkLabels
  <2> QED
    BY <2>1, <2>2, <2>3, <2>4, QuietStep
<1>2. CASE WaitCas(p)
  <2>1. At(p, "waitcas") /\ Goto(p, "scan")
    BY <1>2 DEF WaitCas, locals
  <2>2. Cas(p, "RUNNING", "nSLEEPING") /\ sp' = sp /\ resume' = resume
    BY <1>2 DEF WaitCas, locals
  <2>3. \A q \in Proc \ {p} : slot'[q] = slot[q]
    BY <1>2, AtProc DEF WaitCas, locals
  <2>4. Changes("waitcas", "scan", "RUNNING", "nSLEEPING")
    BY DEF Changes, Live, Special, Leaving, Exiting, SchedCalls, Interrupt, ForkLabels
  <2> QED
    BY <2>1, <2>2, <2>3, <2>4, OwnCasStep
<1>3. CASE ScanParent(p)
  <2>1. At(p, "scan") /\ (Goto(p, "childtest") \/ Goto(p, "scan") \/ Goto(p, "scanend"))
    BY <1>3 DEF ScanParent, table, locals, clock, NextSlot
  <2>2. state' = state /\ sp' = sp /\ resume' = resume
    BY <1>3 DEF ScanParent, table, locals, clock, NextSlot
  <2>3. \A q \in Proc \ {p} : slot'[q] = slot[q]
    BY <1>3, AtProc DEF ScanParent, table, locals, clock, NextSlot
  <2>4. /\ Quiet("scan", "childtest")
        /\ Quiet("scan", "scan")
        /\ Quiet("scan", "scanend")
    BY DEF Quiet, Special, Leaving, Exiting, SchedCalls, Interrupt, ForkLabels
  <2> QED
    BY <2>1, <2>2, <2>3, <2>4, QuietStep
<1>4. CASE ScanState(p)
  <2>1. At(p, "childtest") /\ (Goto(p, "reap") \/ Goto(p, "scan") \/ Goto(p, "scanend"))
    BY <1>4 DEF ScanState, table, locals, clock, NextSlot
  <2>2. state' = state /\ sp' = sp /\ resume' = resume
    BY <1>4 DEF ScanState, table, locals, clock, NextSlot
  <2>3. \A q \in Proc \ {p} : slot'[q] = slot[q]
    BY <1>4, AtProc DEF ScanState, table, locals, clock, NextSlot
  <2>4. /\ Quiet("childtest", "reap")
        /\ Quiet("childtest", "scan")
        /\ Quiet("childtest", "scanend")
    BY DEF Quiet, Special, Leaving, Exiting, SchedCalls, Interrupt, ForkLabels
  <2> QED
    BY <2>1, <2>2, <2>3, <2>4, QuietStep
<1>5. CASE ScanEnd(p)
  <2>1. At(p, "scanend") /\ (Goto(p, "unsleep2") \/ Goto(p, "sched_wait"))
    BY <1>5 DEF ScanEnd, table, locals, clock
  <2>2. state' = state /\ sp' = sp /\ resume' = resume
    BY <1>5 DEF ScanEnd, table, locals, clock
  <2>3. \A q \in Proc \ {p} : slot'[q] = slot[q]
    BY <1>5 DEF ScanEnd, table, locals, clock
  <2>4. Quiet("scanend", "unsleep2") /\ Quiet("scanend", "sched_wait")
    BY DEF Quiet, Special, Leaving, Exiting, SchedCalls, Interrupt, ForkLabels
  <2> QED
    BY <2>1, <2>2, <2>3, <2>4, QuietStep
<1>6. CASE Reap(p)
  <2>1. At(p, "reap") /\ sp' = sp /\ resume' = resume /\ slot' = slot
    BY <1>6 DEF Reap, locals
  <2>2. slot[p] \in Proc /\ Cas(slot[p], "ZOMBIE", "UNUSED")
    BY <1>6 DEF Reap, TypeOK, TypeRest
  <2>3. \A q \in Proc : Harmless(state[q], state'[q])
    BY <2>1, <2>2, AtProc, HarmlessCas
  <2>4. state[p] \in Live \ {"RUNNING"}
    BY <2>1, AtProc DEF Active, Leaving, Exiting
  <2>5. state'[p] = state[p]
    BY <2>1, <2>2, <2>4, AtProc DEF Cas, Live
  <2>6. pc' = [pc EXCEPT ![p] = "clearpid"]
    BY <1>6 DEF Reap, Goto
  <2>7. ~Corrupted /\ OnCpu(p)
    BY <2>1, AtProc
  <2> QED
    BY <2>1, <2>3, <2>4, <2>5, <2>6, <2>7, LeaveStep DEF Leaving, Exiting
<1>7. CASE ReapPid(p)
  <2>1. At(p, "clearpid") /\ Goto(p, "clearparent")
    BY <1>7 DEF ReapPid, table, locals, clock
  <2>2. state' = state /\ sp' = sp /\ resume' = resume
    BY <1>7 DEF ReapPid, table, locals, clock
  <2>3. \A q \in Proc \ {p} : slot'[q] = slot[q]
    BY <1>7 DEF ReapPid, table, locals, clock
  <2>4. Quiet("clearpid", "clearparent")
    BY DEF Quiet, Special, Leaving, Exiting, SchedCalls, Interrupt, ForkLabels
  <2> QED
    BY <2>1, <2>2, <2>3, <2>4, QuietStep
<1>8. CASE ReapParent(p)
  <2>1. At(p, "clearparent") /\ Goto(p, "unchan")
    BY <1>8 DEF ReapParent, table, locals, clock
  <2>2. state' = state /\ sp' = sp /\ resume' = resume
    BY <1>8 DEF ReapParent, table, locals, clock
  <2>3. \A q \in Proc \ {p} : slot'[q] = slot[q]
    BY <1>8 DEF ReapParent, table, locals, clock
  <2>4. Quiet("clearparent", "unchan")
    BY DEF Quiet, Special, Leaving, Exiting, SchedCalls, Interrupt, ForkLabels
  <2> QED
    BY <2>1, <2>2, <2>3, <2>4, QuietStep
<1>9. CASE WaitUnchan(p)
  <2>1. At(p, "unchan") /\ Goto(p, "unsleep1")
    BY <1>9 DEF WaitUnchan, table, locals, clock
  <2>2. state' = state /\ sp' = sp /\ resume' = resume
    BY <1>9 DEF WaitUnchan, table, locals, clock
  <2>3. \A q \in Proc \ {p} : slot'[q] = slot[q]
    BY <1>9 DEF WaitUnchan, table, locals, clock
  <2>4. Quiet("unchan", "unsleep1")
    BY DEF Quiet, Special, Leaving, Exiting, SchedCalls, Interrupt, ForkLabels
  <2> QED
    BY <2>1, <2>2, <2>3, <2>4, QuietStep
<1>10. CASE WaitRunning1(p)
  <2>1. At(p, "unsleep1") /\ Goto(p, "unsleep2")
    BY <1>10 DEF WaitRunning1, locals
  <2>2. Cas(p, "nRUNNABLE", "RUNNING") /\ sp' = sp /\ resume' = resume
    BY <1>10 DEF WaitRunning1, locals
  <2>3. \A q \in Proc \ {p} : slot'[q] = slot[q]
    BY <1>10, AtProc DEF WaitRunning1, locals
  <2>4. Changes("unsleep1", "unsleep2", "nRUNNABLE", "RUNNING")
    BY DEF Changes, Live, Special, Leaving, Exiting, SchedCalls, Interrupt, ForkLabels
  <2> QED
    BY <2>1, <2>2, <2>3, <2>4, OwnCasStep
<1>11. CASE WaitRunning2(p)
  <2>1. At(p, "unsleep2") /\ (Goto(p, "exit") \/ Goto(p, "user"))
    BY <1>11 DEF WaitRunning2, locals, Return
  <2>2. Cas(p, "nSLEEPING", "RUNNING") /\ sp' = sp /\ resume' = resume
    BY <1>11 DEF WaitRunning2, locals, Return
  <2>3. \A q \in Proc \ {p} : slot'[q] = slot[q]
    BY <1>11, AtProc DEF WaitRunning2, locals, Return
  <2>4. /\ Changes("unsleep2", "exit", "nSLEEPING", "RUNNING")
        /\ Changes("unsleep2", "user", "nSLEEPING", "RUNNING")
    BY DEF Changes, Live, Special, Leaving, Exiting, SchedCalls, Interrupt, ForkLabels
  <2> QED
    BY <2>1, <2>2, <2>3, <2>4, OwnCasStep
<1> QED
  BY <1>1, <1>2, <1>3, <1>4, <1>5, <1>6, <1>7, <1>8, <1>9, <1>10, <1>11

\* sys_sleep() and sleep().
LEMMA SleepConsistent ==
  ASSUME TypeOK, Consistent, NEW p \in Proc,
         SleepAcquire(p) \/ SleepTest(p) \/ SleepCas(p) \/ SleepRelease(p) \/
         SleepReacquire(p)
  PROVE  Consistent'
<1>1. CASE SleepAcquire(p)
  <2>1. At(p, "sleep") /\ Goto(p, "ticktest")
    BY <1>1 DEF SleepAcquire, table, locals, clock
  <2>2. state' = state /\ sp' = sp /\ resume' = resume
    BY <1>1 DEF SleepAcquire, table, locals, clock
  <2>3. \A q \in Proc \ {p} : slot'[q] = slot[q]
    BY <1>1 DEF SleepAcquire, table, locals, clock
  <2>4. Quiet("sleep", "ticktest")
    BY DEF Quiet, Special, Leaving, Exiting, SchedCalls, Interrupt, ForkLabels
  <2> QED
    BY <2>1, <2>2, <2>3, <2>4, QuietStep
<1>2. CASE SleepTest(p)
  <2>1. At(p, "ticktest") /\ (Goto(p, "sleepcas") \/ Goto(p, "exit") \/ Goto(p, "user"))
    BY <1>2 DEF SleepTest, table, locals, clock, Return
  <2>2. state' = state /\ sp' = sp /\ resume' = resume
    BY <1>2 DEF SleepTest, table, locals, clock, Return
  <2>3. \A q \in Proc \ {p} : slot'[q] = slot[q]
    BY <1>2, AtProc DEF SleepTest, table, locals, clock, Return
  <2>4. /\ Quiet("ticktest", "sleepcas")
        /\ Quiet("ticktest", "exit")
        /\ Quiet("ticktest", "user")
    BY DEF Quiet, Special, Leaving, Exiting, SchedCalls, Interrupt, ForkLabels
  <2> QED
    BY <2>1, <2>2, <2>3, <2>4, QuietStep
<1>3. CASE SleepCas(p)
  <2>1. At(p, "sleepcas") /\ Goto(p, "sleeprelease")
    BY <1>3 DEF SleepCas, locals
  <2>2. Cas(p, "RUNNING", "nSLEEPING") /\ sp' = sp /\ resume' = resume
    BY <1>3 DEF SleepCas, locals
  <2>3. \A q \in Proc \ {p} : slot'[q] = slot[q]
    BY <1>3, AtProc DEF SleepCas, locals
  <2>4. Changes("sleepcas", "sleeprelease", "RUNNING", "nSLEEPING")
    BY DEF Changes, Live, Special, Leaving, Exiting, SchedCalls, Interrupt, ForkLabels
  <2> QED
    BY <2>1, <2>2, <2>3, <2>4, OwnCasStep
<1>4. CASE SleepRelease(p)
  <2>1. At(p, "sleeprelease") /\ Goto(p, "sched_sleep")
    BY <1>4 DEF SleepRelease, table, locals, clock
  <2>2. state' = state /\ sp' = sp /\ resume' = resume
    BY <1>4 DEF SleepRelease, table, locals, clock
  <2>3. \A q \in Proc \ {p} : slot'[q] = slot[q]
    BY <1>4 DEF SleepRelease, table, locals, clock
  <2>4. Quiet("sleeprelease", "sched_sleep")
    BY DEF Quiet, Special, Leaving, Exiting, SchedCalls, Interrupt, ForkLabels
  <2> QED
    BY <2>1, <2>2, <2>3, <2>4, QuietStep
<1>5. CASE SleepReacquire(p)
  <2>1. At(p, "reacquire") /\ Goto(p, "ticktest")
    BY <1>5 DEF SleepReacquire, table, locals, clock
  <2>2. state' = state /\ sp' = sp /\ resume' = resume
    BY <1>5 DEF SleepReacquire, table, locals, clock
  <2>3. \A q \in Proc \ {p} : slot'[q] = slot[q]
    BY <1>5 DEF SleepReacquire, table, locals, clock
  <2>4. Quiet("reacquire", "ticktest")
    BY DEF Quiet, Special, Leaving, Exiting, SchedCalls, Interrupt, ForkLabels
  <2> QED
    BY <2>1, <2>2, <2>3, <2>4, QuietStep
<1> QED
  BY <1>1, <1>2, <1>3, <1>4, <1>5

\* kill(), sigsend() and sigpause().
LEMMA SignalConsistent ==
  ASSUME TypeOK, Consistent, NEW p \in Proc,
         KillFind(p) \/ KillSpin(p) \/ SigSend(p) \/ SigSent(p) \/ SigPause(p)
         \/ PauseChan(p) \/ PauseCas(p) \/ PauseTest(p) \/ PauseUndo1(p) \/
         PauseUndo2(p)
  PROVE  Consistent'
<1>1. CASE KillFind(p)
  <2>1. At(p, "kill") /\ (Goto(p, "killspin") \/ Goto(p, "exit") \/ Goto(p, "user"))
    BY <1>1 DEF KillFind, table, locals, clock, Return
  <2>2. state' = state /\ sp' = sp /\ resume' = resume
    BY <1>1 DEF KillFind, table, locals, clock, Return
  <2>3. \A q \in Proc \ {p} : slot'[q] = slot[q]
    BY <1>1, AtProc DEF KillFind, table, locals, clock, Return
  <2>4. /\ Quiet("kill", "killspin")
        /\ Quiet("kill", "exit")
        /\ Quiet("kill", "user")
    BY DEF Quiet, Special, Leaving, Exiting, SchedCalls, Interrupt, ForkLabels
  <2> QED
    BY <2>1, <2>2, <2>3, <2>4, QuietStep
<1>2. CASE KillSpin(p)
  <2>1. At(p, "killspin") /\ Goto(p, "panic")
    BY <1>2 DEF KillSpin, locals
  <2>2. Cas(p, "SLEEPING", "RUNNING") /\ sp' = sp /\ resume' = resume
    BY <1>2 DEF KillSpin, locals
  <2>3. \A q \in Proc \ {p} : slot'[q] = slot[q]
    BY <1>2, AtProc DEF KillSpin, locals
  <2>4. Changes("killspin", "panic", "SLEEPING", "RUNNING")
    BY DEF Changes, Live, Special, Leaving, Exiting, SchedCalls, Interrupt, ForkLabels
  <2> QED
    BY <2>1, <2>2, <2>3, <2>4, OwnCasStep
<1>3. CASE SigSend(p)
  <2>1. At(p, "sigsend") /\ (Goto(p, "sigsent") \/ Goto(p, "exit") \/ Goto(p, "user"))
    BY <1>3 DEF SigSend, table, locals, clock, Return, CallWakeup1
  <2>2. state' = state /\ sp' = sp /\ resume' = resume
    BY <1>3 DEF SigSend, table, locals, clock, Return, CallWakeup1
  <2>3. \A q \in Proc \ {p} : slot'[q] = slot[q]
    BY <1>3, AtProc DEF SigSend, table, locals, clock, Return, CallWakeup1
  <2>4. /\ Quiet("sigsend", "sigsent")
        /\ Quiet("sigsend", "exit")
        /\ Quiet("sigsend", "user")
    BY DEF Quiet, Special, Leaving, Exiting, SchedCalls, Interrupt, ForkLabels
  <2> QED
    BY <2>1, <2>2, <2>3, <2>4, QuietStep
<1>4. CASE SigSent(p)
  <2>1. At(p, "sigsent") /\ (Goto(p, "exit") \/ Goto(p, "user"))
    BY <1>4 DEF SigSent, table, locals, clock, Return
  <2>2. state' = state /\ sp' = sp /\ resume' = resume
    BY <1>4 DEF SigSent, table, locals, clock, Return
  <2>3. \A q \in Proc \ {p} : slot'[q] = slot[q]
    BY <1>4, AtProc DEF SigSent, table, locals, clock, Return
  <2>4. Quiet("sigsent", "exit") /\ Quiet("sigsent", "user")
    BY DEF Quiet, Special, Leaving, Exiting, SchedCalls, Interrupt, ForkLabels
  <2> QED
    BY <2>1, <2>2, <2>3, <2>4, QuietStep
<1>5. CASE SigPause(p)
  <2>1. At(p, "sigpause") /\ (Goto(p, "pausechan") \/ Goto(p, "exit") \/ Goto(p, "user"))
    BY <1>5 DEF SigPause, table, locals, clock, Return
  <2>2. state' = state /\ sp' = sp /\ resume' = resume
    BY <1>5 DEF SigPause, table, locals, clock, Return
  <2>3. \A q \in Proc \ {p} : slot'[q] = slot[q]
    BY <1>5, AtProc DEF SigPause, table, locals, clock, Return
  <2>4. /\ Quiet("sigpause", "pausechan")
        /\ Quiet("sigpause", "exit")
        /\ Quiet("sigpause", "user")
    BY DEF Quiet, Special, Leaving, Exiting, SchedCalls, Interrupt, ForkLabels
  <2> QED
    BY <2>1, <2>2, <2>3, <2>4, QuietStep
<1>6. CASE PauseChan(p)
  <2>1. At(p, "pausechan") /\ Goto(p, "pausecas")
    BY <1>6 DEF PauseChan, table, locals, clock
  <2>2. state' = state /\ sp' = sp /\ resume' = resume
    BY <1>6 DEF PauseChan, table, locals, clock
  <2>3. \A q \in Proc \ {p} : slot'[q] = slot[q]
    BY <1>6 DEF PauseChan, table, locals, clock
  <2>4. Quiet("pausechan", "pausecas")
    BY DEF Quiet, Special, Leaving, Exiting, SchedCalls, Interrupt, ForkLabels
  <2> QED
    BY <2>1, <2>2, <2>3, <2>4, QuietStep
<1>7. CASE PauseCas(p)
  <2>1. At(p, "pausecas") /\ Goto(p, "pausetest")
    BY <1>7 DEF PauseCas, locals
  <2>2. Cas(p, "RUNNING", "nSLEEPING") /\ sp' = sp /\ resume' = resume
    BY <1>7 DEF PauseCas, locals
  <2>3. \A q \in Proc \ {p} : slot'[q] = slot[q]
    BY <1>7, AtProc DEF PauseCas, locals
  <2>4. Changes("pausecas", "pausetest", "RUNNING", "nSLEEPING")
    BY DEF Changes, Live, Special, Leaving, Exiting, SchedCalls, Interrupt, ForkLabels
  <2> QED
    BY <2>1, <2>2, <2>3, <2>4, OwnCasStep
<1>8. CASE PauseTest(p)
  <2>1. At(p, "pausetest") /\ (Goto(p, "unpause1") \/ Goto(p, "sched_pause"))
    BY <1>8 DEF PauseTest, table, locals, clock
  <2>2. state' = state /\ sp' = sp /\ resume' = resume
    BY <1>8 DEF PauseTest, table, locals, clock
  <2>3. \A q \in Proc \ {p} : slot'[q] = slot[q]
    BY <1>8 DEF PauseTest, table, locals, clock
  <2>4. Quiet("pausetest", "unpause1") /\ Quiet("pausetest", "sched_pause")
    BY DEF Quiet, Special, Leaving, Exiting, SchedCalls, Interrupt, ForkLabels
  <2> QED
    BY <2>1, <2>2, <2>3, <2>4, QuietStep
<1>9. CASE PauseUndo1(p)
  <2>1. At(p, "unpause1") /\ Goto(p, "unpause2")
    BY <1>9 DEF PauseUndo1, locals
  <2>2. Cas(p, "nSLEEPING", "RUNNING") /\ sp' = sp /\ resume' = resume
    BY <1>9 DEF PauseUndo1, locals
  <2>3. \A q \in Proc \ {p} : slot'[q] = slot[q]
    BY <1>9, AtProc DEF PauseUndo1, locals
  <2>4. Changes("unpause1", "unpause2", "nSLEEPING", "RUNNING")
    BY DEF Changes, Live, Special, Leaving, Exiting, SchedCalls, Interrupt, ForkLabels
  <2> QED
    BY <2>1, <2>2, <2>3, <2>4, OwnCasStep
<1>10. CASE PauseUndo2(p)
  <2>1. At(p, "unpause2") /\ (Goto(p, "exit") \/ Goto(p, "user"))
    BY <1>10 DEF PauseUndo2, locals, Return
  <2>2. Cas(p, "SLEEPING", "RUNNING") /\ sp' = sp /\ resume' = resume
    BY <1>10 DEF PauseUndo2, locals, Return
  <2>3. \A q \in Proc \ {p} : slot'[q] = slot[q]
    BY <1>10, AtProc DEF PauseUndo2, locals, Return
  <2>4. /\ Changes("unpause2", "exit", "SLEEPING", "RUNNING")
        /\ Changes("unpause2", "user", "SLEEPING", "RUNNING")
    BY DEF Changes, Live, Special, Leaving, Exiting, SchedCalls, Interrupt, ForkLabels
  <2> QED
    BY <2>1, <2>2, <2>3, <2>4, OwnCasStep
<1> QED
  BY <1>1, <1>2, <1>3, <1>4, <1>5, <1>6, <1>7, <1>8, <1>9, <1>10

\* A scheduler picks a runnable process and switches to it.
LEMMA PickConsistent ==
  ASSUME TypeOK, Consistent, NEW c \in Cpu, NEW p \in Proc, Pick(c, p)
  PROVE  Consistent'
<1>1. At(c, "scan") /\ resume' = resume /\ slot' = slot /\ state[p] = "RUNNABLE"
  BY DEF Pick, locals
<1>2. ~Corrupted /\ pc[c] = "scan"
  BY <1>1, AtCpu
<1>3. pc'[c] = "run" /\ \A t \in Thread \ {c} : pc'[t] = pc[t]
  BY <1>1, AtCpu, Basics DEF Pick, Goto
<1>4. sp'[c] = p /\ \A d \in Cpu \ {c} : sp'[d] = sp[d]
  BY DEF Pick, TypeOK, TypePc
<1>5. state'[p] = "RUNNING" /\ \A q \in Proc \ {p} : state'[q] = state[q]
  BY DEF Pick, TypeOK, TypeTable
<1>6. OnCpu(p)' /\ \A q \in Proc \ {p} : OnCpu(q)' <=> OnCpu(q)
  BY <1>2, <1>3, <1>4, Basics DEF OnCpu, OnStack
<1>7. \A q \in Proc : pc'[q] = pc[q] /\ Place(q)' = Place(q)
  BY <1>1, <1>3, Basics DEF Place
<1>8. RunningOnCpu'
  BY <1>5, <1>6 DEF RunningOnCpu, Consistent, OnCpu
<1>9. \A q \in Proc : slot[q] \in Proc /\ (Forking(q) => slot[q] # p)
  BY <1>1 DEF TypeOK, TypeRest, Consistent, EmbryoOwned
<1>10. EmbryoOwned'
  <2>1. slot' = slot /\ \A q \in Proc : Forking(q)' <=> Forking(q)
    BY <1>1, <1>7 DEF Forking
  <2> QED
    BY <1>5, <1>9, <2>1 DEF EmbryoOwned, Consistent
<1>11. ASSUME ~Corrupted' PROVE \A q \in Proc : Placed(q)'
  <2>1. ~OnCpu(p)
    <3> SUFFICES ASSUME NEW d \in Cpu, OnStack(d, p) PROVE FALSE
      BY DEF OnCpu
    <3>1. d # c /\ OnStack(d, p)'
      BY <1>2, <1>3, <1>4, Basics DEF OnStack
    <3> QED
      BY <3>1, <1>3, <1>4, <1>11 DEF Corrupted
  <2>2. Parked(pc[p], resume[p], "RUNNABLE")
    BY <2>1, <1>1, <1>2 DEF Consistent, Placed
  <2>3. Active(pc[p], resume[p], "RUNNING")
    BY <2>2 DEF Parked, Active, Live, Dead, Exiting, Leaving, SchedCalls
  <2>4. Placed(p)'
    BY <2>3, <1>1, <1>5, <1>6, <1>7 DEF Placed
  <2>5. \A q \in Proc \ {p} : Placed(q)'
    BY <1>1, <1>2, <1>5, <1>6, <1>7, Untouched, HarmlessSame DEF Consistent
  <2> QED
    BY <2>4, <2>5
<1>12. \A q \in Proc : NewContext(q)'
  BY <1>1, <1>2, <1>7, <1>9 DEF NewContext, Consistent
<1> QED
  BY <1>8, <1>10, <1>11, <1>12 DEF Consistent

\* sched() switches from a process back to the scheduler.
LEMMA SchedConsistent ==
  ASSUME TypeOK, Consistent, NEW c \in Cpu, NEW p \in Proc, Sched(c, p)
  PROVE  Consistent'
<1>1. At(p, pc[p]) /\ OnStack(c, p) /\ pc[p] \in SchedCalls
  BY DEF Sched, At
<1>2. sp' = sp /\ resume' = resume /\ slot' = slot /\ state' = state
  BY DEF Sched, table, locals
<1>3. ~Corrupted /\ Active(pc[p], resume[p], state[p])
  BY <1>1, AtProc
<1>4. state[p] # "RUNNING"
  BY <1>1, <1>3 DEF Active, Leaving
<1>5. PICK l : l = AfterSched(pc[p])
  OBVIOUS
<1>6. pc' = [pc EXCEPT ![p] = l, ![c] = "recas1"]
  BY <1>4, <1>5 DEF Sched
<1>7. pc'[p] = l /\ pc'[c] = "recas1" /\ \A t \in Thread \ {p, c} : pc'[t] = pc[t]
  BY <1>1, <1>6, AtProc, Basics
<1>8. ~OnCpu(p)' /\ \A q \in Proc \ {p} : OnCpu(q)' <=> OnCpu(q)
  BY <1>1, <1>2, <1>3, <1>7, Basics DEF OnCpu, OnStack, Corrupted
<1>9. Parked(l, resume[p], state[p])
  BY <1>1, <1>3, <1>5 DEF AfterSched, SchedCalls, Active, Parked, Exiting
<1>10. Place(p)' = Place(p) \/ Place(p)' \in {"zombie_exit", "wait", "reacquire", "pausechan"}
  BY <1>1, <1>2, <1>5, <1>7 DEF Place, AfterSched, SchedCalls
<1>11. \A q \in Proc \ {p} : pc'[q] = pc[q] /\ Place(q)' = Place(q)
  BY <1>2, <1>7, Basics DEF Place
<1>12. \A q \in Proc : Forking(q)' => Forking(q)
  BY <1>10, <1>11 DEF Forking, ForkLabels
<1>13. \A q \in Proc : slot[q] \in Proc /\ (Forking(q) => slot[q] # p)
  BY <1>1, <1>3, NotEmbryo, AtProc DEF TypeOK, TypeRest, Consistent, EmbryoOwned
<1>14. RunningOnCpu'
  BY <1>2, <1>4, <1>8 DEF RunningOnCpu, Consistent, OnCpu
<1>15. EmbryoOwned'
  BY <1>2, <1>12 DEF EmbryoOwned, Consistent
<1>16. \A q \in Proc : Placed(q)'
  <2>1. Placed(p)'
    BY <1>2, <1>7, <1>8, <1>9 DEF Placed
  <2>2. \A q \in Proc \ {p} : Placed(q)'
    BY <1>2, <1>3, <1>8, <1>11, Untouched, HarmlessSame DEF Consistent
  <2> QED
    BY <2>1, <2>2
<1>17. \A q \in Proc : NewContext(q)'
  <2> SUFFICES ASSUME NEW q \in Proc, Place(q)' \in {"copyuvm", "embryo"}
               PROVE  pc'[slot'[q]] = "user"
    BY DEF NewContext
  <2>1. Place(q) \in {"copyuvm", "embryo"}
    BY <1>10, <1>11
  <2>2. Forking(q)
    BY <2>1 DEF Forking, ForkLabels
  <2> QED
    BY <2>1, <2>2, <1>2, <1>3, <1>11, <1>13 DEF NewContext, Consistent
<1> QED
  BY <1>14, <1>15, <1>16, <1>17 DEF Consistent

\* The scheduler loop after swtch() returns, with freeproc(), and the timer
\* interrupt of an idle CPU.
LEMMA LoopConsistent ==
  ASSUME TypeOK, Consistent, NEW c \in Cpu,
         \/ IdleTimer(c) \/ Tick(c) \/ TickRelease(c)
         \/ RecasRunnable(c) \/ RecasSleeping(c) \/ RecasZombie(c)
         \/ ZombieTest(c) \/ FreeprocTest(c) \/ FreeprocMemory(c) \/ FreeprocFields(c)
  PROVE  Consistent'
<1>1. PICK l : At(c, l)
  BY DEF IdleTimer, Tick, TickRelease, RecasRunnable, RecasSleeping, RecasZombie, Recas,
         ZombieTest, FreeprocTest, FreeprocMemory, FreeprocFields
<1>2. PICK m : m # "run" /\ Goto(c, m)
  BY DEF IdleTimer, Tick, CallWakeup1, TickRelease, RecasRunnable, RecasSleeping,
         RecasZombie, Recas, ZombieTest, FreeprocTest, FreeprocMemory, FreeprocFields
<1>3. resume' = resume /\ slot' = slot
  BY DEF IdleTimer, Tick, TickRelease, RecasRunnable, RecasSleeping, RecasZombie, Recas,
         ZombieTest, FreeprocTest, FreeprocMemory, FreeprocFields, locals
<1>4. ~Corrupted /\ pc[c] # "run"
  BY <1>1, AtCpu
<1>5. pc'[c] = m /\ \A t \in Thread \ {c} : pc'[t] = pc[t]
  BY <1>1, <1>2, AtCpu, Basics DEF Goto
<1>6. \A d \in Cpu \ {c} : sp'[d] = sp[d]
  BY DEF IdleTimer, Tick, TickRelease, RecasRunnable, RecasSleeping, RecasZombie, Recas,
         ZombieTest, FreeprocTest, FreeprocMemory, FreeprocFields, TypeOK, TypePc
<1>7. \A q \in Proc : OnCpu(q)' <=> OnCpu(q)
  BY <1>2, <1>4, <1>5, <1>6, Basics DEF OnCpu, OnStack
<1>8. \A q \in Proc : Harmless(state[q], state'[q])
  <2>1. CASE IdleTimer(c) \/ Tick(c) \/ TickRelease(c) \/ ZombieTest(c)
             \/ FreeprocTest(c) \/ FreeprocMemory(c) \/ FreeprocFields(c)
    BY <2>1, HarmlessSame
    DEF IdleTimer, Tick, TickRelease, ZombieTest, FreeprocTest, FreeprocMemory,
        FreeprocFields, table
  <2>2. CASE RecasRunnable(c)
    BY <2>2, AtCpu, HarmlessCas DEF RecasRunnable, Recas
  <2>3. CASE RecasSleeping(c)
    BY <2>3, AtCpu, HarmlessCas DEF RecasSleeping, Recas
  <2>4. CASE RecasZombie(c)
    BY <2>4, AtCpu, HarmlessCas DEF RecasZombie, Recas
  <2> QED
    BY <2>1, <2>2, <2>3, <2>4
<1> QED
  BY <1>3, <1>4, <1>5, <1>7, <1>8, Basics, CpuStep

-----------------------------------------------------------------------------
\* Nothing is on a CPU, and only init is alive, when the kernel starts.
LEMMA ConsistentInit == Init => Consistent
<1> SUFFICES ASSUME Init PROVE Consistent
  OBVIOUS
<1>1. \A p \in Proc : ~OnCpu(p) /\ pc[p] = "user" /\ Place(p) = "user"
  BY Basics DEF Init, OnCpu, OnStack, Place
<1>2. \A p \in Proc : state[p] # "RUNNING"
  BY DEF Init
<1>3. RunningOnCpu /\ EmbryoOwned
  BY <1>1, <1>2 DEF RunningOnCpu, EmbryoOwned, Forking, ForkLabels
<1>4. \A p \in Proc : Placed(p) /\ NewContext(p)
  BY <1>1 DEF Placed, Parked, NewContext
<1> QED
  BY <1>3, <1>4 DEF Consistent

\* Every step of every thread keeps Consistent.
LEMMA ConsistentNext == TypeOK /\ Consistent /\ [Next]_vars => Consistent'
<1> SUFFICES ASSUME TypeOK, Consistent, [Next]_vars PROVE Consistent'
  OBVIOUS
<1>1. ASSUME NEW t \in Thread, Wakeup1(t) PROVE Consistent'
  BY <1>1, WakeupConsistent
<1>2. ASSUME NEW p \in Proc, Process(p) PROVE Consistent'
  BY <1>2, InterruptConsistent, ForkConsistent, SyscallConsistent, ExitConsistent,
     WaitConsistent, SleepConsistent, SignalConsistent
  DEF Process
<1>3. ASSUME NEW c \in Cpu, Scheduler(c) PROVE Consistent'
  BY <1>3, PickConsistent, SchedConsistent, InterruptConsistent, LoopConsistent
  DEF Scheduler
<1>4. CASE UNCHANGED vars
  <2>1. UNCHANGED <<state, kstack, sp, pc, resume, slot>>
    BY <1>4 DEF vars, table, locals
  <2>2. \A p \in Proc, c \in Cpu :
          /\ OnStack(c, p)' = OnStack(c, p) /\ OnCpu(p)' = OnCpu(p)
          /\ Place(p)' = Place(p)
    BY <2>1 DEF OnStack, OnCpu, Place
  <2>3. RunningOnCpu' = RunningOnCpu
    BY <2>1 DEF RunningOnCpu, OnStack
  <2>4. EmbryoOwned' = EmbryoOwned
    BY <2>1 DEF EmbryoOwned, Forking, Place
  <2>5. Corrupted' = Corrupted
    BY <2>1 DEF Corrupted, OnStack
  <2>6. \A p \in Proc : Placed(p)' = Placed(p) /\ NewContext(p)' = NewContext(p)
    BY <2>1 DEF Placed, NewContext, OnCpu, OnStack, Place
  <2> QED
    BY <2>3, <2>4, <2>5, <2>6 DEF Consistent
<1> QED
  BY <1>1, <1>2, <1>3, <1>4 DEF Next

\* On any number of CPUs, and until a kernel stack is corrupted, the place of
\* every process agrees with its state (proc.c, all CAS operations together).
THEOREM ConsistentAlways == Spec => []Consistent
<1>1. Init => TypeOK /\ Consistent
  BY TypeInit, ConsistentInit
<1>2. TypeOK /\ Consistent /\ [Next]_vars => TypeOK' /\ Consistent'
  BY TypeNext, ConsistentNext
<1> QED
  BY <1>1, <1>2, PTL DEF Spec

\* A RUNNING process is on a CPU: scheduler() and sched() lose none.
THEOREM RunningIsOnCpu == Spec => []RunningOnCpu
<1>1. Consistent => RunningOnCpu
  BY DEF Consistent
<1> QED
  BY <1>1, ConsistentAlways, PTL

\* The slot that a fork has claimed is its own until the fork gives it up.
THEOREM EmbryoIsOwned == Spec => []EmbryoOwned
<1>1. Consistent => EmbryoOwned
  BY DEF Consistent
<1> QED
  BY <1>1, ConsistentAlways, PTL

\* panic("sched running") is not reached.
THEOREM SchedIsNotRunning == Spec => []SchedNotRunning
<1>1. Consistent => SchedNotRunning
  <2> SUFFICES ASSUME Consistent, ~Corrupted, NEW p \in Proc, pc[p] \in SchedCalls
               PROVE  state[p] # "RUNNING"
    BY DEF SchedNotRunning
  <2>1. Placed(p)
    BY DEF Consistent
  <2> QED
    BY <2>1 DEF Placed, Active, Parked, Leaving, SchedCalls
<1> QED
  BY <1>1, ConsistentAlways, PTL

\* panic("zombie exit") is not reached.
THEOREM ExitedDoesNotRun == Spec => []ExitedNeverRuns
<1>1. Consistent => ExitedNeverRuns
  BY DEF Consistent, ExitedNeverRuns, Placed, OnCpu, Active
<1> QED
  BY <1>1, ConsistentAlways, PTL

-----------------------------------------------------------------------------
\* allocpid() has given out no pid above nextpid.
PidBound == \A p \in Proc : pid[p] <= nextpid

\* No two slots hold the same pid: on any number of CPUs, with slots reused,
\* and with forks that fail after allocpid().
THEOREM PidsAreUnique == Spec => []PidUnique
<1>1. Init => PidBound /\ PidUnique
  BY DEF Init, PidBound, PidUnique, initproc
<1>2. TypeOK /\ PidBound /\ PidUnique /\ [Next]_vars => PidBound' /\ PidUnique'
  <2> SUFFICES ASSUME TypeOK, PidBound, PidUnique, [Next]_vars
               PROVE  PidBound' /\ PidUnique'
    OBVIOUS
  <2>0. /\ pid \in [Proc -> Nat] /\ nextpid \in Nat /\ slot \in [Proc -> Proc]
    BY DEF TypeOK, TypeTable, TypeRest
  <2>1. CASE UNCHANGED <<pid, nextpid>>
    BY <2>1 DEF PidBound, PidUnique
  <2>2. ASSUME NEW p \in Proc, AllocPid(p) PROVE PidBound' /\ PidUnique'
    BY <2>0, <2>2 DEF AllocPid, PidBound, PidUnique
  <2>3. ASSUME NEW p \in Proc, ReapPid(p) PROVE PidBound' /\ PidUnique'
    BY <2>0, <2>3 DEF ReapPid, PidBound, PidUnique
  <2>4. ASSUME NEW t \in Thread, Wakeup1(t) PROVE UNCHANGED <<pid, nextpid>>
    BY <2>4
    DEF Wakeup1, WakeupTest, WakeupNSleeping, WakeupNClear, WakeupSleeping, WakeupClear, table
  <2>5. ASSUME NEW p \in Proc, Process(p)
        PROVE  AllocPid(p) \/ ReapPid(p) \/ UNCHANGED <<pid, nextpid>>
    BY <2>5
    DEF Process, UserTrap, Tick, TickRelease, Yield, Resume, AllocSlot, KallocStack, CopyUvm,
        ForkDone, ExitCas, ExitWakeParent, Reparent, Adopt, WaitChan, WaitCas,
        ScanParent, ScanState, ScanEnd, Reap, ReapParent, WaitUnchan, WaitRunning1,
        WaitRunning2, SleepAcquire, SleepTest, SleepCas, SleepRelease, SleepReacquire,
        KillFind, KillSpin, SigSend, SigSent, SigPause, PauseChan, PauseCas, PauseTest,
        PauseUndo1, PauseUndo2, table
  <2>6. ASSUME NEW c \in Cpu, Scheduler(c) PROVE UNCHANGED <<pid, nextpid>>
    BY <2>6
    DEF Scheduler, IdleTimer, Tick, TickRelease, Pick, Sched, Timer, RecasRunnable,
        RecasSleeping, RecasZombie, Recas, ZombieTest, FreeprocTest, FreeprocMemory,
        FreeprocFields, table
  <2>7. CASE UNCHANGED vars
    BY <2>1, <2>7 DEF vars, table
  <2> QED
    BY <2>1, <2>2, <2>3, <2>4, <2>5, <2>6, <2>7 DEF Next
<1>3. Spec => []TypeOK
  BY TypeCorrect
<1> QED
  BY <1>1, <1>2, <1>3, PTL DEF Spec

=============================================================================
