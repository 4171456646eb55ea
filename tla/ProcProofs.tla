----------------------------- MODULE ProcProofs -----------------------------
(***************************************************************************)
(* Type correctness of module Proc, for every value of its constants.      *)
(***************************************************************************)
EXTENDS Proc, TLAPS

\* Slots, CPUs and channels: the facts about 1 .. NPROC that the proofs use.
LEMMA Basics ==
  /\ \A p \in Proc : p \in Thread /\ p \notin Cpu /\ p \in Channel
                    /\ p \in 0 .. NPROC /\ p # 0
  /\ \A c \in Cpu : c \in Thread /\ c \notin Proc
  /\ \A t \in Thread : t \in Proc \/ t \in Cpu
  /\ \A i \in Proc : i < NPROC => i + 1 \in Proc
  /\ \A i \in 0 .. NPROC : i \in Channel
  /\ 1 \in Proc /\ 0 \in 0 .. NPROC /\ 0 \in Channel /\ Ticks \in Channel
  /\ initproc \in Proc
  BY ConstantsAssumption DEF Proc, Thread, Channel, Ticks, initproc

\* The activation record of wakeup1() stays one while its loop advances.
LEMMA WakeType ==
  /\ IdleWake \in WakeActivation
  /\ \A w \in WakeActivation : /\ Advance(w) \in WakeActivation 
       /\ w.at \in WakeLabels /\ w.chan \in Channel /\ w.slot \in Proc
       /\ \A l \in WakeLabels : [w EXCEPT !.at = l] \in WakeActivation
  /\ \A ch \in Channel : [at |-> "test", chan |-> ch, slot |-> 1] \in WakeActivation
  BY Basics DEF IdleWake, Advance, WakeActivation, WakeLabels

\* The state after userinit() is well typed.
LEMMA TypeInit == Init => TypeOK
<1> SUFFICES ASSUME Init PROVE TypeOK
  OBVIOUS
<1>1. TypeTable
  BY Basics DEF Init, TypeTable, States
<1>2. TypePc
  BY Basics DEF Init, TypePc, ProcLabels, CpuLabels, Interruptible, SchedCalls
<1>3. TypeRest
  BY Basics, WakeType DEF Init, TypeRest, Interruptible
<1> QED
  BY <1>1, <1>2, <1>3 DEF TypeOK

\* A jump of a process to one of its labels keeps the program counters typed, ...
LEMMA GotoType ==
  ASSUME TypePc, NEW p \in Proc, NEW l \in ProcLabels, Goto(p, l), UNCHANGED sp
  PROVE  TypePc'
  BY Basics DEF TypePc, Goto

\* ... as does the return from a system call through trap(), ...
LEMMA ReturnType ==
  ASSUME TypePc, NEW p \in Proc, Return(p), UNCHANGED sp
  PROVE  TypePc'
<1>1. "exit" \in ProcLabels /\ "user" \in ProcLabels
  BY DEF ProcLabels, Interruptible
<1>2. (IF killed[p] THEN "exit" ELSE "user") \in ProcLabels
  BY <1>1
<1> QED
  BY <1>2, GotoType DEF Return

\* ... and a jump of a scheduler that has a process in hand when it needs one.
LEMMA GotoCpuType ==
  ASSUME TypePc, NEW c \in Cpu, NEW l \in CpuLabels, Goto(c, l), UNCHANGED sp,
         l \notin {"scan", "tick", "tickrelease"} => sp[c] \in Proc
  PROVE  TypePc'
  BY Basics DEF TypePc, Goto

\* The loops of exit() and wait() stay inside the table.
LEMMA NextSlotType ==
  ASSUME TypePc, slot \in [Proc -> Proc], NEW p \in Proc, UNCHANGED sp,
         NEW again \in ProcLabels, NEW done \in ProcLabels, NextSlot(p, again, done)
  PROVE  TypePc' /\ slot' \in [Proc -> Proc]
<1>1. (IF slot[p] < NPROC THEN again ELSE done) \in ProcLabels
  OBVIOUS
<1>2. TypePc'
  BY <1>1, GotoType DEF NextSlot
<1>3. slot' \in [Proc -> Proc]
  BY Basics DEF NextSlot
<1> QED
  BY <1>2, <1>3

\* A CAS to a state keeps p->state a state.
LEMMA CasType ==
  ASSUME state \in [Proc -> States], NEW q \in Proc, NEW from, NEW to \in States,
         Cas(q, from, to)
  PROVE  state' \in [Proc -> States]
  BY DEF Cas

\* Every step of every thread keeps the types; one step per action.
LEMMA TypeNext == TypeOK /\ [Next]_vars => TypeOK'
<1> SUFFICES ASSUME TypeOK, [Next]_vars PROVE TypeOK'
  OBVIOUS
<1>0. TypeTable /\ TypePc /\ TypeRest
  BY DEF TypeOK
<1> USE <1>0, Basics DEF table, clock, locals
<1>1. ASSUME NEW t \in Thread, WakeupTest(t)
       PROVE  TypeOK'
  <2>1. TypeTable'
    BY <1>1 DEF WakeupTest, TypeTable
  <2>2. TypePc'
    BY <1>1 DEF WakeupTest, TypePc
  <2>3. TypeRest'
    BY <1>1, WakeType DEF WakeupTest, TypeRest, WakeLabels
  <2> QED
    BY <2>1, <2>2, <2>3 DEF TypeOK
<1>2. ASSUME NEW t \in Thread, WakeupNSleeping(t)
       PROVE  TypeOK'
  <2>1. TypeTable'
    BY <1>2, CasType DEF WakeupNSleeping, TypeTable, TypeRest, States, WakeAt, WakeActivation
  <2>2. TypePc'
    BY <1>2 DEF WakeupNSleeping, TypePc
  <2>3. TypeRest'
    BY <1>2, WakeType DEF WakeupNSleeping, TypeRest, WakeLabels
  <2> QED
    BY <2>1, <2>2, <2>3 DEF TypeOK
<1>3. ASSUME NEW t \in Thread, WakeupNClear(t)
       PROVE  TypeOK'
  <2>1. TypeTable'
    BY <1>3 DEF WakeupNClear, TypeTable, TypeRest, States, WakeAt, WakeActivation
  <2>2. TypePc'
    BY <1>3 DEF WakeupNClear, TypePc
  <2>3. TypeRest'
    BY <1>3, WakeType DEF WakeupNClear, TypeRest, WakeLabels
  <2> QED
    BY <2>1, <2>2, <2>3 DEF TypeOK
<1>4. ASSUME NEW t \in Thread, WakeupSleeping(t)
       PROVE  TypeOK'
  <2>1. TypeTable'
    BY <1>4, CasType DEF WakeupSleeping, TypeTable, TypeRest, States, WakeAt, WakeActivation
  <2>2. TypePc'
    BY <1>4 DEF WakeupSleeping, TypePc
  <2>3. TypeRest'
    BY <1>4, WakeType DEF WakeupSleeping, TypeRest, WakeLabels
  <2> QED
    BY <2>1, <2>2, <2>3 DEF TypeOK
<1>5. ASSUME NEW t \in Thread, WakeupClear(t)
       PROVE  TypeOK'
  <2>1. TypeTable'
    BY <1>5 DEF WakeupClear, TypeTable, TypeRest, States, WakeAt, WakeActivation
  <2>2. TypePc'
    BY <1>5 DEF WakeupClear, TypePc
  <2>3. TypeRest'
    BY <1>5, WakeType DEF WakeupClear, TypeRest, WakeLabels
  <2> QED
    BY <2>1, <2>2, <2>3 DEF TypeOK
<1>6. ASSUME NEW t \in Thread, Tick(t)
       PROVE  TypeOK'
  <2>1. TypeTable'
    BY <1>6 DEF Tick, TypeTable
  <2>2. TypePc'
    BY <1>6, GotoType, GotoCpuType
    DEF Tick, TypePc, ProcLabels, CpuLabels, Interruptible, CallWakeup1
  <2>3. TypeRest'
    <3>1. due' \in [Proc -> BOOLEAN]
      BY <1>6 DEF Tick
    <3>2. wk' \in [Thread -> WakeActivation] /\ tickslock' \in Thread
      BY <1>6, WakeType DEF Tick, TypeRest, CallWakeup1
    <3> QED
      BY <3>1, <3>2, <1>6 DEF Tick, TypeRest
  <2> QED
    BY <2>1, <2>2, <2>3 DEF TypeOK
<1>7. ASSUME NEW t \in Thread, TickRelease(t)
       PROVE  TypeOK'
  <2>1. TypeTable'
    BY <1>7 DEF TickRelease, TypeTable
  <2>2. TypePc'
    BY <1>7, GotoType, GotoCpuType
    DEF TickRelease, TypePc, ProcLabels, CpuLabels, Interruptible
  <2>3. TypeRest'
    BY <1>7, WakeType DEF TickRelease, TypeRest, WakeLabels
  <2> QED
    BY <2>1, <2>2, <2>3 DEF TypeOK
<1>8. ASSUME NEW p \in Proc, UserTrap(p)
       PROVE  TypeOK'
  <2>1. TypeTable'
    BY <1>8 DEF UserTrap, TypeTable, TypeRest, States
  <2>2. TypePc'
    BY <1>8, GotoType, ConstantsAssumption
    DEF UserTrap, TypePc, ProcLabels, Interruptible, SchedCalls, SysCalls
  <2>3. TypeRest'
    BY <1>8 DEF UserTrap, TypeRest
  <2> QED
    BY <2>1, <2>2, <2>3 DEF TypeOK
<1>9. ASSUME NEW p \in Proc, Yield(p)
       PROVE  TypeOK'
  <2>1. TypeTable'
    BY <1>9, CasType DEF Yield, TypeTable, TypeRest, States
  <2>2. TypePc'
    BY <1>9, GotoType
    DEF Yield, TypePc, ProcLabels, Interruptible, SchedCalls
  <2>3. TypeRest'
    BY <1>9 DEF Yield, TypeRest
  <2> QED
    BY <2>1, <2>2, <2>3 DEF TypeOK
<1>10. ASSUME NEW p \in Proc, Resume(p)
       PROVE  TypeOK'
  <2>1. TypeTable'
    BY <1>10 DEF Resume, TypeTable
  <2>2. TypePc'
    BY <1>10, GotoType
    DEF Resume, TypePc, ProcLabels, Interruptible, SchedCalls, TypeRest
  <2>3. TypeRest'
    BY <1>10 DEF Resume, TypeRest, Interruptible
  <2> QED
    BY <2>1, <2>2, <2>3 DEF TypeOK
<1>11. ASSUME NEW p \in Proc, AllocSlot(p)
       PROVE  TypeOK'
  <2>1. TypeTable'
    BY <1>11 DEF AllocSlot, TypeTable, TypeRest, States
  <2>2. TypePc'
    BY <1>11, GotoType, ReturnType
    DEF AllocSlot, TypePc, ProcLabels, Interruptible, SchedCalls
  <2>3. TypeRest'
    <3>1. slot' \in [Proc -> Proc]
      BY <1>11 DEF AllocSlot, TypeRest
    <3> QED
      BY <3>1, <1>11 DEF AllocSlot, TypeRest
  <2> QED
    BY <2>1, <2>2, <2>3 DEF TypeOK
<1>12. ASSUME NEW p \in Proc, AllocPid(p)
       PROVE  TypeOK'
  <2>1. TypeTable'
    BY <1>12 DEF AllocPid, TypeTable, TypeRest, States
  <2>2. TypePc'
    BY <1>12, GotoType
    DEF AllocPid, TypePc, ProcLabels, Interruptible, SchedCalls
  <2>3. TypeRest'
    BY <1>12 DEF AllocPid, TypeRest
  <2> QED
    BY <2>1, <2>2, <2>3 DEF TypeOK
<1>13. ASSUME NEW p \in Proc, KallocStack(p)
       PROVE  TypeOK'
  <2>1. TypeTable'
    <3>1. state' \in [Proc -> States] /\ kstack' \in [Proc -> BOOLEAN]
      <4>1. slot[p] \in Proc
        BY DEF TypeRest
      <4>2. state' = state \/ state' = [state EXCEPT ![slot[p]] = "UNUSED"]
        BY <1>13 DEF KallocStack
      <4>3. \/ kstack' = [kstack EXCEPT ![slot[p]] = TRUE]
            \/ kstack' = [kstack EXCEPT ![slot[p]] = FALSE]
        BY <1>13 DEF KallocStack
      <4> QED
        BY <4>1, <4>2, <4>3 DEF TypeTable, States
    <3> QED
      BY <3>1, <1>13 DEF KallocStack, TypeTable
  <2>2. TypePc'
    <3>1. CASE Return(p)
      BY <3>1, <1>13, ReturnType DEF KallocStack
    <3>2. CASE pc' = [pc EXCEPT ![p] = "copyuvm", ![slot[p]] = "user"]
      <4>1. slot[p] \in Proc
        BY DEF TypeRest
      <4>2. "copyuvm" \in ProcLabels /\ "user" \in ProcLabels
        BY DEF ProcLabels, Interruptible
      <4>3. sp' = sp
        BY <1>13 DEF KallocStack
      <4> QED
        BY <3>2, <4>1, <4>2, <4>3 DEF TypePc
    <3> QED
      BY <3>1, <3>2, <1>13 DEF KallocStack
  <2>3. TypeRest'
    BY <1>13 DEF KallocStack, TypeRest
  <2> QED
    BY <2>1, <2>2, <2>3 DEF TypeOK
<1>14. ASSUME NEW p \in Proc, CopyUvm(p)
       PROVE  TypeOK'
  <2>1. TypeTable'
    <3>1. slot[p] \in Proc
      BY DEF TypeRest
    <3>2. state' = state \/ state' = [state EXCEPT ![slot[p]] = "UNUSED"]
      BY <1>14 DEF CopyUvm
    <3>3. kstack' = kstack \/ kstack' = [kstack EXCEPT ![slot[p]] = FALSE]
      BY <1>14 DEF CopyUvm
    <3>4. parent' = parent \/ parent' = [parent EXCEPT ![slot[p]] = p]
      BY <1>14 DEF CopyUvm
    <3>5. state' \in [Proc -> States] /\ kstack' \in [Proc -> BOOLEAN]
      BY <3>1, <3>2, <3>3 DEF TypeTable, States
    <3>6. parent' \in [Proc -> 0 .. NPROC]
      BY <3>1, <3>4 DEF TypeTable
    <3> QED
      BY <3>5, <3>6, <1>14 DEF CopyUvm, TypeTable
  <2>2. TypePc'
    BY <1>14, GotoType, ReturnType
    DEF CopyUvm, TypePc, ProcLabels, Interruptible, SchedCalls
  <2>3. TypeRest'
    BY <1>14 DEF CopyUvm, TypeRest
  <2> QED
    BY <2>1, <2>2, <2>3 DEF TypeOK
<1>15. ASSUME NEW p \in Proc, ForkDone(p)
       PROVE  TypeOK'
  <2>1. TypeTable'
    BY <1>15, CasType DEF ForkDone, TypeTable, TypeRest, States
  <2>2. TypePc'
    BY <1>15, GotoType, ReturnType
    DEF ForkDone, TypePc, ProcLabels, Interruptible, SchedCalls
  <2>3. TypeRest'
    BY <1>15 DEF ForkDone, TypeRest
  <2> QED
    BY <2>1, <2>2, <2>3 DEF TypeOK
<1>16. ASSUME NEW p \in Proc, ExitCas(p)
       PROVE  TypeOK'
  <2>1. TypeTable'
    BY <1>16, CasType DEF ExitCas, TypeTable, TypeRest, States
  <2>2. TypePc'
    BY <1>16, GotoType, ConstantsAssumption
    DEF ExitCas, TypePc, ProcLabels, Interruptible, SchedCalls, SysCalls
  <2>3. TypeRest'
    BY <1>16 DEF ExitCas, TypeRest
  <2> QED
    BY <2>1, <2>2, <2>3 DEF TypeOK
<1>17. ASSUME NEW p \in Proc, ExitWakeParent(p)
       PROVE  TypeOK'
  <2>1. TypeTable'
    BY <1>17 DEF ExitWakeParent, TypeTable
  <2>2. TypePc'
    BY <1>17, GotoType
    DEF ExitWakeParent, TypePc, ProcLabels, Interruptible, SchedCalls, CallWakeup1
  <2>3. TypeRest'
    BY <1>17, WakeType DEF ExitWakeParent, TypeRest, TypeTable, CallWakeup1
  <2> QED
    BY <2>1, <2>2, <2>3 DEF TypeOK
<1>18. ASSUME NEW p \in Proc, Reparent(p)
       PROVE  TypeOK'
  <2>1. TypeTable'
    BY <1>18 DEF Reparent, TypeTable, TypeRest, States
  <2>2. TypePc'
    BY <1>18, GotoType, NextSlotType
    DEF Reparent, TypePc, ProcLabels, Interruptible, SchedCalls, TypeRest
  <2>3. TypeRest'
    BY <1>18, NextSlotType DEF Reparent, TypeRest, ProcLabels, SchedCalls
  <2> QED
    BY <2>1, <2>2, <2>3 DEF TypeOK
<1>19. ASSUME NEW p \in Proc, Adopt(p)
       PROVE  TypeOK'
  <2>1. TypeTable'
    BY <1>19 DEF Adopt, TypeTable
  <2>2. TypePc'
    BY <1>19, GotoType, NextSlotType
    DEF Adopt, TypePc, ProcLabels, Interruptible, SchedCalls, TypeRest
  <2>3. TypeRest'
    BY <1>19, WakeType, NextSlotType DEF Adopt, TypeRest, ProcLabels, SchedCalls
  <2> QED
    BY <2>1, <2>2, <2>3 DEF TypeOK
<1>20. ASSUME NEW p \in Proc, WaitChan(p)
       PROVE  TypeOK'
  <2>1. TypeTable'
    BY <1>20 DEF WaitChan, TypeTable, TypeRest, States
  <2>2. TypePc'
    BY <1>20, GotoType
    DEF WaitChan, TypePc, ProcLabels, Interruptible, SchedCalls
  <2>3. TypeRest'
    BY <1>20 DEF WaitChan, TypeRest
  <2> QED
    BY <2>1, <2>2, <2>3 DEF TypeOK
<1>21. ASSUME NEW p \in Proc, WaitCas(p)
       PROVE  TypeOK'
  <2>1. TypeTable'
    BY <1>21, CasType DEF WaitCas, TypeTable, TypeRest, States
  <2>2. TypePc'
    BY <1>21, GotoType
    DEF WaitCas, TypePc, ProcLabels, Interruptible, SchedCalls
  <2>3. TypeRest'
    BY <1>21 DEF WaitCas, TypeRest
  <2> QED
    BY <2>1, <2>2, <2>3 DEF TypeOK
<1>22. ASSUME NEW p \in Proc, ScanParent(p)
       PROVE  TypeOK'
  <2>1. TypeTable'
    BY <1>22 DEF ScanParent, TypeTable
  <2>2. TypePc'
    BY <1>22, GotoType, NextSlotType
    DEF ScanParent, TypePc, ProcLabels, Interruptible, SchedCalls, TypeRest
  <2>3. TypeRest'
    BY <1>22, NextSlotType DEF ScanParent, TypeRest, ProcLabels, SchedCalls
  <2> QED
    BY <2>1, <2>2, <2>3 DEF TypeOK
<1>23. ASSUME NEW p \in Proc, ScanState(p)
       PROVE  TypeOK'
  <2>1. TypeTable'
    BY <1>23 DEF ScanState, TypeTable
  <2>2. TypePc'
    BY <1>23, GotoType, NextSlotType
    DEF ScanState, TypePc, ProcLabels, Interruptible, SchedCalls, TypeRest
  <2>3. TypeRest'
    BY <1>23, NextSlotType DEF ScanState, TypeRest, ProcLabels, SchedCalls
  <2> QED
    BY <2>1, <2>2, <2>3 DEF TypeOK
<1>24. ASSUME NEW p \in Proc, ScanEnd(p)
       PROVE  TypeOK'
  <2>1. TypeTable'
    BY <1>24 DEF ScanEnd, TypeTable, TypeRest, States
  <2>2. TypePc'
    BY <1>24, GotoType
    DEF ScanEnd, TypePc, ProcLabels, Interruptible, SchedCalls
  <2>3. TypeRest'
    BY <1>24 DEF ScanEnd, TypeRest
  <2> QED
    BY <2>1, <2>2, <2>3 DEF TypeOK
<1>25. ASSUME NEW p \in Proc, Reap(p)
       PROVE  TypeOK'
  <2>1. TypeTable'
    BY <1>25, CasType DEF Reap, TypeTable, TypeRest, States
  <2>2. TypePc'
    BY <1>25, GotoType
    DEF Reap, TypePc, ProcLabels, Interruptible, SchedCalls
  <2>3. TypeRest'
    BY <1>25 DEF Reap, TypeRest
  <2> QED
    BY <2>1, <2>2, <2>3 DEF TypeOK
<1>26. ASSUME NEW p \in Proc, ReapPid(p)
       PROVE  TypeOK'
  <2>1. TypeTable'
    BY <1>26 DEF ReapPid, TypeTable, TypeRest, States
  <2>2. TypePc'
    BY <1>26, GotoType
    DEF ReapPid, TypePc, ProcLabels, Interruptible, SchedCalls
  <2>3. TypeRest'
    BY <1>26 DEF ReapPid, TypeRest
  <2> QED
    BY <2>1, <2>2, <2>3 DEF TypeOK
<1>27. ASSUME NEW p \in Proc, ReapParent(p)
       PROVE  TypeOK'
  <2>1. TypeTable'
    BY <1>27 DEF ReapParent, TypeTable, TypeRest, States
  <2>2. TypePc'
    BY <1>27, GotoType
    DEF ReapParent, TypePc, ProcLabels, Interruptible, SchedCalls
  <2>3. TypeRest'
    BY <1>27 DEF ReapParent, TypeRest
  <2> QED
    BY <2>1, <2>2, <2>3 DEF TypeOK
<1>28. ASSUME NEW p \in Proc, WaitUnchan(p)
       PROVE  TypeOK'
  <2>1. TypeTable'
    BY <1>28 DEF WaitUnchan, TypeTable, TypeRest, States
  <2>2. TypePc'
    BY <1>28, GotoType
    DEF WaitUnchan, TypePc, ProcLabels, Interruptible, SchedCalls
  <2>3. TypeRest'
    BY <1>28 DEF WaitUnchan, TypeRest
  <2> QED
    BY <2>1, <2>2, <2>3 DEF TypeOK
<1>29. ASSUME NEW p \in Proc, WaitRunning1(p)
       PROVE  TypeOK'
  <2>1. TypeTable'
    BY <1>29, CasType DEF WaitRunning1, TypeTable, TypeRest, States
  <2>2. TypePc'
    BY <1>29, GotoType
    DEF WaitRunning1, TypePc, ProcLabels, Interruptible, SchedCalls
  <2>3. TypeRest'
    BY <1>29 DEF WaitRunning1, TypeRest
  <2> QED
    BY <2>1, <2>2, <2>3 DEF TypeOK
<1>30. ASSUME NEW p \in Proc, WaitRunning2(p)
       PROVE  TypeOK'
  <2>1. TypeTable'
    BY <1>30, CasType DEF WaitRunning2, TypeTable, TypeRest, States
  <2>2. TypePc'
    BY <1>30, GotoType, ReturnType
    DEF WaitRunning2, TypePc, ProcLabels, Interruptible, SchedCalls
  <2>3. TypeRest'
    BY <1>30 DEF WaitRunning2, TypeRest
  <2> QED
    BY <2>1, <2>2, <2>3 DEF TypeOK
<1>31. ASSUME NEW p \in Proc, SleepAcquire(p)
       PROVE  TypeOK'
  <2>1. TypeTable'
    BY <1>31 DEF SleepAcquire, TypeTable
  <2>2. TypePc'
    BY <1>31, GotoType
    DEF SleepAcquire, TypePc, ProcLabels, Interruptible, SchedCalls
  <2>3. TypeRest'
    BY <1>31 DEF SleepAcquire, TypeRest
  <2> QED
    BY <2>1, <2>2, <2>3 DEF TypeOK
<1>32. ASSUME NEW p \in Proc, SleepTest(p)
       PROVE  TypeOK'
  <2>1. TypeTable'
    BY <1>32 DEF SleepTest, TypeTable, TypeRest, States
  <2>2. TypePc'
    BY <1>32, GotoType, ReturnType
    DEF SleepTest, TypePc, ProcLabels, Interruptible, SchedCalls
  <2>3. TypeRest'
    <3>1. due' \in [Proc -> BOOLEAN] /\ tickslock' \in Thread \cup {0}
      BY <1>32 DEF SleepTest, TypeRest
    <3> QED
      BY <3>1, <1>32 DEF SleepTest, TypeRest
  <2> QED
    BY <2>1, <2>2, <2>3 DEF TypeOK
<1>33. ASSUME NEW p \in Proc, SleepCas(p)
       PROVE  TypeOK'
  <2>1. TypeTable'
    BY <1>33, CasType DEF SleepCas, TypeTable, TypeRest, States
  <2>2. TypePc'
    BY <1>33, GotoType
    DEF SleepCas, TypePc, ProcLabels, Interruptible, SchedCalls
  <2>3. TypeRest'
    BY <1>33 DEF SleepCas, TypeRest
  <2> QED
    BY <2>1, <2>2, <2>3 DEF TypeOK
<1>34. ASSUME NEW p \in Proc, SleepRelease(p)
       PROVE  TypeOK'
  <2>1. TypeTable'
    BY <1>34 DEF SleepRelease, TypeTable
  <2>2. TypePc'
    BY <1>34, GotoType
    DEF SleepRelease, TypePc, ProcLabels, Interruptible, SchedCalls
  <2>3. TypeRest'
    BY <1>34 DEF SleepRelease, TypeRest
  <2> QED
    BY <2>1, <2>2, <2>3 DEF TypeOK
<1>35. ASSUME NEW p \in Proc, SleepReacquire(p)
       PROVE  TypeOK'
  <2>1. TypeTable'
    BY <1>35 DEF SleepReacquire, TypeTable
  <2>2. TypePc'
    BY <1>35, GotoType
    DEF SleepReacquire, TypePc, ProcLabels, Interruptible, SchedCalls
  <2>3. TypeRest'
    BY <1>35 DEF SleepReacquire, TypeRest
  <2> QED
    BY <2>1, <2>2, <2>3 DEF TypeOK
<1>36. ASSUME NEW p \in Proc, KillFind(p)
       PROVE  TypeOK'
  <2>1. TypeTable'
    BY <1>36 DEF KillFind, TypeTable, TypeRest, States
  <2>2. TypePc'
    BY <1>36, GotoType, ReturnType
    DEF KillFind, TypePc, ProcLabels, Interruptible, SchedCalls
  <2>3. TypeRest'
    <3>1. slot' \in [Proc -> Proc]
      BY <1>36 DEF KillFind, TypeRest
    <3> QED
      BY <3>1, <1>36 DEF KillFind, TypeRest
  <2> QED
    BY <2>1, <2>2, <2>3 DEF TypeOK
<1>37. ASSUME NEW p \in Proc, KillSpin(p)
       PROVE  TypeOK'
  <2>1. TypeTable'
    BY <1>37, CasType DEF KillSpin, TypeTable, TypeRest, States
  <2>2. TypePc'
    BY <1>37, GotoType
    DEF KillSpin, TypePc, ProcLabels, Interruptible, SchedCalls
  <2>3. TypeRest'
    BY <1>37 DEF KillSpin, TypeRest
  <2> QED
    BY <2>1, <2>2, <2>3 DEF TypeOK
<1>38. ASSUME NEW p \in Proc, SigSend(p)
       PROVE  TypeOK'
  <2>1. TypeTable'
    BY <1>38 DEF SigSend, TypeTable
  <2>2. TypePc'
    BY <1>38, GotoType, ReturnType
    DEF SigSend, TypePc, ProcLabels, Interruptible, SchedCalls, CallWakeup1
  <2>3. TypeRest'
    BY <1>38, WakeType DEF SigSend, TypeRest, TypeTable, CallWakeup1
  <2> QED
    BY <2>1, <2>2, <2>3 DEF TypeOK
<1>39. ASSUME NEW p \in Proc, SigSent(p)
       PROVE  TypeOK'
  <2>1. TypeTable'
    BY <1>39 DEF SigSent, TypeTable
  <2>2. TypePc'
    BY <1>39, GotoType, ReturnType
    DEF SigSent, TypePc, ProcLabels, Interruptible, SchedCalls
  <2>3. TypeRest'
    BY <1>39 DEF SigSent, TypeRest
  <2> QED
    BY <2>1, <2>2, <2>3 DEF TypeOK
<1>40. ASSUME NEW p \in Proc, SigPause(p)
       PROVE  TypeOK'
  <2>1. TypeTable'
    BY <1>40 DEF SigPause, TypeTable
  <2>2. TypePc'
    BY <1>40, GotoType, ReturnType
    DEF SigPause, TypePc, ProcLabels, Interruptible, SchedCalls
  <2>3. TypeRest'
    BY <1>40 DEF SigPause, TypeRest
  <2> QED
    BY <2>1, <2>2, <2>3 DEF TypeOK
<1>41. ASSUME NEW p \in Proc, PauseChan(p)
       PROVE  TypeOK'
  <2>1. TypeTable'
    BY <1>41 DEF PauseChan, TypeTable, TypeRest, States
  <2>2. TypePc'
    BY <1>41, GotoType
    DEF PauseChan, TypePc, ProcLabels, Interruptible, SchedCalls
  <2>3. TypeRest'
    BY <1>41 DEF PauseChan, TypeRest
  <2> QED
    BY <2>1, <2>2, <2>3 DEF TypeOK
<1>42. ASSUME NEW p \in Proc, PauseCas(p)
       PROVE  TypeOK'
  <2>1. TypeTable'
    BY <1>42, CasType DEF PauseCas, TypeTable, TypeRest, States
  <2>2. TypePc'
    BY <1>42, GotoType
    DEF PauseCas, TypePc, ProcLabels, Interruptible, SchedCalls
  <2>3. TypeRest'
    BY <1>42 DEF PauseCas, TypeRest
  <2> QED
    BY <2>1, <2>2, <2>3 DEF TypeOK
<1>43. ASSUME NEW p \in Proc, PauseTest(p)
       PROVE  TypeOK'
  <2>1. TypeTable'
    BY <1>43 DEF PauseTest, TypeTable
  <2>2. TypePc'
    BY <1>43, GotoType
    DEF PauseTest, TypePc, ProcLabels, Interruptible, SchedCalls
  <2>3. TypeRest'
    BY <1>43 DEF PauseTest, TypeRest
  <2> QED
    BY <2>1, <2>2, <2>3 DEF TypeOK
<1>44. ASSUME NEW p \in Proc, PauseUndo1(p)
       PROVE  TypeOK'
  <2>1. TypeTable'
    BY <1>44, CasType DEF PauseUndo1, TypeTable, TypeRest, States
  <2>2. TypePc'
    BY <1>44, GotoType
    DEF PauseUndo1, TypePc, ProcLabels, Interruptible, SchedCalls
  <2>3. TypeRest'
    BY <1>44 DEF PauseUndo1, TypeRest
  <2> QED
    BY <2>1, <2>2, <2>3 DEF TypeOK
<1>45. ASSUME NEW p \in Proc, PauseUndo2(p)
       PROVE  TypeOK'
  <2>1. TypeTable'
    BY <1>45, CasType DEF PauseUndo2, TypeTable, TypeRest, States
  <2>2. TypePc'
    BY <1>45, GotoType, ReturnType
    DEF PauseUndo2, TypePc, ProcLabels, Interruptible, SchedCalls
  <2>3. TypeRest'
    BY <1>45 DEF PauseUndo2, TypeRest
  <2> QED
    BY <2>1, <2>2, <2>3 DEF TypeOK
<1>46. ASSUME NEW c \in Cpu, NEW p \in Proc, Pick(c, p)
       PROVE  TypeOK'
  <2>1. TypeTable'
    BY <1>46 DEF Pick, TypeTable, TypeRest, States, Goto
  <2>2. TypePc'
    BY <1>46, GotoType, GotoCpuType
    DEF Pick, TypePc, ProcLabels, CpuLabels, Interruptible, Goto
  <2>3. TypeRest'
    BY <1>46 DEF Pick, TypeRest
  <2> QED
    BY <2>1, <2>2, <2>3 DEF TypeOK
<1>47. ASSUME NEW c \in Cpu, NEW p \in Proc, Sched(c, p)
       PROVE  TypeOK'
  <2>1. TypeTable'
    BY <1>47 DEF Sched, TypeTable
  <2>2. TypePc'
    <3>1. CASE Goto(p, "panic")
      BY <3>1, <1>47, GotoType DEF Sched, ProcLabels
    <3>2. CASE pc' = [pc EXCEPT ![p] = AfterSched(@), ![c] = "recas1"]
      <4>1. AfterSched(pc[p]) \in ProcLabels
        BY <1>47 DEF Sched, AfterSched, SchedCalls, ProcLabels, Interruptible
      <4>2. sp' = sp /\ sp[c] \in Proc
        BY <1>47 DEF Sched, OnStack
      <4>3. "recas1" \in CpuLabels
        BY DEF CpuLabels
      <4> QED
        BY <3>2, <4>1, <4>2, <4>3 DEF TypePc
    <3> QED
      BY <3>1, <3>2, <1>47 DEF Sched
  <2>3. TypeRest'
    BY <1>47 DEF Sched, TypeRest
  <2> QED
    BY <2>1, <2>2, <2>3 DEF TypeOK
<1>48. ASSUME NEW c \in Cpu, NEW p \in Proc, Timer(c, p)
       PROVE  TypeOK'
  <2>1. TypeTable'
    BY <1>48 DEF Timer, TypeTable
  <2>2. TypePc'
    BY <1>48, GotoType, GotoCpuType
    DEF Timer, TypePc, ProcLabels, CpuLabels, Interruptible
  <2>3. TypeRest'
    BY <1>48 DEF Timer, TypeRest, Interruptible
  <2> QED
    BY <2>1, <2>2, <2>3 DEF TypeOK
<1>49. ASSUME NEW c \in Cpu, IdleTimer(c)
       PROVE  TypeOK'
  <2>1. TypeTable'
    BY <1>49 DEF IdleTimer, TypeTable
  <2>2. TypePc'
    BY <1>49, GotoCpuType
    DEF IdleTimer, TypePc, CpuLabels, At
  <2>3. TypeRest'
    BY <1>49 DEF IdleTimer, TypeRest
  <2> QED
    BY <2>1, <2>2, <2>3 DEF TypeOK
<1>50. ASSUME NEW c \in Cpu, RecasRunnable(c)
       PROVE  TypeOK'
  <2>1. TypeTable'
    BY <1>50, CasType DEF RecasRunnable, Recas, TypeTable, TypeRest, States, At, TypePc
  <2>2. TypePc'
    BY <1>50, GotoCpuType
    DEF RecasRunnable, Recas, TypePc, CpuLabels, At
  <2>3. TypeRest'
    BY <1>50 DEF RecasRunnable, Recas, TypeRest
  <2> QED
    BY <2>1, <2>2, <2>3 DEF TypeOK
<1>51. ASSUME NEW c \in Cpu, RecasSleeping(c)
       PROVE  TypeOK'
  <2>1. TypeTable'
    BY <1>51, CasType DEF RecasSleeping, Recas, TypeTable, TypeRest, States, At, TypePc
  <2>2. TypePc'
    BY <1>51, GotoCpuType
    DEF RecasSleeping, Recas, TypePc, CpuLabels, At
  <2>3. TypeRest'
    BY <1>51 DEF RecasSleeping, Recas, TypeRest
  <2> QED
    BY <2>1, <2>2, <2>3 DEF TypeOK
<1>52. ASSUME NEW c \in Cpu, RecasZombie(c)
       PROVE  TypeOK'
  <2>1. TypeTable'
    BY <1>52, CasType DEF RecasZombie, Recas, TypeTable, TypeRest, States, At, TypePc
  <2>2. TypePc'
    BY <1>52, GotoCpuType
    DEF RecasZombie, Recas, TypePc, CpuLabels, At
  <2>3. TypeRest'
    BY <1>52 DEF RecasZombie, Recas, TypeRest
  <2> QED
    BY <2>1, <2>2, <2>3 DEF TypeOK
<1>53. ASSUME NEW c \in Cpu, ZombieTest(c)
       PROVE  TypeOK'
  <2>1. TypeTable'
    BY <1>53 DEF ZombieTest, TypeTable
  <2>2. TypePc'
    BY <1>53, GotoCpuType
    DEF ZombieTest, TypePc, CpuLabels, At, Goto
  <2>3. TypeRest'
    BY <1>53 DEF ZombieTest, TypeRest
  <2> QED
    BY <2>1, <2>2, <2>3 DEF TypeOK
<1>54. ASSUME NEW c \in Cpu, FreeprocTest(c)
       PROVE  TypeOK'
  <2>1. TypeTable'
    BY <1>54 DEF FreeprocTest, TypeTable
  <2>2. TypePc'
    BY <1>54, GotoCpuType
    DEF FreeprocTest, TypePc, CpuLabels, At
  <2>3. TypeRest'
    BY <1>54 DEF FreeprocTest, TypeRest
  <2> QED
    BY <2>1, <2>2, <2>3 DEF TypeOK
<1>55. ASSUME NEW c \in Cpu, FreeprocMemory(c)
       PROVE  TypeOK'
  <2>1. TypeTable'
    BY <1>55 DEF FreeprocMemory, TypeTable, TypeRest, States, At, TypePc
  <2>2. TypePc'
    BY <1>55, GotoCpuType
    DEF FreeprocMemory, TypePc, CpuLabels, At
  <2>3. TypeRest'
    BY <1>55 DEF FreeprocMemory, TypeRest
  <2> QED
    BY <2>1, <2>2, <2>3 DEF TypeOK
<1>56. ASSUME NEW c \in Cpu, FreeprocFields(c)
       PROVE  TypeOK'
  <2>1. TypeTable'
    BY <1>56 DEF FreeprocFields, TypeTable, TypeRest, States, At, Goto, TypePc
  <2>2. TypePc'
    BY <1>56, GotoCpuType
    DEF FreeprocFields, TypePc, CpuLabels, At, Goto
  <2>3. TypeRest'
    BY <1>56 DEF FreeprocFields, TypeRest
  <2> QED
    BY <2>1, <2>2, <2>3 DEF TypeOK
<1>57. CASE UNCHANGED vars
  BY <1>57 DEF vars, TypeOK, TypeTable, TypePc, TypeRest
<1> QED
  BY <1>1, <1>2, <1>3, <1>4, <1>5, <1>6, <1>7, <1>8, <1>9, <1>10, <1>11,
     <1>12, <1>13, <1>14, <1>15, <1>16, <1>17, <1>18, <1>19, <1>20, <1>21,
     <1>22, <1>23, <1>24, <1>25, <1>26, <1>27, <1>28, <1>29, <1>30, <1>31,
     <1>32, <1>33, <1>34, <1>35, <1>36, <1>37, <1>38, <1>39, <1>40, <1>41,
     <1>42, <1>43, <1>44, <1>45, <1>46, <1>47, <1>48, <1>49, <1>50, <1>51,
     <1>52, <1>53, <1>54, <1>55, <1>56, <1>57 DEF Next, Wakeup1, Process,
     Scheduler

\* Every variable keeps its type, for every table size and number of CPUs.
THEOREM TypeCorrect == Spec => []TypeOK
<1> QED
  BY TypeInit, TypeNext, PTL DEF Spec

=============================================================================
