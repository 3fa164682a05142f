---------------------------- MODULE KernelProofs ----------------------------
(***************************************************************************)
(* Proofs about the kernel for every number of programs N and every        *)
(* workload the assumptions of Process allow.                              *)
(***************************************************************************)
EXTENDS KernelProperties, ReadyQueueProofs, TLAPS

-----------------------------------------------------------------------------
\* What the processes are, and that no process is the null pointer.
LEMMA ProcsFacts ==
    /\ Procs \subseteq Nat
    /\ Idle \in Procs
    /\ Users \subseteq Procs
    /\ NoProc \notin Procs
BY NAssumption DEF Procs, Users, Idle, NoProc

LEMMA DurationsAreNumbers == Durations \subseteq Nat
BY OperandAssumption

\* Erasing an element of a wait queue.
LEMMA WithoutType ==
    ASSUME NEW S, NEW q \in Seq(S), NEW i \in 1..Len(q)
    PROVE  Without(q, i) \in Seq(S)
<1>1. \A j \in 1..(Len(q) - 1) : (IF j < i THEN q[j] ELSE q[j + 1]) \in S
  OBVIOUS
<1>2. Len(q) - 1 \in Nat
  OBVIOUS
<1> QED
  BY <1>1, <1>2 DEF Without

-----------------------------------------------------------------------------
\* The instructions and what they keep well typed.
LEMMA NextCycleType ==
    ASSUME TypeOK, NEW p \in Procs
    PROVE  NextCycle(p) \in Nat
BY DEF TypeOK, NextCycle

LEMMA FetchesType ==
    ASSUME TypeOK, NEW p \in Procs, Fetches(p)
    PROVE  clockCycles' \in [Procs -> Nat]
BY NextCycleType DEF TypeOK, Fetches

LEMMA CompletesType ==
    ASSUME TypeOK, NEW p \in Procs, NEW raised \in SUBSET CpuFlags, Completes(p, raised)
    PROVE  /\ redo' \in [Procs -> [op : OpcodeKinds \cup {"none"}, arg : Nat]]
           /\ flags' \subseteq CpuFlags
           /\ pc' \in ProgramCounters
BY DEF TypeOK, Completes, NoInstr, CpuFlags, ProgramCounters

LEMMA ReturnsType ==
    ASSUME TypeOK, NEW p \in Procs, NEW op \in OpcodeKinds, NEW arg \in Nat,
           NEW raised \in SUBSET CpuFlags, Returns(p, op, arg, raised)
    PROVE  /\ redo' \in [Procs -> [op : OpcodeKinds \cup {"none"}, arg : Nat]]
           /\ flags' \subseteq CpuFlags
           /\ pc' \in ProgramCounters
BY DEF TypeOK, Returns, Instr, CpuFlags, ProgramCounters

LEMMA ComputesType ==
    ASSUME TypeOK, NEW p \in Procs, Computes(p)
    PROVE  TypeOK'
<1> USE OperandAssumption, FetchesType
<1>1. CASE Step(p)
  BY <1>1, CompletesType DEF TypeOK, Step, Executes, unchangedByCpu, lockVars, eventVars
<1>2. CASE Fault(p)
  BY <1>2, ReturnsType DEF TypeOK, Fault, unchangedByCpu, lockVars, eventVars, OpcodeKinds, CpuFlags
<1>3. CASE MemoryBlock(p)
  BY <1>3 DEF TypeOK, MemoryBlock, unchangedByCpu, lockVars, eventVars, CpuFlags, ProgramCounters
<1>4. CASE MemoryFatal(p)
  BY <1>4 DEF TypeOK, MemoryFatal, pcbVars, lockVars, eventVars, ProgramCounters
<1>5. ASSUME NEW v \in Targets, WritePidReg(p, v)
      PROVE  TypeOK'
  BY <1>5, CompletesType DEF TypeOK, WritePidReg, Executes, unchangedByCpu, lockVars, eventVars
<1> QED
  BY <1>1, <1>2, <1>3, <1>4, <1>5 DEF Computes

LEMMA SchedulesType ==
    ASSUME TypeOK, NEW p \in Procs, Schedules(p)
    PROVE  TypeOK'
<1> USE FetchesType
<1>1. ASSUME NEW d \in Durations, Sleep(p, d)
      PROVE  TypeOK'
  <2>1. d \in Nat
    BY DurationsAreNumbers
  <2> QED
    BY <1>1, <2>1 DEF TypeOK, Sleep, Executes, unchangedByCpu, lockVars, eventVars, NoInstr,
                      CpuFlags, ProgramCounters
<1>2. ASSUME NEW v \in PrioArgs, SetPriority(p, v)
      PROVE  TypeOK'
  <2>1. priority' \in [Procs -> Priorities]
    BY <1>2, OperandAssumption DEF TypeOK, SetPriority, ValidPriority, Priorities
  <2> QED
    BY <1>2, <2>1, CompletesType, OperandAssumption
    DEF TypeOK, SetPriority, Executes, unchangedByCpu, lockVars, eventVars
<1> QED
  BY <1>1, <1>2 DEF Schedules

\* What a released lock leaves of the variables it may touch.
LEMMA HandOverType ==
    ASSUME TypeOK, NEW l \in LockIds, HandOver(l)
    PROVE  /\ locks' \in [LockIds -> Procs \cup {NoProc}]
           /\ lockWaitQueues' \in [LockIds -> Seq(Procs)]
           /\ state' \in [Procs -> States]
           /\ readyQueue' \in Seq(Procs)
<1> DEFINE queue == lockWaitQueues[l]
<1>1. queue \in Seq(Procs)
  BY DEF TypeOK
<1>2. CASE queue = <<>> /\ locks' = [locks EXCEPT ![l] = NoProc]
           /\ UNCHANGED <<lockWaitQueues, state, readyQueue>>
  BY <1>2 DEF TypeOK
<1>3. ASSUME NEW i \in 1..Len(queue),
             locks' = [locks EXCEPT ![l] = queue[i]],
             lockWaitQueues' = [lockWaitQueues EXCEPT ![l] = Without(queue, i)],
             state' = [state EXCEPT ![queue[i]] = "Ready"],
             readyQueue' = Push(readyQueue, queue[i], priority)
      PROVE  /\ locks' \in [LockIds -> Procs \cup {NoProc}]
             /\ lockWaitQueues' \in [LockIds -> Seq(Procs)]
             /\ state' \in [Procs -> States]
             /\ readyQueue' \in Seq(Procs)
  <2>1. queue[i] \in Procs
    BY <1>1
  <2>2. Without(queue, i) \in Seq(Procs)
    BY <1>1, WithoutType
  <2>3. Push(readyQueue, queue[i], priority) \in Seq(Procs)
    BY <2>1, PushType DEF TypeOK
  <2> QED
    BY <1>3, <2>1, <2>2, <2>3 DEF TypeOK, States
<1> QED
  BY <1>2, <1>3 DEF HandOver

LEMMA SynchronizesType ==
    ASSUME TypeOK, NEW p \in Procs, Synchronizes(p)
    PROVE  TypeOK'
<1> USE OperandAssumption, FetchesType
<1>1. ASSUME NEW l \in LockIds, AcquireLock(p, l)
      PROVE  TypeOK'
  BY <1>1, CompletesType
  DEF TypeOK, AcquireLock, Executes, unchangedByCpu, eventVars
<1>2. ASSUME NEW l \in LockIds, WaitForLock(p, l)
      PROVE  TypeOK'
  <2>1. locks[l] \in Procs
    BY <1>2 DEF TypeOK, WaitForLock, Obtains
  <2>2. priority' \in [Procs -> Priorities]
    BY <1>2, <2>1 DEF TypeOK, WaitForLock, Boosted
  <2>3. Append(lockWaitQueues[l], p) \in Seq(Procs)
    BY DEF TypeOK
  <2>4. flags \cup {"lock"} \in SUBSET CpuFlags
    BY DEF TypeOK, CpuFlags
  <2>5. "acquire" \in OpcodeKinds /\ l \in Nat
    BY DEF OpcodeKinds
  <2> QED
    BY <1>2, <2>2, <2>3, <2>4, <2>5, ReturnsType
    DEF TypeOK, WaitForLock, Executes, unchangedByCpu, eventVars, States
<1>3. ASSUME NEW l \in LockIds, ReleaseLock(p, l)
      PROVE  TypeOK'
  <2>1. /\ locks' \in [LockIds -> Procs \cup {NoProc}]
        /\ lockWaitQueues' \in [LockIds -> Seq(Procs)]
        /\ state' \in [Procs -> States]
        /\ readyQueue' \in Seq(Procs)
    BY <1>3, HandOverType DEF TypeOK, ReleaseLock
  <2> QED
    BY <1>3, <2>1, CompletesType
    DEF TypeOK, ReleaseLock, Executes, unchangedByCpu, eventVars
<1>4. ASSUME NEW e \in EventIds, SignalEvent(p, e)
      PROVE  TypeOK'
  <2>1. state' \in [Procs -> States]
    BY <1>4 DEF TypeOK, SignalEvent, States
  <2>2. eventWaitQueues' \in [EventIds -> Seq(Procs)]
    BY <1>4 DEF TypeOK, SignalEvent
  <2>3. toReady' \in Seq(Procs) /\ eventStates' \subseteq EventIds
    BY <1>4 DEF TypeOK, SignalEvent
  <2> QED
    BY <1>4, <2>1, <2>2, <2>3, CompletesType
    DEF TypeOK, SignalEvent, Executes, unchangedByCpu, lockVars
<1>5. ASSUME NEW e \in EventIds, WaitEvent(p, e)
      PROVE  TypeOK'
  <2>1. CASE Signalled(e)
    BY <1>5, <2>1, CompletesType
    DEF TypeOK, WaitEvent, Executes, unchangedByCpu, lockVars
  <2>2. CASE ~Signalled(e)
    <3>1. flags \cup {"event"} \in SUBSET CpuFlags
      BY DEF TypeOK, CpuFlags
    <3>2. "wait" \in OpcodeKinds /\ e \in Nat
      BY DEF OpcodeKinds
    <3>3. state' \in [Procs -> States]
      BY <1>5, <2>2 DEF TypeOK, WaitEvent, States
    <3>4. Append(eventWaitQueues[e], p) \in Seq(Procs)
      BY DEF TypeOK
    <3>5. eventWaitQueues' \in [EventIds -> Seq(Procs)]
      BY <1>5, <2>2, <3>4 DEF TypeOK, WaitEvent
    <3>6. /\ redo' \in [Procs -> [op : OpcodeKinds \cup {"none"}, arg : Nat]]
          /\ flags' \subseteq CpuFlags
          /\ pc' \in ProgramCounters
      BY <1>5, <2>2, <3>1, <3>2, ReturnsType DEF WaitEvent
    <3> QED
      BY <1>5, <3>3, <3>5, <3>6
      DEF TypeOK, WaitEvent, Executes, unchangedByCpu, lockVars
  <2> QED
    BY <2>1, <2>2
<1> QED
  BY <1>1, <1>2, <1>3, <1>4, <1>5 DEF Synchronizes

\* The two outcomes of unblockProcesses.
LEMMA UnblocksType ==
    ASSUME TypeOK, NEW plist \in SUBSET Procs, NEW st \in [Procs -> States],
           Unblocks(plist, st) \/ UnblockThrows(plist, st)
    PROVE  /\ state' \in [Procs -> States]
           /\ isBlocked' \in [Procs -> BOOLEAN]
           /\ isLoaded' \in [Procs -> BOOLEAN]
           /\ readyQueue' \in Seq(Procs)
<1>1. CASE UNCHANGED <<isBlocked, isLoaded, readyQueue>> /\ state' = st
  BY <1>1 DEF TypeOK
<1>2. ASSUME NEW p \in Procs,
             state' = [st EXCEPT ![p] = "Ready"],
             isBlocked' = [isBlocked EXCEPT ![p] = FALSE],
             isLoaded' = [isLoaded EXCEPT ![p] = TRUE],
             readyQueue' = Push(readyQueue, p, priority)
      PROVE  /\ state' \in [Procs -> States]
             /\ isBlocked' \in [Procs -> BOOLEAN]
             /\ isLoaded' \in [Procs -> BOOLEAN]
             /\ readyQueue' \in Seq(Procs)
  BY <1>2, PushType DEF TypeOK, States
<1> QED
  BY <1>1, <1>2 DEF Unblocks, UnblockThrows

LEMMA KilledType ==
    ASSUME TypeOK, NEW t \in Procs
    PROVE  Killed(t) \in [Procs -> States]
BY DEF TypeOK, Killed, States

LEMMA TerminatesType ==
    ASSUME TypeOK, NEW p \in Procs, Terminates(p)
    PROVE  TypeOK'
<1> USE OperandAssumption, FetchesType
<1>1. CASE Exit(p)
  <2>1. redo' \in [Procs -> [op : OpcodeKinds \cup {"none"}, arg : Nat]]
    BY <1>1 DEF TypeOK, Exit, Instr, OpcodeKinds
  <2>2. releasing' \subseteq LockIds /\ pc' \in ProgramCounters
    BY <1>1 DEF Exit, ProgramCounters
  <2> QED
    BY <1>1, <2>1, <2>2 DEF TypeOK, Exit, Executes, unchangedByCpu, eventVars
<1>2. ASSUME NEW t \in Targets, NobodyToKill(p, t)
      PROVE  TypeOK'
  BY <1>2, CompletesType
  DEF TypeOK, NobodyToKill, Executes, unchangedByCpu, lockVars, eventVars
<1>3. ASSUME NEW t \in Targets, TerminateProcess(p, t)
      PROVE  TypeOK'
  <2>1. /\ state' \in [Procs -> States]
        /\ isBlocked' \in [Procs -> BOOLEAN]
        /\ isLoaded' \in [Procs -> BOOLEAN]
        /\ readyQueue' \in Seq(Procs)
    BY <1>3, UnblocksType, KilledType DEF TypeOK, TerminateProcess
  <2>2. flags \ {"terminated"} \in SUBSET CpuFlags
    BY DEF TypeOK
  <2> QED
    BY <1>3, <2>1, <2>2, CompletesType
    DEF TypeOK, TerminateProcess, Kills, Executes, lockVars, eventVars
<1>4. ASSUME NEW t \in Targets, TerminateProcessThrows(p, t)
      PROVE  TypeOK'
  <2>1. /\ state' \in [Procs -> States]
        /\ isBlocked' \in [Procs -> BOOLEAN]
        /\ isLoaded' \in [Procs -> BOOLEAN]
        /\ readyQueue' \in Seq(Procs)
    BY <1>4, UnblocksType, KilledType DEF TypeOK, TerminateProcessThrows
  <2>2. /\ redo' \in [Procs -> [op : OpcodeKinds \cup {"none"}, arg : Nat]]
        /\ flags' \subseteq CpuFlags
        /\ pc' \in ProgramCounters
    <3>1. "terminate" \in OpcodeKinds /\ t \in Nat
      BY ProcsFacts DEF OpcodeKinds
    <3>2. /\ (flags \ {"terminated"}) \cup {"blocked"} \in SUBSET CpuFlags
          /\ flags \cup {"terminated"} \in SUBSET CpuFlags
      BY DEF TypeOK, CpuFlags
    <3> QED
      BY <1>4, <3>1, <3>2, ReturnsType DEF TypeOK, TerminateProcessThrows, ProgramCounters
  <2> QED
    BY <1>4, <2>1, <2>2
    DEF TypeOK, TerminateProcessThrows, Kills, Executes, lockVars, eventVars
<1> QED
  BY <1>1, <1>2, <1>3, <1>4 DEF Terminates

LEMMA CycleType ==
    ASSUME TypeOK, Cycle
    PROVE  TypeOK'
<1> USE DEF pcbVars, lockVars, eventVars, unchangedByCpu
<1>1. ASSUME NEW p \in Procs, Computes(p) \/ Schedules(p) \/ Synchronizes(p) \/ Terminates(p)
      PROVE  TypeOK'
  BY <1>1, ComputesType, SchedulesType, SynchronizesType, TerminatesType
<1>2. CASE NoRunningProcess
  BY <1>2 DEF TypeOK, NoRunningProcess, CpuFlags, ProgramCounters
<1>3. CASE ReleaseHeldLock
  <2>1. PICK l \in LockIds : HandOver(l) /\ releasing' = releasing \ {l}
    BY <1>3 DEF ReleaseHeldLock, TypeOK
  <2> QED
    BY <1>3, <2>1, HandOverType DEF TypeOK, ReleaseHeldLock
<1>4. CASE FinishExit
  BY <1>4 DEF TypeOK, FinishExit, CpuFlags, ProgramCounters
<1>5. CASE AddProcess
  <2>1. Head(toReady) \in Procs /\ Tail(toReady) \in Seq(Procs)
    BY <1>5 DEF TypeOK, AddProcess
  <2> QED
    BY <1>5, <2>1, PushType DEF TypeOK, AddProcess
<1>6. CASE Callback
  <2>1. sleepCounter' \in [Procs -> Nat]
    BY <1>6 DEF TypeOK, Callback, Ticking
  <2> QED
    BY <1>6, <2>1 DEF TypeOK, Callback, Ticking, ProgramCounters
<1>7. CASE WakeUp
  <2>1. PICK p \in waking :
           /\ waking' = waking \ {p}
           /\ state' = [state EXCEPT ![p] = "Ready"]
           /\ readyQueue' = Push(readyQueue, p, priority)
           /\ flags' = IF Preempts(p) THEN flags \cup {"preempt"} ELSE flags
    BY <1>7 DEF WakeUp
  <2>2. p \in Procs /\ readyQueue \in Seq(Procs)
    BY DEF TypeOK
  <2>3. readyQueue' \in Seq(Procs)
    BY <2>1, <2>2, PushType
  <2>4. state' \in [Procs -> States] /\ waking' \subseteq Procs
    BY <2>1 DEF TypeOK, States
  <2>5. flags' \subseteq CpuFlags
    BY <2>1 DEF TypeOK, CpuFlags
  <2> QED
    BY <1>7, <2>3, <2>4, <2>5 DEF TypeOK, WakeUp
<1>8. CASE NextCycleOfRun
  BY <1>8 DEF TypeOK, NextCycleOfRun, ProgramCounters
<1> QED
  BY <1>1, <1>2, <1>3, <1>4, <1>5, <1>6, <1>7, <1>8 DEF Cycle

\* start() around the cycles.
LEMMA DispatchesType ==
    ASSUME TypeOK, NEW p \in Procs, Dispatches(p)
    PROVE  readyQueue' \in Seq(Procs) /\ runningProcess' \in Procs
BY PopType DEF TypeOK, Dispatches

LEMMA RunsIdleType ==
    ASSUME TypeOK, RunsIdle
    PROVE  /\ idleQuantum' \in Nat
           /\ pidReg' \in Procs
           /\ flags' \subseteq CpuFlags
           /\ pc' \in ProgramCounters
<1>1. SleepCounters \subseteq Nat
  BY DEF TypeOK, SleepCounters
<1>2. CASE AllBlocked /\ SetsIdleQuantum /\ EntersRun(Idle)
  BY <1>1, <1>2, ProcsFacts DEF TypeOK, SetsIdleQuantum, EntersRun, ProgramCounters
<1>3. CASE pc' = "halted" /\ UNCHANGED <<idleQuantum, flags, pidReg>>
  BY <1>3 DEF TypeOK, ProgramCounters
<1> QED
  BY <1>2, <1>3 DEF RunsIdle

LEMMA DispatchType ==
    ASSUME TypeOK, Dispatch
    PROVE  TypeOK'
<1> USE DEF pcbVars, lockVars, eventVars
<1>1. CASE Halt
  BY <1>1 DEF TypeOK, Halt, ProgramCounters
<1>2. CASE DropTerminated
  BY <1>2, PopType DEF TypeOK, DropTerminated
<1>3. CASE DispatchIdle
  <2>1. readyQueue' \in Seq(Procs) /\ runningProcess' \in Procs
    BY <1>3, DispatchesType, ProcsFacts DEF DispatchIdle
  <2>2. state' \in [Procs -> States]
    BY <1>3 DEF TypeOK, DispatchIdle, States
  <2> QED
    BY <1>3, <2>1, <2>2, RunsIdleType DEF TypeOK, DispatchIdle
<1>4. CASE DispatchNobody
  <2>1. /\ idleQuantum' \in Nat
        /\ pidReg' \in Procs
        /\ flags' \subseteq CpuFlags
        /\ pc' \in ProgramCounters
    BY <1>4, RunsIdleType DEF TypeOK, DispatchNobody, ProgramCounters
  <2> QED
    BY <1>4, <2>1 DEF TypeOK, DispatchNobody
<1>5. ASSUME NEW p \in Users, DispatchUser(p) \/ LoadBlocks(p) \/ LoadFatal(p)
      PROVE  TypeOK'
  <2>1. p \in Procs
    BY ProcsFacts
  <2>2. readyQueue' \in Seq(Procs) /\ runningProcess' \in Procs
    BY <1>5, <2>1, DispatchesType DEF DispatchUser, LoadBlocks, LoadFatal
  <2>3. state' \in [Procs -> States]
    BY <1>5 DEF TypeOK, DispatchUser, LoadBlocks, LoadFatal, States
  <2>4. CASE DispatchUser(p)
    BY <2>1, <2>2, <2>3, <2>4 DEF TypeOK, DispatchUser, EntersRun, ProgramCounters
  <2>5. CASE LoadBlocks(p)
    BY <2>2, <2>3, <2>5 DEF TypeOK, LoadBlocks
  <2>6. CASE LoadFatal(p)
    BY <2>2, <2>3, <2>6 DEF TypeOK, LoadFatal, ProgramCounters
  <2> QED
    BY <1>5, <2>4, <2>5, <2>6
<1> QED
  BY <1>1, <1>2, <1>3, <1>4, <1>5 DEF Dispatch

LEMMA CurrentType ==
    ASSUME TypeOK
    PROVE  Current \in Procs
BY ProcsFacts DEF TypeOK, Current

\* A process put back into the ready queue.
LEMMA RequeuesType ==
    ASSUME TypeOK, NEW p \in Procs, Requeues(p)
    PROVE  state' \in [Procs -> States] /\ readyQueue' \in Seq(Procs)
BY PushType DEF TypeOK, Requeues, States

LEMMA HandleFlagType ==
    ASSUME TypeOK, HandleFlag
    PROVE  TypeOK'
<1> USE CurrentType DEF pcbVars, lockVars, eventVars
<1>1. CASE HandlePreemption
  BY <1>1, RequeuesType DEF TypeOK, HandlePreemption, ProgramCounters
<1>2. CASE HandleSleep
  BY <1>2 DEF TypeOK, HandleSleep, States, ProgramCounters
<1>3. CASE HandleTerminated
  <2>1. /\ processList \ {Current} \in SUBSET Procs
        /\ Killed(Current) \in [Procs -> States]
    BY KilledType DEF TypeOK
  <2>2. /\ state' \in [Procs -> States]
        /\ isBlocked' \in [Procs -> BOOLEAN]
        /\ isLoaded' \in [Procs -> BOOLEAN]
        /\ readyQueue' \in Seq(Procs)
    BY <1>3, <2>1, UnblocksType DEF HandleTerminated
  <2>3. pc' \in ProgramCounters
    BY <1>3 DEF HandleTerminated, ProgramCounters
  <2> QED
    BY <1>3, <2>2, <2>3 DEF TypeOK, HandleTerminated
<1>4. CASE HandleLockWait
  BY <1>4 DEF TypeOK, HandleLockWait, HandleWaiting, States, ProgramCounters
<1>5. CASE HandleEventWait
  BY <1>5 DEF TypeOK, HandleEventWait, HandleWaiting, States, ProgramCounters
<1>6. CASE HandleExpired
  BY <1>6, RequeuesType DEF TypeOK, HandleExpired, ProgramCounters
<1>7. CASE HandleBlocked
  BY <1>7 DEF TypeOK, HandleBlocked, HandleWaiting, States, ProgramCounters
<1> QED
  BY <1>1, <1>2, <1>3, <1>4, <1>5, <1>6, <1>7 DEF HandleFlag

LEMMA InitType ==
    ASSUME Init
    PROVE  TypeOK
<1>1. \A p \in Procs : InitialPriority(p) \in Priorities
  BY NAssumption DEF Procs, Users, InitialPriority, Priorities
<1> QED
  BY <1>1, ProcsFacts
  DEF Init, TypeOK, States, ProgramCounters, NoInstr, CpuFlags

LEMMA NextType ==
    ASSUME TypeOK, [Next]_vars
    PROVE  TypeOK'
<1> USE DEF pcbVars, lockVars, eventVars
<1>1. ASSUME NEW p \in Users, LoadProcess(p)
      PROVE  TypeOK'
  BY <1>1, ProcsFacts, PushType DEF TypeOK, LoadProcess, ProgramCounters
<1>2. CASE UNCHANGED vars
  BY <1>2 DEF TypeOK, vars
<1> QED
  BY <1>1, <1>2, DispatchType, CycleType, HandleFlagType DEF Next, Stopped

(***************************************************************************)
(* Every variable of the kernel keeps its type, whatever the programs do:  *)
(* priorities stay within 1..32 (SetPriority's bounds and the boost of a   *)
(* lock owner included), every queue holds processes only, and no handler  *)
(* leaves the state machine of start() and run().                          *)
(***************************************************************************)
THEOREM TypeCorrect == Spec => []TypeOK
BY InitType, NextType, PTL DEF Spec

-----------------------------------------------------------------------------
(***************************************************************************)
(* Wake-ups.  Four kinds of step touch the lock table, two the events.     *)
(***************************************************************************)
LEMMA TableSteps ==
    ASSUME [Next]_vars
    PROVE  \/ UNCHANGED <<locks, lockWaitQueues>>
           \/ \E p \in Procs, l \in LockIds :
                 AcquireLock(p, l) \/ WaitForLock(p, l) \/ ReleaseLock(p, l)
           \/ ReleaseHeldLock
<1> USE DEF pcbVars, lockVars, eventVars, unchangedByCpu
<1>1. ASSUME NEW p \in Procs, Computes(p) \/ Schedules(p) \/ Terminates(p)
      PROVE  UNCHANGED <<locks, lockWaitQueues>>
  <2>1. CASE Computes(p)
    BY <2>1 DEF Computes, Step, Fault, MemoryBlock, MemoryFatal, WritePidReg
  <2>2. CASE Schedules(p)
    BY <2>2 DEF Schedules, Sleep, SetPriority
  <2>3. CASE Terminates(p)
    BY <2>3 DEF Terminates, Exit, NobodyToKill, TerminateProcess, TerminateProcessThrows
  <2> QED
    BY <1>1, <2>1, <2>2, <2>3
<1>2. ASSUME NEW p \in Procs, NEW e \in EventIds, SignalEvent(p, e) \/ WaitEvent(p, e)
      PROVE  UNCHANGED <<locks, lockWaitQueues>>
  BY <1>2 DEF SignalEvent, WaitEvent
<1>3. CASE NoRunningProcess \/ FinishExit \/ AddProcess \/ Callback \/ WakeUp \/ NextCycleOfRun
  BY <1>3 DEF NoRunningProcess, FinishExit, AddProcess, Callback, WakeUp, NextCycleOfRun
<1>4. CASE Dispatch
  BY <1>4 DEF Dispatch, Halt, DropTerminated, DispatchIdle, DispatchNobody,
              DispatchUser, LoadBlocks, LoadFatal
<1>5. CASE HandleFlag
  BY <1>5 DEF HandleFlag, HandlePreemption, HandleSleep, HandleTerminated, HandleLockWait,
              HandleEventWait, HandleExpired, HandleBlocked, HandleWaiting
<1>6. CASE (\E p \in Users : LoadProcess(p)) \/ Stopped \/ UNCHANGED vars
  BY <1>6 DEF LoadProcess, Stopped, vars
<1>7. CASE Cycle
  BY <1>7, <1>1, <1>2, <1>3 DEF Cycle, Synchronizes
<1> QED
  BY <1>4, <1>5, <1>6, <1>7 DEF Next

LEMMA EventSteps ==
    ASSUME [Next]_vars
    PROVE  \/ UNCHANGED <<eventStates, eventWaitQueues>>
           \/ \E p \in Procs, e \in EventIds : SignalEvent(p, e) \/ WaitEvent(p, e)
<1> USE DEF pcbVars, lockVars, eventVars, unchangedByCpu
<1>1. ASSUME NEW p \in Procs, Computes(p) \/ Schedules(p) \/ Terminates(p)
      PROVE  UNCHANGED <<eventStates, eventWaitQueues>>
  <2>1. CASE Computes(p)
    BY <2>1 DEF Computes, Step, Fault, MemoryBlock, MemoryFatal, WritePidReg
  <2>2. CASE Schedules(p)
    BY <2>2 DEF Schedules, Sleep, SetPriority
  <2>3. CASE Terminates(p)
    BY <2>3 DEF Terminates, Exit, NobodyToKill, TerminateProcess, TerminateProcessThrows
  <2> QED
    BY <1>1, <2>1, <2>2, <2>3
<1>2. ASSUME NEW p \in Procs, NEW l \in LockIds,
             AcquireLock(p, l) \/ WaitForLock(p, l) \/ ReleaseLock(p, l)
      PROVE  UNCHANGED <<eventStates, eventWaitQueues>>
  BY <1>2 DEF AcquireLock, WaitForLock, ReleaseLock
<1>3. CASE \/ NoRunningProcess \/ ReleaseHeldLock \/ FinishExit \/ AddProcess
           \/ Callback \/ WakeUp \/ NextCycleOfRun
  BY <1>3 DEF NoRunningProcess, ReleaseHeldLock, FinishExit, AddProcess, Callback,
              WakeUp, NextCycleOfRun
<1>4. CASE Dispatch
  BY <1>4 DEF Dispatch, Halt, DropTerminated, DispatchIdle, DispatchNobody,
              DispatchUser, LoadBlocks, LoadFatal
<1>5. CASE HandleFlag
  BY <1>5 DEF HandleFlag, HandlePreemption, HandleSleep, HandleTerminated, HandleLockWait,
              HandleEventWait, HandleExpired, HandleBlocked, HandleWaiting
<1>6. CASE (\E p \in Users : LoadProcess(p)) \/ Stopped \/ UNCHANGED vars
  BY <1>6 DEF LoadProcess, Stopped, vars
<1>7. CASE Cycle
  BY <1>7, <1>1, <1>2, <1>3 DEF Cycle, Synchronizes
<1> QED
  BY <1>4, <1>5, <1>6, <1>7 DEF Next

\* Whoever lets a lock go leaves it free only when nobody waits for it.
LEMMA HandOverFrees ==
    ASSUME TypeOK, FreeLockHasNoWaiters, NEW l \in LockIds, HandOver(l)
    PROVE  FreeLockHasNoWaiters'
<1> DEFINE queue == lockWaitQueues[l]
<1>1. queue \in Seq(Procs)
  BY DEF TypeOK
<1>2. CASE /\ queue = <<>>
           /\ locks' = [locks EXCEPT ![l] = NoProc]
           /\ UNCHANGED lockWaitQueues
  BY <1>2 DEF TypeOK, FreeLockHasNoWaiters
<1>3. ASSUME NEW i \in 1..Len(queue),
             locks' = [locks EXCEPT ![l] = queue[i]],
             lockWaitQueues' = [lockWaitQueues EXCEPT ![l] = Without(queue, i)]
      PROVE  FreeLockHasNoWaiters'
  <2>1. queue[i] # NoProc
    BY <1>1, ProcsFacts
  <2> QED
    BY <1>3, <2>1 DEF TypeOK, FreeLockHasNoWaiters
<1> QED
  BY <1>2, <1>3 DEF HandOver

(***************************************************************************)
(* No wake-up is lost on a lock: neither ReleaseLock nor the releases of   *)
(* Exit ever leave a free lock with a waiter, whatever the programs write  *)
(* to register 12 and however stale the CPU's flags are.                   *)
(***************************************************************************)
THEOREM NoLostLockWakeUp == Spec => []FreeLockHasNoWaiters
<1>1. Init => FreeLockHasNoWaiters
  BY DEF Init, FreeLockHasNoWaiters
<1>2. ASSUME TypeOK, FreeLockHasNoWaiters, [Next]_vars
      PROVE  FreeLockHasNoWaiters'
  <2>1. CASE UNCHANGED <<locks, lockWaitQueues>>
    BY <1>2, <2>1 DEF FreeLockHasNoWaiters
  <2>2. ASSUME NEW p \in Procs, NEW l \in LockIds, AcquireLock(p, l)
        PROVE  FreeLockHasNoWaiters'
    BY <1>2, <2>2, ProcsFacts DEF AcquireLock, TypeOK, FreeLockHasNoWaiters
  <2>3. ASSUME NEW p \in Procs, NEW l \in LockIds, WaitForLock(p, l)
        PROVE  FreeLockHasNoWaiters'
    BY <1>2, <2>3 DEF WaitForLock, Obtains, TypeOK, FreeLockHasNoWaiters
  <2>4. ASSUME NEW p \in Procs, NEW l \in LockIds, ReleaseLock(p, l)
        PROVE  FreeLockHasNoWaiters'
    <3>1. CASE Owns(p, l)
      BY <1>2, <2>4, <3>1, HandOverFrees DEF ReleaseLock
    <3>2. CASE ~Owns(p, l)
      BY <1>2, <2>4, <3>2 DEF ReleaseLock, FreeLockHasNoWaiters
    <3> QED
      BY <3>1, <3>2
  <2>5. CASE ReleaseHeldLock
    BY <1>2, <2>5, HandOverFrees DEF ReleaseHeldLock, TypeOK
  <2> QED
    BY <1>2, <2>1, <2>2, <2>3, <2>4, <2>5, TableSteps
<1> QED
  BY <1>1, <1>2, TypeCorrect, PTL DEF Spec

(***************************************************************************)
(* No wake-up is lost on an event: once it is signalled, nobody is in its  *)
(* queue or enters it.                                                     *)
(***************************************************************************)
THEOREM NoLostEventWakeUp == Spec => []SignalledEventHasNoWaiters
<1>1. Init => SignalledEventHasNoWaiters
  BY DEF Init, SignalledEventHasNoWaiters
<1>2. ASSUME TypeOK, SignalledEventHasNoWaiters, [Next]_vars
      PROVE  SignalledEventHasNoWaiters'
  <2>1. CASE UNCHANGED <<eventStates, eventWaitQueues>>
    BY <1>2, <2>1 DEF SignalledEventHasNoWaiters
  <2>2. ASSUME NEW p \in Procs, NEW e \in EventIds, SignalEvent(p, e)
        PROVE  SignalledEventHasNoWaiters'
    BY <1>2, <2>2 DEF SignalEvent, TypeOK, SignalledEventHasNoWaiters
  <2>3. ASSUME NEW p \in Procs, NEW e \in EventIds, WaitEvent(p, e)
        PROVE  SignalledEventHasNoWaiters'
    BY <1>2, <2>3 DEF WaitEvent, Signalled, TypeOK, SignalledEventHasNoWaiters
  <2> QED
    BY <1>2, <2>1, <2>2, <2>3, EventSteps
<1> QED
  BY <1>1, <1>2, TypeCorrect, PTL DEF Spec

-----------------------------------------------------------------------------
(***************************************************************************)
(* Ownership.  Exit finds the locks to release by register 12, so whose    *)
(* locks it releases rests on what the register holds from the dispatch    *)
(* to the last release.                                                    *)
(***************************************************************************)
LEMMA ComputesKeepsOwn ==
    ASSUME TypeOK, ExitReleasesItsOwn, "pidreg" \notin Opcodes,
           NEW p \in Procs, Computes(p) \/ Schedules(p)
    PROVE  ExitReleasesItsOwn'
<1> USE DEF pcbVars, lockVars, unchangedByCpu
<1>1. pc = "execute" /\ runningProcess = p /\ UNCHANGED runningProcess
  BY DEF Computes, Schedules, Step, Fault, MemoryBlock, MemoryFatal, WritePidReg, Sleep,
         SetPriority, Executes, Fetches
<1>2. UNCHANGED pidReg
  BY DEF Computes, Schedules, Step, Fault, MemoryBlock, MemoryFatal, WritePidReg, Sleep,
         SetPriority, Executes
<1>3. pc' \in {"callback", "crashed"}
  BY DEF Computes, Schedules, Step, Fault, MemoryBlock, MemoryFatal, WritePidReg, Sleep,
         SetPriority, Completes, Returns
<1> QED
  BY <1>1, <1>2, <1>3 DEF ExitReleasesItsOwn, InRun

LEMMA SynchronizesKeepsOwn ==
    ASSUME TypeOK, ExitReleasesItsOwn, NEW p \in Procs, Synchronizes(p)
    PROVE  ExitReleasesItsOwn'
<1> USE DEF lockVars, unchangedByCpu
<1>1. pc = "execute" /\ UNCHANGED <<runningProcess, pidReg>>
  BY DEF Synchronizes, AcquireLock, WaitForLock, ReleaseLock, SignalEvent, WaitEvent,
         Executes, Fetches
<1>2. pc' = "callback"
  BY DEF Synchronizes, AcquireLock, WaitForLock, ReleaseLock, SignalEvent, WaitEvent,
         Completes, Returns
<1> QED
  BY <1>1, <1>2 DEF ExitReleasesItsOwn, InRun

LEMMA TerminatesKeepsOwn ==
    ASSUME TypeOK, ExitReleasesItsOwn, NEW p \in Procs, Terminates(p)
    PROVE  ExitReleasesItsOwn'
<1> USE DEF lockVars, unchangedByCpu
<1>1. pc = "execute" /\ runningProcess = p /\ UNCHANGED <<runningProcess, pidReg, locks>>
  BY DEF Terminates, Exit, NobodyToKill, TerminateProcess, TerminateProcessThrows, Kills,
         Executes, Fetches
<1>2. CASE Exit(p)
  <2>1. releasing' = {l \in LockIds : locks[l] = pidReg}
    BY <1>2 DEF Exit
  <2>2. pidReg = p /\ p # NoProc
    BY <1>1, ProcsFacts DEF ExitReleasesItsOwn, InRun
  <2> QED
    BY <1>1, <2>1, <2>2 DEF ExitReleasesItsOwn, InRun
<1>3. CASE ~Exit(p)
  <2>1. pc' \in {"callback", "crashed"}
    BY <1>3 DEF Terminates, NobodyToKill, TerminateProcess, TerminateProcessThrows,
                Completes, Returns
  <2> QED
    BY <1>1, <2>1 DEF ExitReleasesItsOwn, InRun
<1> QED
  BY <1>2, <1>3

LEMMA CycleKeepsOwn ==
    ASSUME TypeOK, ExitReleasesItsOwn, "pidreg" \notin Opcodes, Cycle
    PROVE  ExitReleasesItsOwn'
<1> USE DEF pcbVars, lockVars, eventVars
<1>1. ASSUME NEW p \in Procs, Computes(p) \/ Schedules(p) \/ Synchronizes(p) \/ Terminates(p)
      PROVE  ExitReleasesItsOwn'
  BY <1>1, ComputesKeepsOwn, SynchronizesKeepsOwn, TerminatesKeepsOwn
<1>2. CASE NoRunningProcess
  BY <1>2 DEF NoRunningProcess, ExitReleasesItsOwn, InRun
<1>3. CASE ReleaseHeldLock
  <2>1. PICK l \in releasing : HandOver(l) /\ releasing' = releasing \ {l}
    BY <1>3 DEF ReleaseHeldLock
  <2>2. releasing \subseteq LockIds /\ locks \in [LockIds -> Procs \cup {NoProc}]
    BY DEF TypeOK
  <2>3. \A k \in LockIds \ {l} : locks'[k] = locks[k]
    BY <2>1, <2>2 DEF HandOver
  <2>4. pc = "release" /\ UNCHANGED <<pc, runningProcess, pidReg>>
    BY <1>3 DEF ReleaseHeldLock, unchangedByCpu
  <2>5. \A k \in releasing' : locks'[k] = runningProcess
    BY <2>1, <2>2, <2>3, <2>4 DEF ExitReleasesItsOwn
  <2> QED
    BY <2>4, <2>5 DEF ExitReleasesItsOwn, InRun
<1>4. CASE FinishExit
  BY <1>4 DEF FinishExit, ExitReleasesItsOwn, InRun
<1>5. CASE AddProcess
  BY <1>5 DEF AddProcess, ExitReleasesItsOwn, InRun
<1>6. CASE Callback
  BY <1>6 DEF Callback, ExitReleasesItsOwn, InRun
<1>7. CASE WakeUp
  BY <1>7 DEF WakeUp, ExitReleasesItsOwn, InRun
<1>8. CASE NextCycleOfRun
  BY <1>8 DEF NextCycleOfRun, ExitReleasesItsOwn, InRun
<1> QED
  BY <1>1, <1>2, <1>3, <1>4, <1>5, <1>6, <1>7, <1>8 DEF Cycle

LEMMA DispatchSetsOwn ==
    ASSUME Dispatch
    PROVE  ExitReleasesItsOwn'
<1>1. CASE Halt \/ DropTerminated
  BY <1>1 DEF Halt, DropTerminated, ExitReleasesItsOwn, InRun
<1>2. CASE DispatchIdle
  BY <1>2 DEF DispatchIdle, Dispatches, RunsIdle, EntersRun, ExitReleasesItsOwn, InRun
<1>3. CASE DispatchNobody
  BY <1>3 DEF DispatchNobody, RunsIdle, EntersRun, ExitReleasesItsOwn, InRun
<1>4. ASSUME NEW p \in Users, DispatchUser(p) \/ LoadBlocks(p) \/ LoadFatal(p)
      PROVE  ExitReleasesItsOwn'
  BY <1>4 DEF DispatchUser, LoadBlocks, LoadFatal, Dispatches, EntersRun,
              ExitReleasesItsOwn, InRun
<1> QED
  BY <1>1, <1>2, <1>3, <1>4 DEF Dispatch

(***************************************************************************)
(* Exit gives back the exiting process's locks and no other's: as long as  *)
(* no program writes to register 12, it names the running process from the *)
(* dispatch on, and the locks still to be released are its own.            *)
(***************************************************************************)
THEOREM ExitFreesItsOwnLocks == "pidreg" \notin Opcodes => (Spec => []ExitReleasesItsOwn)
<1> SUFFICES ASSUME "pidreg" \notin Opcodes
             PROVE  Spec => []ExitReleasesItsOwn
  OBVIOUS
<1>1. Init => ExitReleasesItsOwn
  BY DEF Init, ExitReleasesItsOwn, InRun
<1>2. ASSUME TypeOK, ExitReleasesItsOwn, [Next]_vars
      PROVE  ExitReleasesItsOwn'
  <2> USE DEF pcbVars, lockVars, eventVars
  <2>1. CASE \E p \in Users : LoadProcess(p)
    BY <2>1 DEF LoadProcess, ExitReleasesItsOwn, InRun
  <2>2. CASE HandleFlag
    <3>1. pc' \in {"dispatch", "crashed"}
      BY <2>2 DEF HandleFlag, HandlePreemption, HandleSleep, HandleTerminated,
                  HandleLockWait, HandleEventWait, HandleExpired, HandleBlocked,
                  HandleWaiting
    <3> QED
      BY <3>1 DEF ExitReleasesItsOwn, InRun
  <2>3. CASE UNCHANGED vars
    BY <1>2, <2>3 DEF vars, ExitReleasesItsOwn, InRun
  <2> QED
    BY <1>2, <2>1, <2>2, <2>3, DispatchSetsOwn, CycleKeepsOwn DEF Next, Stopped
<1> QED
  BY <1>1, <1>2, TypeCorrect, PTL DEF Spec

\* The steps that take a lock from its owner.
LEMMA OwnerRuns ==
    ASSUME TypeOK, ExitReleasesItsOwn, [Next]_vars, NEW l \in LockIds,
           locks[l] # NoProc, locks'[l] # locks[l]
    PROVE  locks[l] = runningProcess
<1>1. ASSUME NEW p \in Procs, NEW k \in LockIds,
             AcquireLock(p, k) \/ WaitForLock(p, k) \/ ReleaseLock(p, k)
      PROVE  locks[l] = runningProcess
  <2>1. CASE AcquireLock(p, k)
    BY <2>1 DEF AcquireLock, Obtains, TypeOK
  <2>2. CASE WaitForLock(p, k)
    BY <2>2 DEF WaitForLock
  <2>3. CASE ReleaseLock(p, k)
    <3>1. runningProcess = p
      BY <2>3 DEF ReleaseLock, Executes, Fetches
    <3>2. locks[k] = p /\ HandOver(k)
      BY <2>3 DEF ReleaseLock, Owns
    <3>3. k = l
      BY <3>2 DEF HandOver, TypeOK
    <3> QED
      BY <3>1, <3>2, <3>3
  <2> QED
    BY <1>1, <2>1, <2>2, <2>3
<1>2. CASE ReleaseHeldLock
  <2>1. PICK k \in releasing : HandOver(k)
    BY <1>2 DEF ReleaseHeldLock
  <2>2. k = l
    BY <2>1 DEF HandOver, TypeOK
  <2> QED
    BY <1>2, <2>1, <2>2 DEF ReleaseHeldLock, ExitReleasesItsOwn
<1> QED
  BY <1>1, <1>2, TableSteps

(***************************************************************************)
(* No process loses a lock to another: as long as no program writes to     *)
(* register 12, a lock leaves its owner only by the owner's own            *)
(* ReleaseLock or Exit.                                                    *)
(***************************************************************************)
THEOREM OwnersKeepTheirLocks == "pidreg" \notin Opcodes => (Spec => OnlyOwnerReleases)
<1>1. ASSUME TypeOK, ExitReleasesItsOwn, [Next]_vars
      PROVE  \A l \in LockIds : locks[l] # NoProc /\ locks'[l] # locks[l]
                                => locks[l] = runningProcess
  BY <1>1, OwnerRuns
<1> QED
  BY <1>1, TypeCorrect, ExitFreesItsOwnLocks, PTL DEF Spec, OnlyOwnerReleases

-----------------------------------------------------------------------------
\* A priority is a rank of the lock table.
LEMMA PrioritiesAreRanks == [Procs -> Priorities] \subseteq [Procs -> Nat]
<1>1. Priorities \subseteq Nat
  BY DEF Priorities
<1> QED
  BY <1>1

\* The kernel's initial states are initial states of the lock table.
LEMMA TableInit == Init => Table!Init
<1> SUFFICES ASSUME Init PROVE Table!Init
  OBVIOUS
<1>1. priority \in [Procs -> Nat]
  BY InitType, PrioritiesAreRanks DEF TypeOK
<1> QED
  BY <1>1 DEF Init, Table!Init

\* A lock its owner lets go is a Grant or a Free of the lock table.
LEMMA HandOverGrants ==
    ASSUME NEW l \in LockIds, HandOver(l), locks[l] = runningProcess
    PROVE  Table!Free(l) \/ \E i \in 1..Len(lockWaitQueues[l]) : Table!Grant(l, i)
BY DEF HandOver, HighestWaiter, Without, Table!Free, Table!Grant

LEMMA TableStep ==
    ASSUME TypeOK, TypeOK', ExitReleasesItsOwn, FreeLockHasNoWaiters, [Next]_vars
    PROVE  Table!Next
<1>1. priority' \in [Procs -> Nat] /\ runningProcess' \in Procs \cup {NoProc}
  BY PrioritiesAreRanks DEF TypeOK
<1>2. CASE UNCHANGED <<locks, lockWaitQueues>>
  BY <1>1, <1>2 DEF Table!Next
<1>3. ASSUME NEW p \in Procs, NEW l \in LockIds, AcquireLock(p, l)
      PROVE  Table!Next
  <2>1. runningProcess = p /\ UNCHANGED lockWaitQueues
    BY <1>3 DEF AcquireLock, Executes, Fetches
  <2>2. CASE locks[l] = p
    <3>1. locks' = locks
      BY <1>3, <2>2 DEF AcquireLock, TypeOK
    <3> QED
      BY <1>1, <2>1, <3>1 DEF Table!Next
  <2>3. CASE locks[l] = NoProc
    <3>1. Table!Take(l, p)
      BY <1>3, <2>1, <2>3 DEF AcquireLock, FreeLockHasNoWaiters, Table!Take
    <3> QED
      BY <1>1, <3>1 DEF Table!Next
  <2> QED
    BY <1>3, <2>2, <2>3 DEF AcquireLock, Obtains
<1>4. ASSUME NEW p \in Procs, NEW l \in LockIds, WaitForLock(p, l)
      PROVE  Table!Next
  <2>1. Table!Enqueue(l, p)
    BY <1>4 DEF WaitForLock, Obtains, Executes, Fetches, Table!Enqueue
  <2> QED
    BY <1>1, <2>1 DEF Table!Next
<1>5. ASSUME NEW l \in LockIds, HandOver(l), locks[l] = runningProcess
      PROVE  Table!Next
  BY <1>1, <1>5, HandOverGrants DEF Table!Next
<1>6. ASSUME NEW p \in Procs, NEW l \in LockIds, ReleaseLock(p, l)
      PROVE  Table!Next
  <2>1. CASE Owns(p, l)
    BY <1>5, <1>6, <2>1 DEF ReleaseLock, Owns, Executes, Fetches
  <2>2. CASE ~Owns(p, l)
    BY <1>2, <1>6, <2>2 DEF ReleaseLock
  <2> QED
    BY <2>1, <2>2
<1>7. CASE ReleaseHeldLock
  <2>1. PICK l \in releasing : HandOver(l)
    BY <1>7 DEF ReleaseHeldLock
  <2>2. l \in LockIds /\ locks[l] = runningProcess
    BY <1>7, <2>1 DEF ReleaseHeldLock, ExitReleasesItsOwn, TypeOK
  <2> QED
    BY <1>5, <2>1, <2>2
<1> QED
  BY <1>2, <1>3, <1>4, <1>6, <1>7, TableSteps

(***************************************************************************)
(* The lock instructions implement LockTable, as long as no program writes *)
(* to register 12: a lock is taken only when it is free and nobody waits,  *)
(* and handed over in one step to a waiter of the highest priority.        *)
(***************************************************************************)
THEOREM ImplementsLockTable == "pidreg" \notin Opcodes => (Spec => TableSpec)
<1> SUFFICES ASSUME "pidreg" \notin Opcodes
             PROVE  Spec => TableSpec
  OBVIOUS
<1>1. Spec => []ExitReleasesItsOwn
  BY ExitFreesItsOwnLocks
<1>2. TypeOK /\ TypeOK' /\ ExitReleasesItsOwn /\ FreeLockHasNoWaiters /\ [Next]_vars
      => [Table!Next]_(Table!tableVars)
  BY TableStep
<1> QED
  BY <1>1, <1>2, TableInit, TypeCorrect, NoLostLockWakeUp, PTL DEF Spec, TableSpec, Table!Spec

=============================================================================
