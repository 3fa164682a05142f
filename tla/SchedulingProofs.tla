-------------------------- MODULE SchedulingProofs --------------------------
(***************************************************************************)
(* Proofs about the scheduler for every number of programs and every       *)
(* workload: its ready queue is a priority bag, nothing that is Ready is   *)
(* forgotten, and the idle process yields to every user process.           *)
(***************************************************************************)
EXTENDS KernelProofs

-----------------------------------------------------------------------------
(***************************************************************************)
(* What a step does to the ready queue: nothing, one push or one pop; and  *)
(* the steps that change a priority leave the queue alone.                 *)
(***************************************************************************)
QueueUntouched == UNCHANGED readyQueue

QueuePushes == /\ \E p \in Procs : readyQueue' = Push(readyQueue, p, priority)
               /\ UNCHANGED priority

QueuePops == /\ readyQueue # <<>>
             /\ readyQueue' = Pop(readyQueue, priority)
             /\ UNCHANGED priority

QueueStep == QueueUntouched \/ QueuePushes \/ QueuePops

\* A lock handed over pushes one process or none.
LEMMA HandOverQueue ==
    ASSUME TypeOK, NEW l \in LockIds, HandOver(l), UNCHANGED priority
    PROVE  QueueStep
<1>1. lockWaitQueues[l] \in Seq(Procs)
  BY DEF TypeOK
<1>2. \A i \in 1..Len(lockWaitQueues[l]) : lockWaitQueues[l][i] \in Procs
  BY <1>1
<1> QED
  BY <1>2 DEF HandOver, QueueStep, QueueUntouched, QueuePushes

\* unblockProcesses pushes one process or none.
LEMMA UnblocksQueue ==
    ASSUME NEW plist, NEW st, Unblocks(plist, st) \/ UnblockThrows(plist, st), UNCHANGED priority
    PROVE  QueueStep
BY DEF Unblocks, UnblockThrows, QueueStep, QueueUntouched, QueuePushes

\* A turn of run() pushes one process or none, or changes priorities.
LEMMA CycleQueue ==
    ASSUME TypeOK, Cycle
    PROVE  QueueStep
<1> USE DEF pcbVars
<1>1. ASSUME NEW p \in Procs, Computes(p) \/ Schedules(p)
      PROVE  QueueStep
  BY <1>1 DEF Computes, Schedules, Step, Fault, MemoryBlock, MemoryFatal, WritePidReg, Sleep,
              SetPriority, QueueStep, QueueUntouched
<1>2. ASSUME NEW p \in Procs, Synchronizes(p)
      PROVE  QueueStep
  <2>1. ASSUME NEW l \in LockIds, AcquireLock(p, l) \/ WaitForLock(p, l)
        PROVE  QueueStep
    BY <2>1 DEF AcquireLock, WaitForLock, QueueStep, QueueUntouched
  <2>2. ASSUME NEW l \in LockIds, ReleaseLock(p, l)
        PROVE  QueueStep
    BY <2>2, HandOverQueue DEF ReleaseLock, QueueStep, QueueUntouched
  <2>3. ASSUME NEW e \in EventIds, SignalEvent(p, e) \/ WaitEvent(p, e)
        PROVE  QueueStep
    BY <2>3 DEF SignalEvent, WaitEvent, QueueStep, QueueUntouched
  <2> QED
    BY <1>2, <2>1, <2>2, <2>3 DEF Synchronizes
<1>3. ASSUME NEW p \in Procs, Terminates(p)
      PROVE  QueueStep
  <2>1. ASSUME NEW t \in Targets, TerminateProcess(p, t) \/ TerminateProcessThrows(p, t)
        PROVE  QueueStep
    BY <2>1, UnblocksQueue DEF TerminateProcess, TerminateProcessThrows
  <2> QED
    BY <1>3, <2>1 DEF Terminates, Exit, NobodyToKill, QueueStep, QueueUntouched
<1>4. CASE ReleaseHeldLock
  BY <1>4, HandOverQueue DEF ReleaseHeldLock, TypeOK
<1>5. CASE AddProcess
  <2>1. Head(toReady) \in Procs
    BY <1>5 DEF AddProcess, TypeOK
  <2> QED
    BY <1>5, <2>1 DEF AddProcess, QueueStep, QueuePushes
<1>6. CASE WakeUp
  BY <1>6 DEF WakeUp, TypeOK, QueueStep, QueuePushes
<1>7. CASE NoRunningProcess \/ FinishExit \/ Callback \/ NextCycleOfRun
  BY <1>7 DEF NoRunningProcess, FinishExit, Callback, NextCycleOfRun, QueueStep, QueueUntouched
<1> QED
  BY <1>1, <1>2, <1>3, <1>4, <1>5, <1>6, <1>7 DEF Cycle

\* Every step of the kernel pushes, pops, changes priorities or leaves the queue.
LEMMA QueueSteps ==
    ASSUME TypeOK, [Next]_vars
    PROVE  QueueStep
<1> USE DEF pcbVars
<1>1. ASSUME NEW p \in Users, LoadProcess(p)
      PROVE  QueueStep
  BY <1>1, ProcsFacts DEF LoadProcess, QueueStep, QueuePushes
<1>2. CASE Dispatch
  <2>1. ASSUME NEW p \in Procs, Dispatches(p), UNCHANGED priority
        PROVE  QueueStep
    BY <2>1 DEF Dispatches, QueueStep, QueuePops
  <2>2. CASE DispatchIdle
    BY <2>1, <2>2, ProcsFacts DEF DispatchIdle
  <2>3. ASSUME NEW p \in Users, DispatchUser(p) \/ LoadBlocks(p) \/ LoadFatal(p)
        PROVE  QueueStep
    BY <2>1, <2>3, ProcsFacts DEF DispatchUser, LoadBlocks, LoadFatal
  <2>4. CASE Halt \/ DispatchNobody
    BY <2>4 DEF Halt, DispatchNobody, QueueStep, QueueUntouched
  <2>5. CASE DropTerminated
    BY <2>5 DEF DropTerminated, QueueStep, QueuePops
  <2> QED
    BY <1>2, <2>2, <2>3, <2>4, <2>5 DEF Dispatch
<1>3. CASE HandleFlag
  <2>1. CASE HandlePreemption \/ HandleExpired
    BY <2>1, CurrentType DEF HandlePreemption, HandleExpired, Requeues, QueueStep, QueuePushes
  <2>2. CASE HandleTerminated
    BY <2>2, UnblocksQueue DEF HandleTerminated
  <2>3. CASE HandleSleep \/ HandleLockWait \/ HandleEventWait \/ HandleBlocked
    BY <2>3 DEF HandleSleep, HandleLockWait, HandleEventWait, HandleBlocked, HandleWaiting,
                QueueStep, QueueUntouched
  <2> QED
    BY <1>3, <2>1, <2>2, <2>3 DEF HandleFlag
<1>4. CASE Stopped \/ UNCHANGED vars
  BY <1>4 DEF Stopped, vars, QueueStep, QueueUntouched
<1> QED
  BY <1>1, <1>2, <1>3, <1>4, CycleQueue DEF Next

-----------------------------------------------------------------------------
(***************************************************************************)
(* The ready queue as a priority bag.                                      *)
(***************************************************************************)
LEMMA CopiesType ==
    ASSUME NEW q \in Seq(Procs), NEW p
    PROVE  /\ Cardinality(Positions(p, q)) \in Nat
           /\ Cardinality(Positions(p, q)) > 0 <=> In(p, q)
BY PositionsFinite

\* Priorities can be compared.
LEMMA RanksAreIntegers == TypeOK => priority \in [Procs -> Int]
<1>1. Priorities \subseteq Int
  BY DEF Priorities
<1> QED
  BY <1>1 DEF TypeOK

\* A queue nobody is in is empty, and an empty queue is a heap.
LEMMA EmptyIsHeap ==
    ASSUME NEW q \in Seq(Procs), NEW prio, \A p \in Procs : Cardinality(Positions(p, q)) = 0
    PROVE  IsHeap(q, prio)
<1>1. \A p \in Procs : ~In(p, q)
  BY CopiesType
<1>2. ASSUME NEW i \in 1..Len(q)
      PROVE  FALSE
  <2>1. q[i] \in Procs
    OBVIOUS
  <2>2. i \in Positions(q[i], q)
    BY DEF Positions
  <2> QED
    BY <1>1, <2>1, <2>2 DEF In
<1> QED
  BY <1>2 DEF IsHeap

\* The heap order looks at the priorities of the queued processes only.
LEMMA HeapOfQueued ==
    ASSUME NEW q \in Seq(Procs), NEW prio, NEW other,
           \A p \in Procs : In(p, q) => other[p] = prio[p]
    PROVE  IsHeap(q, other) <=> IsHeap(q, prio)
<1>1. ASSUME NEW i \in 1..Len(q)
      PROVE  other[q[i]] = prio[q[i]]
  <2>1. q[i] \in Procs
    OBVIOUS
  <2>2. i \in Positions(q[i], q)
    BY DEF Positions
  <2> QED
    BY <2>1, <2>2 DEF In
<1>2. ASSUME NEW i \in 2..Len(q)
      PROVE  i \in 1..Len(q) /\ i \div 2 \in 1..Len(q)
  <2>1. Len(q) \in Nat
    OBVIOUS
  <2> QED
    BY <2>1
<1> QED
  BY <1>1, <1>2 DEF IsHeap, Below

\* The kernel's initial queue is a bag of one process.
LEMMA BagInit == Init => ReadyBag!Init
<1> SUFFICES ASSUME Init PROVE ReadyBag!Init
  OBVIOUS
<1> DEFINE copies == [p \in Procs |-> ReadyCopies(p)]
<1>1. readyQueue = <<Idle>>
  BY DEF Init
<1>2. \A p \in Procs : ReadyCopies(p) = IF p = Idle THEN 1 ELSE 0
  <2>1. Positions(Idle, <<Idle>>) = {1}
    BY DEF Positions
  <2>2. \A p \in Procs \ {Idle} : Positions(p, <<Idle>>) = {}
    BY DEF Positions
  <2> QED
    BY <1>1, <2>1, <2>2, FS_EmptySet, FS_Singleton DEF ReadyCopies
<1>3. copies = [p \in Procs |-> IF p = Idle THEN 1 ELSE 0]
  BY <1>2
<1>4. IsHeap(readyQueue, priority)
  BY <1>1 DEF IsHeap
<1>5. priority \in [Procs -> Int]
  BY InitType, RanksAreIntegers
<1> QED
  BY <1>3, <1>4, <1>5, ProcsFacts DEF ReadyBag!Init

\* Every step of the kernel is one of the bag.
LEMMA BagStep ==
    ASSUME TypeOK, TypeOK', [Next]_vars
    PROVE  ReadyBag!Next
<1> DEFINE copies == [p \in Procs |-> ReadyCopies(p)]
<1>1. /\ readyQueue \in Seq(Procs) /\ readyQueue' \in Seq(Procs)
      /\ priority \in [Procs -> Int] /\ priority' \in [Procs -> Int]
  <2>1. Priorities \subseteq Int
    BY DEF Priorities
  <2> QED
    BY <2>1 DEF TypeOK
<1>2. /\ \A p \in Procs : copies[p] \in Nat /\ (copies[p] > 0 <=> In(p, readyQueue))
      /\ \A p \in Procs : copies'[p] = Cardinality(Positions(p, readyQueue'))
      /\ \A p \in Procs : copies[p] = Cardinality(Positions(p, readyQueue))
      /\ copies \in [Procs -> Nat] /\ copies' \in [Procs -> Nat]
  BY <1>1, CopiesType DEF ReadyCopies
<1> HIDE DEF copies
<1>3. (\A p \in Procs : copies'[p] = 0) => IsHeap(readyQueue', priority')
  BY <1>1, <1>2, EmptyIsHeap
<1>4. CASE QueueUntouched
  <2>1. copies' = copies
    BY <1>4 DEF QueueUntouched, ReadyCopies, copies
  <2>2. (\A p \in Procs : copies[p] > 0 => priority'[p] = priority[p])
        => (IsHeap(readyQueue', priority') <=> IsHeap(readyQueue, priority))
    BY <1>1, <1>2, <1>4, HeapOfQueued DEF QueueUntouched
  <2>3. (\A p \in Procs : copies[p] > 0 => priority'[p] = priority[p])
        => IsHeap(readyQueue', priority') = IsHeap(readyQueue, priority)
    BY <2>2, Zenon DEF IsHeap
  <2>4. ReadyBag!Rerank
    BY <1>1, <2>1, <2>3, Zenon DEF ReadyBag!Rerank, ReadyBag!Holds, copies
  <2> QED
    BY <1>3, <2>4 DEF ReadyBag!Next, copies
<1>5. CASE QueuePushes
  <2>1. PICK x \in Procs : readyQueue' = Push(readyQueue, x, priority) /\ UNCHANGED priority
    BY <1>5 DEF QueuePushes
  <2>2. copies' = [copies EXCEPT ![x] = @ + 1]
    <3>1. \A p \in Procs : copies'[p] = copies[p] + (IF p = x THEN 1 ELSE 0)
      BY <1>1, <1>2, <2>1, PushCopies
    <3> QED
      BY <1>2, <3>1
  <2>3. IsHeap(readyQueue, priority) => IsHeap(readyQueue', priority')
    BY <1>1, <2>1, PushHeap
  <2>4. ReadyBag!Add(x)
    BY <2>1, <2>2, <2>3 DEF ReadyBag!Add, copies
  <2> QED
    BY <1>3, <2>4 DEF ReadyBag!Next, copies
<1>6. CASE QueuePops
  <2> DEFINE x == Top(readyQueue)
  <2>1. readyQueue # <<>> /\ readyQueue' = Pop(readyQueue, priority) /\ UNCHANGED priority
    BY <1>6 DEF QueuePops
  <2>2. x \in Procs
    BY <1>1, <2>1, TopType
  <2>3. \A p \in Procs : copies[p] = copies'[p] + (IF p = x THEN 1 ELSE 0)
    BY <1>1, <1>2, <2>1, PopCopies
  <2> HIDE DEF x
  <2>4. \A p \in Procs : copies'[p] = IF p = x THEN copies[p] - 1 ELSE copies[p]
    BY <1>2, <2>3
  <2>5. copies' = [copies EXCEPT ![x] = @ - 1] /\ copies[x] > 0
    BY <1>2, <2>2, <2>3, <2>4
  <2>6. IsHeap(readyQueue, priority) => IsHeap(readyQueue', priority')
    BY <1>1, <2>1, PopHeap
  <2>7. ASSUME IsHeap(readyQueue, priority), NEW o \in Procs, copies[o] > 0
        PROVE  priority[o] <= priority[x]
    <3>1. PICK i \in 1..Len(readyQueue) : readyQueue[i] = o
      BY <1>2, <2>7 DEF In, Positions
    <3> QED
      BY <1>1, <2>7, <3>1, HeapTop DEF x
  <2>8. ReadyBag!Take(x)
    BY <2>1, <2>5, <2>6, <2>7 DEF ReadyBag!Take, ReadyBag!Holds, copies
  <2> QED
    BY <1>3, <2>2, <2>8 DEF ReadyBag!Next, copies
<1> QED
  BY <1>4, <1>5, <1>6, QueueSteps DEF QueueStep

(***************************************************************************)
(* The ready queue implements PriorityBag, whatever the programs do:       *)
(* addProcess and getNextProcess neither lose nor double an entry, and     *)
(* getNextProcess takes a process of the highest priority as long as no    *)
(* queued process has had its priority changed, by a boost or by its own   *)
(* SetPriority, since the queue was last in order.                         *)
(***************************************************************************)
THEOREM ImplementsPriorityBag == Spec => BagSpec
<1>1. TypeOK /\ TypeOK' /\ [Next]_vars => [ReadyBag!Next]_(ReadyBag!bagVars)
  BY BagStep
<1> QED
  BY <1>1, BagInit, TypeCorrect, PTL DEF Spec, BagSpec, ReadyBag!Spec

-----------------------------------------------------------------------------
(***************************************************************************)
(* Nothing Ready is forgotten.  Between the instruction that signals an    *)
(* event and the callback, the processes it has made Ready are in toReady; *)
(* the invariant says that they are nowhere else in time, for otherwise a  *)
(* second signal would overwrite toReady.                                  *)
(***************************************************************************)
WantsReady(p) == state[p] \in {"New", "Ready"}

AddedInTime == toReady # <<>> => pc = "callback"

\* A push adds what it pushes and loses nobody.
LEMMA InPush ==
    ASSUME NEW q \in Seq(Procs), NEW x \in Procs, NEW prio, NEW p
    PROVE  In(p, Push(q, x, prio)) <=> In(p, q) \/ p = x
<1>1. Push(q, x, prio) \in Seq(Procs)
  BY PushType
<1>2. /\ Cardinality(Positions(p, q)) \in Nat
      /\ In(p, q) <=> Cardinality(Positions(p, q)) # 0
      /\ In(p, Push(q, x, prio)) <=> Cardinality(Positions(p, Push(q, x, prio))) # 0
  BY <1>1, PositionsFinite
<1> QED
  BY <1>2, PushCopies

\* A pop takes the front and loses nobody else.
LEMMA InPop ==
    ASSUME NEW q \in Seq(Procs), q # <<>>, NEW prio, NEW p
    PROVE  In(p, q) <=> In(p, Pop(q, prio)) \/ p = Top(q)
<1>1. Pop(q, prio) \in Seq(Procs)
  BY PopType
<1>2. /\ In(p, q) <=> Cardinality(Positions(p, q)) # 0
      /\ Cardinality(Positions(p, Pop(q, prio))) \in Nat
      /\ In(p, Pop(q, prio)) <=> Cardinality(Positions(p, Pop(q, prio))) # 0
  BY <1>1, PositionsFinite
<1> QED
  BY <1>2, PopCopies

\* The steps that make no process Ready.
LEMMA StaysReady ==
    ASSUME NoLostReady, UNCHANGED <<readyQueue, toReady>>, processList' \subseteq processList,
           \A p \in processList : WantsReady(p)' => WantsReady(p)
    PROVE  NoLostReady'
BY DEF NoLostReady, WantsReady

\* The steps that push x.
LEMMA BecomesReady ==
    ASSUME TypeOK, NoLostReady, UNCHANGED toReady, NEW x \in Procs,
           readyQueue' = Push(readyQueue, x, priority),
           processList' \subseteq processList \cup {x},
           \A p \in processList \ {x} : WantsReady(p)' => WantsReady(p)
    PROVE  NoLostReady'
<1>1. \A p : In(p, readyQueue') <=> In(p, readyQueue) \/ p = x
  BY InPush DEF TypeOK
<1> QED
  BY <1>1 DEF NoLostReady, WantsReady

\* The steps that pop the front and leave it something else than Ready.
LEMMA LeavesReady ==
    ASSUME TypeOK, NoLostReady, UNCHANGED <<toReady, processList>>, readyQueue # <<>>,
           NEW x, x = Top(readyQueue), readyQueue' = Pop(readyQueue, priority),
           ~WantsReady(x)',
           \A p \in processList \ {x} : WantsReady(p)' => WantsReady(p)
    PROVE  NoLostReady'
<1>1. \A p : In(p, readyQueue) <=> In(p, readyQueue') \/ p = x
  BY InPop DEF TypeOK
<1> QED
  BY <1>1 DEF NoLostReady, WantsReady

\* The new owner of a lock is Ready and queued.
LEMMA HandOverKeepsReady ==
    ASSUME TypeOK, NoLostReady, NEW l \in LockIds, HandOver(l), UNCHANGED <<toReady, processList>>
    PROVE  NoLostReady'
<1> DEFINE queue == lockWaitQueues[l]
<1>1. CASE UNCHANGED <<state, readyQueue>>
  BY <1>1, StaysReady DEF WantsReady
<1>2. ASSUME NEW i \in 1..Len(queue),
             state' = [state EXCEPT ![queue[i]] = "Ready"],
             readyQueue' = Push(readyQueue, queue[i], priority)
      PROVE  NoLostReady'
  <2>1. queue[i] \in Procs /\ processList \subseteq Procs /\ state \in [Procs -> States]
    BY DEF TypeOK
  <2>2. \A p \in processList \ {queue[i]} : WantsReady(p)' => WantsReady(p)
    BY <1>2, <2>1 DEF WantsReady
  <2> QED
    BY <1>2, <2>1, <2>2, BecomesReady
<1> QED
  BY <1>1, <1>2 DEF HandOver

\* The process unblockProcesses makes Ready is queued.
LEMMA UnblocksKeepsReady ==
    ASSUME TypeOK, NoLostReady, NEW plist \in SUBSET processList, NEW t \in Procs,
           Unblocks(plist, Killed(t)) \/ UnblockThrows(plist, Killed(t)),
           processList' = plist, UNCHANGED toReady
    PROVE  NoLostReady'
<1>1. \A p \in Procs : Killed(t)[p] \in {"New", "Ready"} => WantsReady(p)
  BY DEF TypeOK, Killed, WantsReady
<1>2. processList \subseteq Procs
  BY DEF TypeOK
<1>3. CASE state' = Killed(t) /\ UNCHANGED readyQueue
  BY <1>1, <1>2, <1>3, StaysReady DEF WantsReady
<1>4. ASSUME NEW x \in Procs,
             state' = [Killed(t) EXCEPT ![x] = "Ready"],
             readyQueue' = Push(readyQueue, x, priority)
      PROVE  NoLostReady'
  <2>1. \A p \in processList \ {x} : state'[p] = Killed(t)[p]
    BY <1>2, <1>4, KilledType
  <2>2. \A p \in processList \ {x} : WantsReady(p)' => WantsReady(p)
    BY <1>1, <1>2, <2>1 DEF WantsReady
  <2> QED
    BY <1>4, <2>2, BecomesReady
<1> QED
  BY <1>3, <1>4 DEF Unblocks, UnblockThrows

\* Whom a signal makes Ready is on the way to the queue.
LEMMA SignalKeepsReady ==
    ASSUME TypeOK, NoLostReady, AddedInTime, NEW p \in Procs, NEW e \in EventIds, SignalEvent(p, e)
    PROVE  NoLostReady'
<1>1. toReady = <<>>
  BY DEF SignalEvent, Executes, Fetches, AddedInTime
<1>2. \A q : ~In(q, toReady)
  BY <1>1 DEF In, Positions
<1>3. /\ toReady' = eventWaitQueues[e] /\ UNCHANGED <<readyQueue, processList>>
      /\ \A q \in Procs : \/ state'[q] = state[q]
                          \/ \E i \in 1..Len(toReady') : toReady'[i] = q
  BY DEF SignalEvent, unchangedByCpu
<1>4. processList \subseteq Procs
  BY DEF TypeOK
<1>5. ASSUME NEW q \in processList, WantsReady(q)'
      PROVE  In(q, readyQueue) \/ In(q, toReady')
  <2>1. CASE state'[q] = state[q]
    BY <1>2, <1>5, <2>1 DEF NoLostReady, WantsReady
  <2>2. CASE \E i \in 1..Len(toReady') : toReady'[i] = q
    BY <2>2 DEF In, Positions
  <2> QED
    BY <1>3, <1>4, <2>1, <2>2
<1> QED
  BY <1>3, <1>5 DEF NoLostReady, WantsReady

\* And gets there.
LEMMA AddKeepsReady ==
    ASSUME TypeOK, NoLostReady, AddProcess
    PROVE  NoLostReady'
<1>1. toReady \in Seq(Procs) /\ toReady # <<>> /\ readyQueue \in Seq(Procs)
  BY DEF AddProcess, TypeOK
<1>2. Head(toReady) \in Procs
  BY <1>1
<1>3. readyQueue' = Push(readyQueue, Head(toReady), priority) /\ toReady' = Tail(toReady)
  BY DEF AddProcess
<1>4. \A q : In(q, readyQueue') <=> In(q, readyQueue) \/ q = Head(toReady)
  BY <1>1, <1>2, <1>3, InPush
<1>5. ASSUME NEW q, In(q, toReady)
      PROVE  In(q, toReady') \/ q = Head(toReady)
  <2>1. PICK i \in 1..Len(toReady) : toReady[i] = q
    BY <1>5 DEF In, Positions
  <2>2. CASE i = 1
    BY <1>1, <2>1, <2>2
  <2>3. CASE i # 1
    <3>1. i - 1 \in 1..Len(toReady') /\ toReady'[i - 1] = q
      BY <1>1, <1>3, <2>1, <2>3
    <3> QED
      BY <3>1 DEF In, Positions
  <2> QED
    BY <2>2, <2>3
<1> QED
  BY <1>4, <1>5 DEF AddProcess, NoLostReady, pcbVars

\* A turn of run() forgets nobody.
LEMMA CycleKeepsReady ==
    ASSUME TypeOK, NoLostReady, AddedInTime, Cycle
    PROVE  NoLostReady'
<1> USE DEF pcbVars, eventVars
<1>1. ASSUME NEW p \in Procs, Computes(p) \/ Schedules(p)
      PROVE  NoLostReady'
  <2>1. UNCHANGED <<state, readyQueue, toReady, processList>>
    BY <1>1 DEF Computes, Schedules, Step, Fault, MemoryBlock, MemoryFatal, WritePidReg, Sleep,
                SetPriority
  <2> QED
    BY <2>1, StaysReady DEF WantsReady
<1>2. ASSUME NEW p \in Procs, Synchronizes(p)
      PROVE  NoLostReady'
  <2>1. ASSUME NEW l \in LockIds, AcquireLock(p, l)
        PROVE  NoLostReady'
    BY <2>1, StaysReady DEF AcquireLock, WantsReady
  <2>2. ASSUME NEW l \in LockIds, WaitForLock(p, l)
        PROVE  NoLostReady'
    BY <2>2, StaysReady DEF WaitForLock, WantsReady, TypeOK
  <2>3. ASSUME NEW l \in LockIds, ReleaseLock(p, l)
        PROVE  NoLostReady'
    BY <2>3, HandOverKeepsReady, StaysReady DEF ReleaseLock, WantsReady
  <2>4. ASSUME NEW e \in EventIds, WaitEvent(p, e)
        PROVE  NoLostReady'
    BY <2>4, StaysReady DEF WaitEvent, WantsReady, TypeOK
  <2> QED
    BY <1>2, <2>1, <2>2, <2>3, <2>4, SignalKeepsReady DEF Synchronizes
<1>3. ASSUME NEW p \in Procs, Terminates(p)
      PROVE  NoLostReady'
  <2>1. CASE Exit(p) \/ \E t \in Targets : NobodyToKill(p, t)
    BY <2>1, StaysReady DEF Exit, NobodyToKill, WantsReady
  <2>2. ASSUME NEW t \in Targets, TerminateProcess(p, t) \/ TerminateProcessThrows(p, t)
        PROVE  NoLostReady'
    <3>1. /\ Unblocks(processList \ {t}, Killed(t)) \/ UnblockThrows(processList \ {t}, Killed(t))
          /\ processList' = processList \ {t}
          /\ UNCHANGED toReady
      BY <2>2 DEF TerminateProcess, TerminateProcessThrows, Kills
    <3>2. t \in Procs
      BY OperandAssumption
    <3> QED
      BY <3>1, <3>2, UnblocksKeepsReady
  <2> QED
    BY <1>3, <2>1, <2>2 DEF Terminates
<1>4. CASE ReleaseHeldLock
  BY <1>4, HandOverKeepsReady DEF ReleaseHeldLock, TypeOK
<1>5. CASE WakeUp
  <2>1. PICK x \in waking : /\ state' = [state EXCEPT ![x] = "Ready"]
                            /\ readyQueue' = Push(readyQueue, x, priority)
    BY <1>5 DEF WakeUp
  <2>2. x \in Procs
    BY DEF TypeOK
  <2>3. UNCHANGED <<toReady, processList>>
    BY <1>5 DEF WakeUp
  <2>4. \A p \in processList \ {x} : WantsReady(p)' => WantsReady(p)
    BY <2>1 DEF WantsReady, TypeOK
  <2> QED
    BY <2>1, <2>2, <2>3, <2>4, BecomesReady
<1>6. CASE NoRunningProcess \/ FinishExit \/ Callback \/ NextCycleOfRun
  BY <1>6, StaysReady DEF NoRunningProcess, FinishExit, Callback, NextCycleOfRun, WantsReady
<1> QED
  BY <1>1, <1>2, <1>3, <1>4, <1>5, <1>6, AddKeepsReady DEF Cycle

\* Who is taken from the queue runs, waits or is dead.
LEMMA DispatchKeepsReady ==
    ASSUME TypeOK, NoLostReady, Dispatch
    PROVE  NoLostReady'
<1> USE DEF pcbVars, eventVars
<1>1. CASE Halt \/ DispatchNobody
  BY <1>1, StaysReady DEF Halt, DispatchNobody, WantsReady
<1>2. CASE DropTerminated
  BY <1>2, LeavesReady DEF DropTerminated, Runnable, WantsReady
<1>3. ASSUME NEW p \in Procs, Dispatches(p), UNCHANGED <<toReady, processList>>,
             NEW s \in {"Running", "Waiting"}, state' = [state EXCEPT ![p] = s]
      PROVE  NoLostReady'
  <2>1. ~WantsReady(p)'
    BY <1>3 DEF WantsReady, TypeOK
  <2>2. \A q \in processList \ {p} : WantsReady(q)' => WantsReady(q)
    BY <1>3 DEF WantsReady, TypeOK
  <2> QED
    BY <1>3, <2>1, <2>2, LeavesReady DEF Dispatches
<1>4. CASE DispatchIdle
  BY <1>3, <1>4, ProcsFacts DEF DispatchIdle
<1>5. ASSUME NEW p \in Users, DispatchUser(p) \/ LoadBlocks(p) \/ LoadFatal(p)
      PROVE  NoLostReady'
  BY <1>3, <1>5, ProcsFacts DEF DispatchUser, LoadBlocks, LoadFatal
<1> QED
  BY <1>1, <1>2, <1>4, <1>5 DEF Dispatch

\* The handlers forget nobody.
LEMMA HandleFlagKeepsReady ==
    ASSUME TypeOK, NoLostReady, HandleFlag
    PROVE  NoLostReady'
<1> USE CurrentType DEF eventVars
<1>1. CASE HandlePreemption \/ HandleExpired
  <2>1. /\ state' = [state EXCEPT ![Current] = "Ready"]
        /\ readyQueue' = Push(readyQueue, Current, priority)
        /\ UNCHANGED <<toReady, processList>>
    BY <1>1 DEF HandlePreemption, HandleExpired, Requeues
  <2> DEFINE x == Current
  <2>2. PICK y \in Procs : y = Current
    OBVIOUS
  <2>3. \A p \in processList \ {y} : WantsReady(p)' => WantsReady(p)
    BY <2>1, <2>2 DEF WantsReady, TypeOK
  <2> QED
    BY <2>1, <2>2, <2>3, BecomesReady
<1>2. CASE HandleSleep \/ HandleLockWait \/ HandleEventWait \/ HandleBlocked
  <2>1. /\ \E s \in {"Sleeping", "Waiting"} : state' = [state EXCEPT ![Current] = s]
        /\ UNCHANGED <<readyQueue, toReady, processList>>
    BY <1>2 DEF HandleSleep, HandleLockWait, HandleEventWait, HandleBlocked, HandleWaiting
  <2> QED
    BY <2>1, StaysReady DEF WantsReady, TypeOK
<1>3. CASE HandleTerminated
  <2>1. /\ \/ Unblocks(processList \ {Current}, Killed(Current))
           \/ UnblockThrows(processList \ {Current}, Killed(Current))
        /\ processList' = processList \ {Current}
        /\ UNCHANGED toReady
    BY <1>3 DEF HandleTerminated
  <2> QED
    BY <2>1, UnblocksKeepsReady
<1> QED
  BY <1>1, <1>2, <1>3 DEF HandleFlag

\* What a step does to toReady.
LEMMA ToReadySteps ==
    ASSUME [Next]_vars
    PROVE  \/ UNCHANGED toReady /\ (pc # "callback" \/ toReady = <<>> \/ UNCHANGED pc)
           \/ pc' = "callback"
           \/ AddProcess
<1> USE DEF eventVars
<1>1. ASSUME NEW p \in Procs, Computes(p) \/ Schedules(p) \/ Terminates(p)
      PROVE  UNCHANGED toReady /\ pc # "callback"
  <2>1. CASE Computes(p)
    BY <2>1 DEF Computes, Step, Fault, MemoryBlock, MemoryFatal, WritePidReg, Executes, Fetches
  <2>2. CASE Schedules(p)
    BY <2>2 DEF Schedules, Sleep, SetPriority, Executes, Fetches
  <2>3. CASE Terminates(p)
    BY <2>3 DEF Terminates, Exit, NobodyToKill, TerminateProcess, TerminateProcessThrows, Kills,
                Executes, Fetches
  <2> QED
    BY <1>1, <2>1, <2>2, <2>3
<1>2. ASSUME NEW p \in Procs, Synchronizes(p)
      PROVE  pc' = "callback"
  BY <1>2 DEF Synchronizes, AcquireLock, WaitForLock, ReleaseLock, SignalEvent, WaitEvent,
              Completes, Returns
<1>3. CASE NoRunningProcess \/ ReleaseHeldLock \/ FinishExit
  BY <1>3 DEF NoRunningProcess, ReleaseHeldLock, FinishExit
<1>4. CASE Callback \/ WakeUp \/ NextCycleOfRun
  BY <1>4 DEF Callback, WakeUp, NextCycleOfRun
<1>5. CASE Dispatch
  BY <1>5 DEF Dispatch, Halt, DropTerminated, DispatchIdle, DispatchNobody, DispatchUser,
              LoadBlocks, LoadFatal, Dispatches
<1>6. CASE HandleFlag
  BY <1>6 DEF HandleFlag, HandlePreemption, HandleSleep, HandleTerminated, HandleLockWait,
              HandleEventWait, HandleExpired, HandleBlocked, HandleWaiting, Handles
<1>7. CASE (\E p \in Users : LoadProcess(p)) \/ Stopped \/ UNCHANGED vars
  BY <1>7 DEF LoadProcess, Stopped, vars
<1> QED
  BY <1>1, <1>2, <1>3, <1>4, <1>5, <1>6, <1>7 DEF Next, Cycle

\* Whom a signal has made Ready is queued before the callback.
LEMMA AddedInTimeStep ==
    ASSUME AddedInTime, [Next]_vars
    PROVE  AddedInTime'
BY ToReadySteps DEF AddedInTime, AddProcess

(***************************************************************************)
(* No path of the kernel makes a living process Ready and forgets to queue *)
(* it, and no pop loses one, whatever the programs do: also after a        *)
(* preemption that leaves flags behind, after a kill, and after a load     *)
(* that failed.                                                            *)
(***************************************************************************)
THEOREM NothingReadyIsLost == Spec => []NoLostReady
<1>1. Init => NoLostReady /\ AddedInTime
  <2> SUFFICES ASSUME Init PROVE NoLostReady /\ AddedInTime
    OBVIOUS
  <2>1. 1 \in Positions(Idle, readyQueue)
    BY DEF Init, Positions
  <2> QED
    BY <2>1 DEF Init, NoLostReady, AddedInTime, In
<1>2. ASSUME TypeOK, NoLostReady, AddedInTime, [Next]_vars
      PROVE  NoLostReady' /\ AddedInTime'
  <2>1. ASSUME NEW p \in Users, LoadProcess(p)
        PROVE  NoLostReady'
    <3>1. UNCHANGED <<state, toReady>> /\ readyQueue' = Push(readyQueue, p, priority)
      BY <2>1 DEF LoadProcess, pcbVars, eventVars
    <3>2. p \in Procs /\ processList' \subseteq processList \cup {p}
      BY <2>1, ProcsFacts DEF LoadProcess
    <3> QED
      BY <1>2, <3>1, <3>2, BecomesReady DEF WantsReady
  <2>2. ASSUME Stopped \/ UNCHANGED vars
        PROVE  NoLostReady'
    BY <1>2, <2>2, StaysReady DEF Stopped, vars, pcbVars, eventVars, WantsReady
  <2> QED
    BY <1>2, <2>1, <2>2, AddedInTimeStep, CycleKeepsReady, DispatchKeepsReady,
       HandleFlagKeepsReady DEF Next
<1> QED
  BY <1>1, <1>2, TypeCorrect, PTL DEF Spec

-----------------------------------------------------------------------------
(***************************************************************************)
(* The idle process comes last.  Whatever the priorities of the user       *)
(* processes have become, and however they have spoilt the heap, they are  *)
(* above the idle process's; so no user process ever stands below it in    *)
(* the heap, and it is at the front only when it is alone with itself.     *)
(***************************************************************************)
IdleIsLowest ==
    /\ priority[Idle] = 1
    /\ \A u \in Users : priority[u] >= 2

IdleTakesNoLock ==
    \A l \in LockIds : /\ locks[l] # Idle
                       /\ \A i \in 1..Len(lockWaitQueues[l]) : lockWaitQueues[l][i] # Idle

UsersAboveIdle == UpperFirst(readyQueue, Users)

\* Only SetPriority and a wait for a lock change priorities.
LEMMA PrioritySteps ==
    ASSUME [Next]_vars
    PROVE  \/ UNCHANGED priority
           \/ \E p \in Procs : \/ \E v \in PrioArgs : SetPriority(p, v)
                               \/ \E l \in LockIds : WaitForLock(p, l)
<1> USE DEF pcbVars
<1>1. ASSUME NEW p \in Procs, Computes(p) \/ Terminates(p) \/ \E d \in Durations : Sleep(p, d)
      PROVE  UNCHANGED priority
  BY <1>1 DEF Computes, Step, Fault, MemoryBlock, MemoryFatal, WritePidReg, Sleep, Terminates,
              Exit, NobodyToKill, TerminateProcess, TerminateProcessThrows
<1>2. ASSUME NEW p \in Procs,
             \/ \E l \in LockIds : AcquireLock(p, l) \/ ReleaseLock(p, l)
             \/ \E e \in EventIds : SignalEvent(p, e) \/ WaitEvent(p, e)
      PROVE  UNCHANGED priority
  BY <1>2 DEF AcquireLock, ReleaseLock, SignalEvent, WaitEvent
<1>3. CASE \/ NoRunningProcess \/ ReleaseHeldLock \/ FinishExit \/ AddProcess
           \/ Callback \/ WakeUp \/ NextCycleOfRun
  BY <1>3 DEF NoRunningProcess, ReleaseHeldLock, FinishExit, AddProcess, Callback, WakeUp,
              NextCycleOfRun
<1>4. CASE Dispatch
  BY <1>4 DEF Dispatch, Halt, DropTerminated, DispatchIdle, DispatchNobody, DispatchUser,
              LoadBlocks, LoadFatal
<1>5. CASE HandleFlag
  BY <1>5 DEF HandleFlag, HandlePreemption, HandleSleep, HandleTerminated, HandleLockWait,
              HandleEventWait, HandleExpired, HandleBlocked, HandleWaiting
<1>6. CASE (\E p \in Users : LoadProcess(p)) \/ Stopped \/ UNCHANGED vars
  BY <1>6 DEF LoadProcess, Stopped, vars
<1> QED
  BY <1>1, <1>2, <1>3, <1>4, <1>5, <1>6 DEF Next, Cycle, Schedules, Synchronizes

\* The idle program has neither locks nor priorities in it.
LEMMA IdleOnlySteps ==
    ASSUME NEW p \in Procs, NEW op, NEW arg, Executes(p, op, arg), op # "step"
    PROVE  p \in Users
BY DEF Executes, Procs

\* The idle process owns no lock, so nobody boosts it.
LEMMA IdleTakesNoLockStep ==
    ASSUME TypeOK, IdleTakesNoLock, [Next]_vars
    PROVE  IdleTakesNoLock'
<1>1. \A l \in LockIds : lockWaitQueues[l] \in Seq(Procs)
  BY DEF TypeOK
<1>2. \A u \in Users : u # Idle
  BY NAssumption DEF Users, Idle
<1>3. ASSUME NEW l \in LockIds, HandOver(l)
      PROVE  IdleTakesNoLock'
  <2> DEFINE queue == lockWaitQueues[l]
  <2>1. CASE queue = <<>> /\ locks' = [locks EXCEPT ![l] = NoProc] /\ UNCHANGED lockWaitQueues
    BY <2>1, ProcsFacts DEF IdleTakesNoLock, TypeOK
  <2>2. ASSUME NEW i \in 1..Len(queue),
               locks' = [locks EXCEPT ![l] = queue[i]],
               lockWaitQueues' = [lockWaitQueues EXCEPT ![l] = Without(queue, i)]
        PROVE  IdleTakesNoLock'
    <3>1. Without(queue, i) \in Seq(Procs) /\ Len(Without(queue, i)) = Len(queue) - 1
      <4>1. Len(queue) - 1 \in Nat
        BY <1>1
      <4> QED
        BY <1>1, <4>1, WithoutType DEF Without
    <3>2. \A j \in 1..Len(Without(queue, i)) : Without(queue, i)[j] # Idle
      <4> SUFFICES ASSUME NEW j \in 1..(Len(queue) - 1)
                   PROVE  Without(queue, i)[j] # Idle
        BY <3>1
      <4>1. j \in 1..Len(queue) /\ j + 1 \in 1..Len(queue)
        BY <1>1
      <4> QED
        BY <4>1 DEF Without, IdleTakesNoLock
    <3> HIDE DEF queue
    <3>3. queue[i] # Idle
      BY <2>2 DEF IdleTakesNoLock, queue
    <3> QED
      BY <2>2, <3>2, <3>3 DEF IdleTakesNoLock, TypeOK
  <2> QED
    BY <1>3, <2>1, <2>2 DEF HandOver
<1>4. ASSUME NEW p \in Procs, NEW l \in LockIds, AcquireLock(p, l)
      PROVE  IdleTakesNoLock'
  <2>1. p # Idle
    BY <1>2, <1>4, IdleOnlySteps DEF AcquireLock
  <2> QED
    BY <1>4, <2>1 DEF AcquireLock, IdleTakesNoLock, TypeOK
<1>5. ASSUME NEW p \in Procs, NEW l \in LockIds, WaitForLock(p, l)
      PROVE  IdleTakesNoLock'
  <2>1. p # Idle
    BY <1>2, <1>5, IdleOnlySteps DEF WaitForLock
  <2>2. \A j \in 1..Len(Append(lockWaitQueues[l], p)) : Append(lockWaitQueues[l], p)[j] # Idle
    BY <1>1, <2>1 DEF IdleTakesNoLock
  <2> QED
    BY <1>5, <2>2 DEF WaitForLock, IdleTakesNoLock, TypeOK
<1>6. ASSUME NEW p \in Procs, NEW l \in LockIds, ReleaseLock(p, l)
      PROVE  IdleTakesNoLock'
  BY <1>3, <1>6 DEF ReleaseLock, IdleTakesNoLock
<1>7. CASE ReleaseHeldLock
  BY <1>3, <1>7 DEF ReleaseHeldLock, TypeOK
<1>8. CASE UNCHANGED <<locks, lockWaitQueues>>
  BY <1>8 DEF IdleTakesNoLock
<1> QED
  BY <1>4, <1>5, <1>6, <1>7, <1>8, TableSteps

\* The idle process keeps priority 1.
LEMMA IdleIsLowestStep ==
    ASSUME TypeOK, IdleIsLowest, IdleTakesNoLock, [Next]_vars
    PROVE  IdleIsLowest'
<1>1. Users \subseteq Procs /\ Idle \in Procs /\ Idle \notin Users
  BY NAssumption, ProcsFacts DEF Users, Idle
<1>2. ASSUME NEW p \in Procs, NEW v \in PrioArgs, SetPriority(p, v)
      PROVE  IdleIsLowest'
  <2>1. p \in Users
    BY <1>2, IdleOnlySteps DEF SetPriority
  <2> QED
    BY <1>1, <1>2, <2>1 DEF SetPriority, ValidPriority, IdleIsLowest, TypeOK
<1>3. ASSUME NEW p \in Procs, NEW l \in LockIds, WaitForLock(p, l)
      PROVE  IdleIsLowest'
  <2>1. p \in Users /\ locks[l] # Idle
    BY <1>3, IdleOnlySteps DEF WaitForLock, IdleTakesNoLock
  <2> QED
    BY <1>1, <1>3, <2>1 DEF WaitForLock, Boosted, IdleIsLowest, TypeOK
<1>4. CASE UNCHANGED priority
  BY <1>4 DEF IdleIsLowest
<1> QED
  BY <1>2, <1>3, <1>4, PrioritySteps

\* In the ready queue the user processes stay above the idle one.
LEMMA UsersAboveIdleStep ==
    ASSUME TypeOK, IdleIsLowest, UsersAboveIdle, [Next]_vars
    PROVE  UsersAboveIdle'
<1>1. readyQueue \in Seq(Procs) /\ priority \in [Procs -> Int]
  BY RanksAreIntegers DEF TypeOK
<1>2. Outranks(Users, Procs, priority)
  BY <1>1, ProcsFacts DEF Outranks, IdleIsLowest, Procs
<1>3. CASE QueueUntouched
  BY <1>3 DEF QueueUntouched, UsersAboveIdle, UpperFirst
<1>4. CASE QueuePushes
  BY <1>1, <1>2, <1>4, PushUpperFirst DEF QueuePushes, UsersAboveIdle
<1>5. CASE QueuePops
  BY <1>1, <1>2, <1>5, PopUpperFirst DEF QueuePops, UsersAboveIdle
<1> QED
  BY <1>3, <1>4, <1>5, QueueSteps DEF QueueStep

(***************************************************************************)
(* The idle process is dispatched only when no user process is in the      *)
(* ready queue, whatever the programs do to the priorities: to their own   *)
(* by SetPriority, to those of lock owners by waiting for them.            *)
(***************************************************************************)
THEOREM IdleRunsLast == Spec => IdleOnlyWhenNobodyReady
<1> DEFINE Inv == IdleIsLowest /\ IdleTakesNoLock /\ UsersAboveIdle
<1>1. Init => Inv
  <2> SUFFICES ASSUME Init PROVE Inv
    OBVIOUS
  <2>1. IdleIsLowest
    BY NAssumption, ProcsFacts DEF Init, IdleIsLowest, InitialPriority, Users, Idle
  <2>2. IdleTakesNoLock
    BY ProcsFacts DEF Init, IdleTakesNoLock
  <2>3. UsersAboveIdle
    BY DEF Init, UsersAboveIdle, UpperFirst
  <2> QED
    BY <2>1, <2>2, <2>3
<1>2. TypeOK /\ Inv /\ [Next]_vars => Inv'
  BY IdleTakesNoLockStep, IdleIsLowestStep, UsersAboveIdleStep
<1>3. TypeOK /\ UsersAboveIdle => (DispatchIdle => \A p \in Users : ~In(p, readyQueue))
  <2> SUFFICES ASSUME TypeOK, UsersAboveIdle, DispatchIdle, NEW p \in Users, In(p, readyQueue)
               PROVE  FALSE
    OBVIOUS
  <2>1. readyQueue \in Seq(Procs) /\ Top(readyQueue) = Idle
    BY DEF TypeOK, DispatchIdle, Dispatches
  <2>2. PICK i \in 1..Len(readyQueue) : readyQueue[i] = p
    BY DEF In, Positions
  <2>3. Idle \in Users
    BY <2>1, <2>2, UpperTop DEF UsersAboveIdle
  <2> QED
    BY <2>3, NAssumption DEF Users, Idle
<1> QED
  BY <1>1, <1>2, <1>3, TypeCorrect, PTL DEF Spec, IdleOnlyWhenNobodyReady

-----------------------------------------------------------------------------
(***************************************************************************)
(* run() comes back.  No sleep is longer than the longest quantum of the   *)
(* idle process, so the cycle counter, which stops there, never stops      *)
(* short of a quantum; and whenever an instruction leaves no flag up,      *)
(* there is some of the quantum left.                                      *)
(***************************************************************************)
\* Where the steps happen.
LEMMA InstructionRuns ==
    ASSUME NEW p \in Procs, Computes(p) \/ Schedules(p) \/ Synchronizes(p) \/ Terminates(p)
    PROVE  /\ pc = "execute" /\ runningProcess = p
           /\ pc' \in {"release", "callback", "crashed"}
           /\ UNCHANGED <<runningProcess, waking>>
<1> USE DEF unchangedByCpu
<1>1. CASE Computes(p)
  BY <1>1 DEF Computes, Step, Fault, MemoryBlock, MemoryFatal, WritePidReg, Executes, Fetches,
              Completes, Returns
<1>2. CASE Schedules(p)
  BY <1>2 DEF Schedules, Sleep, SetPriority, Executes, Fetches, Completes
<1>3. CASE Synchronizes(p)
  BY <1>3 DEF Synchronizes, AcquireLock, WaitForLock, ReleaseLock, SignalEvent, WaitEvent,
              Executes, Fetches, Completes, Returns
<1>4. CASE Terminates(p)
  BY <1>4 DEF Terminates, Exit, NobodyToKill, TerminateProcess, TerminateProcessThrows, Kills,
              Executes, Fetches, Completes, Returns
<1> QED
  BY <1>1, <1>2, <1>3, <1>4

\* A step of run() keeps its process and stays in run() or crashes.
LEMMA CycleRuns ==
    ASSUME AddedInTime, Cycle
    PROVE  InRun /\ (InRun' \/ pc' = "crashed") /\ UNCHANGED runningProcess
<1>1. CASE NoRunningProcess \/ ReleaseHeldLock \/ FinishExit \/ AddProcess
           \/ Callback \/ WakeUp \/ NextCycleOfRun
  BY <1>1 DEF AddedInTime, InRun, unchangedByCpu, NoRunningProcess, ReleaseHeldLock, FinishExit,
     AddProcess, Callback, WakeUp, NextCycleOfRun
<1> QED
  BY <1>1, InstructionRuns DEF Cycle, InRun

\* start() dispatches at the top of its loop.
LEMMA DispatchRuns ==
    ASSUME Dispatch
    PROVE  pc = "dispatch"
BY DEF Dispatch, Halt, DropTerminated, DispatchIdle, DispatchNobody, DispatchUser, LoadBlocks,
       LoadFatal, Dispatches

LEMMA HandleFlagRuns ==
    ASSUME HandleFlag
    PROVE  /\ pc = "cycleEnd" /\ pc' \in {"dispatch", "crashed"}
           /\ flags' \subseteq flags /\ waking = {} /\ waking' = {}
BY DEF HandleFlag, HandlePreemption, HandleSleep, HandleTerminated, HandleLockWait,
       HandleEventWait, HandleExpired, HandleBlocked, HandleWaiting, Handles

SleepsUpTo(b) ==
    /\ sleepDuration <= b
    /\ \A p \in Procs : sleepCounter[p] <= b
    /\ idleQuantum <= b

SleepsBounded == SleepsUpTo(MaxIdleQuantum)

LEMMA LongestIdleQuantum ==
    /\ MaxIdleQuantum \in Nat \ {0}
    /\ \A d \in Durations : d <= MaxIdleQuantum
<1> DEFINE S == {1} \cup Durations
<1>1. S \in SUBSET (0..(2 * SignBit - 1)) /\ S # {} /\ 2 * SignBit - 1 \in Nat
  BY OperandAssumption
<1>2. \E m \in S : \A k \in S : k <= m
  BY <1>1, GreatestNumber
<1>3. MaxIdleQuantum \in S /\ \A k \in S : k <= MaxIdleQuantum
  BY <1>2 DEF MaxIdleQuantum
<1> QED
  BY <1>1, <1>3

\* What the steps do to the sleeps.
LEMMA SleepSteps ==
    ASSUME TypeOK, [Next]_vars
    PROVE  /\ sleepDuration' \in Durations \cup {0, sleepDuration}
           /\ \A p \in Procs : sleepCounter'[p] <= sleepCounter[p] \/ sleepCounter'[p] = sleepDuration
           /\ \/ idleQuantum' \in {idleQuantum, 1}
              \/ \E p \in Procs : idleQuantum' = sleepCounter[p]
<1> DEFINE Same == UNCHANGED <<sleepDuration, sleepCounter, idleQuantum>>
<1> USE DEF pcbVars, unchangedByCpu
<1>1. \A p \in Procs : sleepCounter[p] \in Nat
  BY DEF TypeOK
<1>2. ASSUME NEW p \in Procs, Computes(p) \/ Synchronizes(p) \/ Terminates(p)
      PROVE  Same
  <2>1. CASE Computes(p)
    BY <2>1 DEF Computes, Step, Fault, MemoryBlock, MemoryFatal, WritePidReg
  <2>2. CASE Synchronizes(p)
    BY <2>2 DEF Synchronizes, AcquireLock, WaitForLock, ReleaseLock, SignalEvent, WaitEvent
  <2>3. CASE Terminates(p)
    BY <2>3 DEF Terminates, Exit, NobodyToKill, TerminateProcess, TerminateProcessThrows
  <2> QED
    BY <1>2, <2>1, <2>2, <2>3
<1>3. ASSUME NEW p \in Procs, Schedules(p)
      PROVE  UNCHANGED <<sleepCounter, idleQuantum>> /\ sleepDuration' \in Durations \cup {sleepDuration}
  BY <1>3 DEF Schedules, Sleep, SetPriority
<1>4. CASE NoRunningProcess \/ ReleaseHeldLock \/ FinishExit \/ AddProcess \/ WakeUp \/ NextCycleOfRun
  <2>1. Same
    BY <1>4 DEF NoRunningProcess, ReleaseHeldLock, FinishExit, AddProcess, WakeUp, NextCycleOfRun
  <2> QED
    BY <1>1, <2>1
<1>5. CASE Callback
  <2>1. UNCHANGED <<sleepDuration, idleQuantum>>
    BY <1>5 DEF Callback
  <2>2. \A p \in Procs : sleepCounter'[p] <= sleepCounter[p]
    BY <1>1, <1>5 DEF Callback
  <2> QED
    BY <2>1, <2>2
<1>6. CASE Dispatch
  <2>1. UNCHANGED <<sleepDuration, sleepCounter>>
    BY <1>6 DEF Dispatch, Halt, DropTerminated, DispatchIdle, DispatchNobody, DispatchUser,
                LoadBlocks, LoadFatal
  <2>2. ASSUME SetsIdleQuantum
        PROVE  idleQuantum' = 1 \/ \E p \in Procs : idleQuantum' = sleepCounter[p]
    BY <2>2 DEF SetsIdleQuantum, SleepCounters, TypeOK
  <2>3. \/ idleQuantum' = idleQuantum
        \/ SetsIdleQuantum
    BY <1>6 DEF Dispatch, Halt, DropTerminated, DispatchIdle, DispatchNobody, DispatchUser,
                LoadBlocks, LoadFatal, RunsIdle
  <2> QED
    BY <1>1, <2>1, <2>2, <2>3
<1>7. CASE HandleFlag
  <2>1. CASE HandleSleep
    BY <1>1, <2>1, CurrentType DEF HandleSleep, TypeOK
  <2>2. CASE HandlePreemption \/ HandleTerminated \/ HandleLockWait \/ HandleEventWait
             \/ HandleExpired \/ HandleBlocked
    BY <1>1, <2>2 DEF HandlePreemption, HandleTerminated, HandleLockWait, HandleEventWait,
                      HandleExpired, HandleBlocked, HandleWaiting
  <2> QED
    BY <1>7, <2>1, <2>2 DEF HandleFlag
<1>8. CASE (\E p \in Users : LoadProcess(p)) \/ Stopped \/ UNCHANGED vars
  BY <1>1, <1>8 DEF LoadProcess, Stopped, vars
<1> QED
  BY <1>1, <1>2, <1>3, <1>4, <1>5, <1>6, <1>7, <1>8 DEF Next, Cycle

LEMMA SleepsUpToStep ==
    ASSUME NEW b \in Nat \ {0}, \A d \in Durations : d <= b,
           TypeOK, TypeOK', SleepsUpTo(b), [Next]_vars
    PROVE  (SleepsUpTo(b))'
<1>1. sleepDuration' <= b
  BY SleepSteps DEF SleepsUpTo
<1>2. ASSUME NEW p \in Procs PROVE sleepCounter'[p] <= b
  <2>1. sleepCounter'[p] \in Nat /\ sleepCounter[p] \in Nat
    BY DEF TypeOK
  <2>2. sleepCounter'[p] <= sleepCounter[p] \/ sleepCounter'[p] = sleepDuration
    BY SleepSteps
  <2> QED
    BY <2>1, <2>2 DEF SleepsUpTo
<1>3. idleQuantum' <= b
  BY SleepSteps DEF SleepsUpTo
<1> QED
  BY <1>1, <1>2, <1>3 DEF SleepsUpTo

LEMMA SleepsBoundedStep ==
    ASSUME TypeOK, TypeOK', SleepsBounded, [Next]_vars
    PROVE  SleepsBounded'
BY LongestIdleQuantum, SleepsUpToStep DEF SleepsBounded

\* Every instruction that does not crash counts a cycle.
LEMMA InstructionCounts ==
    ASSUME NEW p \in Procs, Computes(p) \/ Schedules(p) \/ Synchronizes(p) \/ Terminates(p),
           pc' # "crashed"
    PROVE  /\ clockCycles' = [clockCycles EXCEPT ![p] = NextCycle(p)]
           /\ UNCHANGED idleQuantum
<1> USE DEF unchangedByCpu
<1>1. CASE Computes(p)
  BY <1>1 DEF Computes, Step, Fault, MemoryBlock, MemoryFatal, WritePidReg, Executes, Fetches
<1>2. CASE Schedules(p)
  BY <1>2 DEF Schedules, Sleep, SetPriority, Executes, Fetches
<1>3. CASE Synchronizes(p)
  BY <1>3 DEF Synchronizes, AcquireLock, WaitForLock, ReleaseLock, SignalEvent, WaitEvent,
              Executes, Fetches
<1>4. CASE Terminates(p)
  BY <1>4 DEF Terminates, Exit, NobodyToKill, TerminateProcess, TerminateProcessThrows, Kills,
              Executes, Fetches
<1> QED
  BY <1>1, <1>2, <1>3, <1>4

\* It raises a flag if it was the last of the quantum, and the idle process's
\* instructions raise no other flag that would keep the expiry down.
LEMMA InstructionNotices ==
    ASSUME NEW p \in Procs, Computes(p) \/ Schedules(p) \/ Synchronizes(p) \/ Terminates(p),
           pc' = "callback", clockCycles'[p] >= TimeQuantum(p)
    PROVE  /\ flags' # {}
           /\ p = Idle => flags' \cap {"expired", "terminated"} # {}
<1>1. ASSUME NEW raised, Completes(p, raised)
      PROVE  flags' \cap {"expired", "terminated"} # {}
  BY <1>1 DEF Completes
<1>2. ASSUME NEW op, NEW arg, NEW f, NEW before, Returns(p, op, arg, before \cup {f})
      PROVE  flags' # {}
  BY <1>2 DEF Returns
<1>3. \A op, arg : Executes(p, op, arg) /\ op # "step" => p # Idle
  BY DEF Executes
<1>4. CASE Computes(p)
  <2>1. CASE Step(p) \/ \E v \in Targets : WritePidReg(p, v)
    BY <1>1, <2>1 DEF Step, WritePidReg
  <2>2. CASE Fault(p)
    BY <1>2, <2>2 DEF Fault
  <2>3. CASE MemoryBlock(p) \/ MemoryFatal(p)
    BY <2>3 DEF MemoryBlock, MemoryFatal
  <2> QED
    BY <1>4, <2>1, <2>2, <2>3 DEF Computes
<1>5. CASE Schedules(p)
  <2>1. ASSUME NEW v \in PrioArgs, SetPriority(p, v)
        PROVE  flags' \cap {"expired", "terminated"} # {}
    BY <1>1, <2>1 DEF SetPriority
  <2>2. ASSUME NEW d \in Durations, Sleep(p, d)
        PROVE  flags' # {} /\ p # Idle
    BY <1>3, <2>2 DEF Sleep
  <2> QED
    BY <1>5, <2>1, <2>2 DEF Schedules
<1>6. CASE Synchronizes(p)
  <2>1. ASSUME NEW l \in LockIds, AcquireLock(p, l) \/ ReleaseLock(p, l)
        PROVE  flags' \cap {"expired", "terminated"} # {}
    BY <1>1, <2>1 DEF AcquireLock, ReleaseLock
  <2>2. ASSUME NEW l \in LockIds, WaitForLock(p, l)
        PROVE  flags' # {} /\ p # Idle
    BY <1>2, <1>3, <2>2 DEF WaitForLock
  <2>3. ASSUME NEW e \in EventIds, SignalEvent(p, e)
        PROVE  flags' \cap {"expired", "terminated"} # {}
    BY <1>1, <2>3 DEF SignalEvent
  <2>4. ASSUME NEW e \in EventIds, WaitEvent(p, e)
        PROVE  flags' # {} /\ p # Idle
    BY <1>1, <1>2, <1>3, <2>4 DEF WaitEvent
  <2> QED
    BY <1>6, <2>1, <2>2, <2>3, <2>4 DEF Synchronizes
<1>7. CASE Terminates(p)
  <2>1. ~Exit(p)
    BY DEF Exit
  <2>2. ASSUME NEW t \in Targets, NobodyToKill(p, t) \/ TerminateProcess(p, t)
        PROVE  flags' \cap {"expired", "terminated"} # {}
    BY <1>1, <2>2 DEF NobodyToKill, TerminateProcess
  <2>3. ASSUME NEW t \in Targets, TerminateProcessThrows(p, t)
        PROVE  flags' # {} /\ p # Idle
    BY <1>2, <1>3, <2>3 DEF TerminateProcessThrows, Kills
  <2> QED
    BY <1>7, <2>1, <2>2, <2>3 DEF Terminates
<1> QED
  BY <1>4, <1>5, <1>6, <1>7

\* What the other steps of a turn leave alone.
LEMMA RestOfTurn ==
    ASSUME \/ NoRunningProcess \/ ReleaseHeldLock \/ FinishExit \/ AddProcess
           \/ Callback \/ WakeUp \/ NextCycleOfRun
    PROVE  UNCHANGED <<clockCycles, idleQuantum, runningProcess, processList>> /\ flags \subseteq flags'
BY DEF unchangedByCpu, pcbVars, NoRunningProcess, ReleaseHeldLock, FinishExit, AddProcess, Callback,
       WakeUp, NextCycleOfRun

\* Once an instruction is done, some of the quantum is left or a flag is up.
QuantumNoticed == pc \in {"callback", "cycleEnd"} /\ flags = {} => CyclesLeft > 0

LEMMA QuantumNoticedStep ==
    ASSUME TypeOK, TypeOK', SleepsBounded, AddedInTime, QuantumNoticed, [Next]_vars
    PROVE  QuantumNoticed'
<1> SUFFICES ASSUME pc' \in {"callback", "cycleEnd"}, flags' = {}
             PROVE  CyclesLeft' > 0
  BY DEF QuantumNoticed
<1> USE DEF CyclesLeft, Current, TimeQuantum
<1>1. ASSUME NEW p \in Procs, Computes(p) \/ Schedules(p) \/ Synchronizes(p) \/ Terminates(p)
      PROVE  CyclesLeft' > 0
  <2>1. pc' = "callback" /\ runningProcess' = p
    BY <1>1, InstructionRuns
  <2>2. ~(clockCycles'[p] >= TimeQuantum(p)) /\ UNCHANGED idleQuantum
    BY <1>1, <2>1, InstructionNotices, InstructionCounts
  <2>3. p # NoProc /\ clockCycles'[p] \in Nat /\ TimeQuantum(p) \in Nat
    BY ProcsFacts, OperandAssumption DEF TypeOK
  <2> QED
    BY <2>1, <2>2, <2>3
<1>2. CASE NoRunningProcess \/ FinishExit
  BY <1>2 DEF NoRunningProcess, FinishExit
<1>3. CASE ReleaseHeldLock
  BY <1>3 DEF ReleaseHeldLock
<1>4. CASE AddProcess \/ Callback \/ WakeUp
  <2>1. pc \in {"callback", "cycleEnd"}
    BY <1>4 DEF AddProcess, Callback, WakeUp, AddedInTime
  <2> QED
    BY <1>4, <2>1, RestOfTurn DEF QuantumNoticed
<1>5. CASE NextCycleOfRun
  BY <1>5 DEF NextCycleOfRun
<1>6. CASE Dispatch
  BY <1>6 DEF Dispatch, Halt, DropTerminated, DispatchIdle, DispatchNobody, DispatchUser, LoadBlocks,
              LoadFatal, Dispatches, RunsIdle, EntersRun
<1>7. CASE HandleFlag
  BY <1>7, HandleFlagRuns
<1>8. CASE \E p \in Users : LoadProcess(p)
  BY <1>8 DEF LoadProcess
<1>9. CASE Stopped \/ UNCHANGED vars
  BY <1>9 DEF Stopped, vars, pcbVars, QuantumNoticed
<1> QED
  BY <1>1, <1>2, <1>3, <1>4, <1>5, <1>6, <1>7, <1>8, <1>9 DEF Next, Cycle

LEMMA CyclesLeftType ==
    /\ TypeOK => CyclesLeft \in Int
    /\ TypeOK' => CyclesLeft' \in Int
<1>1. ASSUME NEW r \in Procs \cup {NoProc}, NEW q \in Nat, NEW c \in [Procs -> Nat],
             NEW p, p = IF r = NoProc THEN Idle ELSE r
      PROVE  (IF p = Idle THEN q ELSE Quantum) - c[p] \in Int
  <2>1. p \in Procs
    BY <1>1, ProcsFacts
  <2>2. c[p] \in Nat /\ (IF p = Idle THEN q ELSE Quantum) \in Nat
    BY <2>1, OperandAssumption
  <2> QED
    BY <2>2
<1> QED
  BY <1>1, Zenon DEF TypeOK, CyclesLeft, Current, TimeQuantum

\* Finitely many are served at each stage.
LEMMA ToServeType ==
    ASSUME TypeOK
    PROVE  /\ IsFiniteSet(releasing) /\ IsFiniteSet(waking)
           /\ Cardinality(releasing) \in Nat /\ Cardinality(waking) \in Nat /\ Len(toReady) \in Nat
<1>1. IsFiniteSet(1..10) /\ IsFiniteSet(1..N) /\ IsFiniteSet({Idle})
  <2>1. 1 \in Int /\ 10 \in Int /\ N \in Int
    BY NAssumption
  <2> QED
    BY <2>1, FS_Interval, FS_Singleton, Zenon
<1>2. IsFiniteSet(Procs)
  BY <1>1, FS_Union, Zenon DEF Procs, Users
<1>3. IsFiniteSet(LockIds)
  BY <1>1, FS_Subset, OperandAssumption
<1>4. IsFiniteSet(releasing) /\ IsFiniteSet(waking)
  BY <1>2, <1>3, FS_Subset DEF TypeOK
<1> QED
  BY <1>4, FS_CardinalityType DEF TypeOK

\* The instruction takes a cycle, and the turn gets on.
LEMMA InstructionAdvances ==
    ASSUME TypeOK, TypeOK', SleepsBounded, NEW p \in Procs,
           Computes(p) \/ Schedules(p) \/ Synchronizes(p) \/ Terminates(p), InRun'
    PROVE  TurnsLeft' <= TurnsLeft /\ StagesLeft' < StagesLeft
<1>1. /\ pc = "execute" /\ runningProcess = p /\ runningProcess' = p
      /\ pc' \in {"release", "callback"}
  BY InstructionRuns DEF InRun
<1>2. Current = p /\ Current' = p
  BY <1>1, ProcsFacts DEF Current
<1>3. StagesLeft = 3 /\ StagesLeft' \in {1, 2}
  BY <1>1 DEF StagesLeft
<1>4. clockCycles' = [clockCycles EXCEPT ![p] = NextCycle(p)] /\ UNCHANGED idleQuantum
  BY <1>1, InstructionCounts
<1>5. /\ TimeQuantum(p) \in Nat /\ (TimeQuantum(p))' = TimeQuantum(p)
      /\ clockCycles[p] \in Nat /\ clockCycles'[p] = NextCycle(p)
  BY <1>4, OperandAssumption DEF TypeOK, TimeQuantum
<1>6. ASSUME ~(clockCycles'[p] >= TimeQuantum(p))
      PROVE  NextCycle(p) = clockCycles[p] + 1 /\ NextCycle(p) < TimeQuantum(p)
  BY <1>5, <1>6, LongestIdleQuantum, OperandAssumption DEF NextCycle, TimeQuantum, SleepsBounded, SleepsUpTo
<1>7. TurnsLeft \in Nat
  BY <1>1, <1>2, <1>5 DEF TurnsLeft, CyclesLeft
<1>8. CASE pc' = "release" \/ flags' # {}
  BY <1>1, <1>3, <1>7, <1>8 DEF TurnsLeft
<1>9. CASE pc' = "callback" /\ flags' = {}
  <2>1. NextCycle(p) = clockCycles[p] + 1 /\ NextCycle(p) < TimeQuantum(p)
    BY <1>6, <1>9, InstructionNotices
  <2>2. CyclesLeft = TimeQuantum(p) - clockCycles[p]
        /\ CyclesLeft' = TimeQuantum(p) - (clockCycles[p] + 1)
    BY <1>2, <1>5, <2>1 DEF CyclesLeft
  <2>3. TurnsLeft' = CyclesLeft' /\ TurnsLeft = CyclesLeft - 1
    BY <1>1, <1>5, <1>9, <2>1, <2>2 DEF TurnsLeft
  <2> QED
    BY <1>3, <1>5, <2>2, <2>3
<1> QED
  BY <1>1, <1>8, <1>9

\* A stage serves one process, or the turn gets on, or the next turn begins.
LEMMA TurnAdvances ==
    ASSUME TypeOK, TypeOK', AddedInTime, QuantumNoticed,
           \/ NoRunningProcess \/ ReleaseHeldLock \/ FinishExit \/ AddProcess
           \/ Callback \/ WakeUp \/ NextCycleOfRun
    PROVE  \/ TurnsLeft' < TurnsLeft
           \/ /\ TurnsLeft' <= TurnsLeft
              /\ \/ StagesLeft' < StagesLeft
                 \/ StagesLeft' = StagesLeft /\ ToServe' < ToServe
<1>1. /\ CyclesLeft \in Int /\ CyclesLeft' = CyclesLeft
      /\ flags \subseteq flags'
  <2>1. Current \in Procs /\ UNCHANGED Current
    BY RestOfTurn, CurrentType DEF Current
  <2> QED
    BY <2>1, RestOfTurn, CyclesLeftType DEF CyclesLeft, TimeQuantum
<1>2. pc \in {"callback", "cycleEnd"} => TurnsLeft >= 0
  BY <1>1 DEF QuantumNoticed, TurnsLeft
<1>3. CASE NoRunningProcess
  <2>1. pc = "execute" /\ pc' = "callback" /\ flags' # {}
    BY <1>3 DEF NoRunningProcess
  <2> QED
    BY <1>1, <2>1 DEF TurnsLeft, StagesLeft
<1>4. CASE FinishExit
  <2>1. pc = "release" /\ pc' = "callback" /\ flags' # {}
    BY <1>4 DEF FinishExit
  <2> QED
    BY <2>1 DEF TurnsLeft, StagesLeft
<1>5. CASE ReleaseHeldLock
  <2>1. PICK l \in releasing : releasing' = releasing \ {l}
    BY <1>5 DEF ReleaseHeldLock
  <2>2. Cardinality(releasing') = Cardinality(releasing) - 1
    BY <2>1, ToServeType, FS_RemoveElement
  <2>3. pc = "release" /\ pc' = "release" /\ UNCHANGED <<toReady, waking>>
    BY <1>5 DEF ReleaseHeldLock, eventVars, unchangedByCpu
  <2> QED
    BY <2>2, <2>3, ToServeType DEF TurnsLeft, StagesLeft, ToServe
<1>6. CASE AddProcess
  <2>1. /\ pc = "callback" /\ UNCHANGED <<pc, flags, releasing, waking>>
        /\ toReady # <<>> /\ toReady' = Tail(toReady)
    BY <1>6 DEF AddProcess, AddedInTime, lockVars
  <2>2. Len(toReady') = Len(toReady) - 1
    BY <2>1 DEF TypeOK
  <2>3. ToServe' < ToServe
    BY <2>1, <2>2, ToServeType DEF ToServe
  <2> QED
    BY <1>1, <2>1, <2>3 DEF TurnsLeft, StagesLeft
<1>7. CASE Callback
  <2>1. pc = "callback" /\ pc' = "cycleEnd" /\ UNCHANGED flags
    BY <1>7 DEF Callback
  <2> QED
    BY <1>1, <2>1 DEF TurnsLeft, StagesLeft
<1>8. CASE WakeUp
  <2>1. PICK p \in waking : waking' = waking \ {p}
    BY <1>8 DEF WakeUp
  <2>2. Cardinality(waking') = Cardinality(waking) - 1
    BY <2>1, ToServeType, FS_RemoveElement
  <2>3. pc = "cycleEnd" /\ UNCHANGED <<pc, toReady, releasing>>
    BY <1>8 DEF WakeUp, lockVars, eventVars
  <2>4. ToServe' < ToServe
    BY <2>2, <2>3, ToServeType DEF ToServe
  <2> QED
    BY <1>1, <1>2, <2>3, <2>4 DEF TurnsLeft, StagesLeft
<1>9. CASE NextCycleOfRun
  <2>1. pc = "cycleEnd" /\ pc' = "execute" /\ flags = {}
    BY <1>9 DEF NextCycleOfRun
  <2> QED
    BY <1>1, <2>1 DEF TurnsLeft, QuantumNoticed
<1> QED
  BY <1>3, <1>4, <1>5, <1>6, <1>7, <1>8, <1>9

(***************************************************************************)
(* Each step of run() takes it nearer to its end, whatever the programs    *)
(* do.  TurnsLeft, StagesLeft and ToServe are natural numbers and go down  *)
(* lexicographically, so run() makes finitely many steps: this is the      *)
(* argument why no program keeps the processor for ever.                   *)
(***************************************************************************)
THEOREM RunComesToItsEnd == Spec => RunAdvances
<1> DEFINE Inv == SleepsBounded /\ AddedInTime /\ QuantumNoticed
           Advances == \/ TurnsLeft' < TurnsLeft
                       \/ /\ TurnsLeft' = TurnsLeft
                          /\ \/ StagesLeft' < StagesLeft
                             \/ StagesLeft' = StagesLeft /\ ToServe' < ToServe
<1>1. Init => Inv
  BY LongestIdleQuantum DEF Init, SleepsBounded, SleepsUpTo, AddedInTime, QuantumNoticed
<1>2. TypeOK /\ TypeOK' /\ Inv /\ [Next]_vars => Inv'
  BY SleepsBoundedStep, AddedInTimeStep, QuantumNoticedStep
<1>3. TypeOK /\ Inv => (InRun => TurnsLeft >= 0)
  <2> SUFFICES ASSUME TypeOK, Inv, InRun PROVE TurnsLeft >= 0
    OBVIOUS
  <2>1. CyclesLeft \in Int
    BY CyclesLeftType
  <2> QED
    BY <2>1 DEF TurnsLeft, QuantumNoticed, InRun
<1>4. ASSUME TypeOK, TypeOK', Inv, Next, InRun, InRun'
      PROVE  Advances \/ UNCHANGED vars
  <2>1. TurnsLeft \in Int /\ TurnsLeft' \in Int
    BY <1>4, CyclesLeftType DEF TurnsLeft
  <2>2. CASE Cycle
    BY <1>4, <2>1, <2>2, InstructionAdvances, TurnAdvances DEF Cycle
  <2>3. CASE Dispatch \/ HandleFlag \/ (\E p \in Users : LoadProcess(p)) \/ Stopped
    BY <1>4, <2>3, DispatchRuns, HandleFlagRuns DEF InRun, LoadProcess, Stopped
  <2> QED
    BY <1>4, <2>2, <2>3 DEF Next
<1>5. TypeOK /\ TypeOK' /\ Inv /\ [Next]_vars
      => [InRun /\ InRun' => TurnsLeft >= 0 /\ Advances]_vars
  BY <1>3, <1>4
<1> QED
  BY <1>1, <1>2, <1>5, TypeCorrect, PTL DEF Spec, RunAdvances

-----------------------------------------------------------------------------
(***************************************************************************)
(* The idle process ends in time.  Its quantum is the shortest sleep when  *)
(* it starts, its cycles may be left over from an earlier turn, and from   *)
(* then on its own counter and those of the sleepers move together.        *)
(***************************************************************************)
IdleRuns == InRun /\ runningProcess = Idle

\* The cycle the running instruction has counted and the callback has not.
Uncounted == IF pc = "callback" THEN 1 ELSE 0

IdleQuantumCovered ==
    IdleRuns => \A p \in processList \ {Idle} :
                    state[p] = "Sleeping" /\ sleepCounter[p] > 0
                    => idleQuantum + Uncounted <= clockCycles[Idle] + sleepCounter[p]

IdleAwake == IdleRuns => state[Idle] # "Sleeping"

IdleQuantumOver == IdleRuns /\ pc = "cycleEnd" /\ waking # {} => idleQuantum <= clockCycles[Idle]

IdleExpires ==
    /\ pc \in {"callback", "cycleEnd"} /\ runningProcess = Idle /\ clockCycles[Idle] >= idleQuantum
       => flags \cap {"expired", "terminated"} # {}
    /\ pc = "release" => runningProcess # Idle

\* A sleep that fits an int stays positive in the conversion of minSleep.
ShortSleeps == \A d \in Durations : d < SignBit

SleepsShort == SleepsUpTo(SignBit - 1)

IdleInv == IdleQuantumCovered /\ IdleAwake /\ IdleQuantumOver /\ IdleExpires

\* Within run() nobody falls asleep, and only the callback counts sleeps.
LEMMA NobodyFallsAsleep ==
    ASSUME TypeOK, Cycle
    PROVE  /\ \A p \in Procs : state'[p] = "Sleeping" => state[p] = "Sleeping"
           /\ processList' \subseteq processList
           /\ UNCHANGED idleQuantum
           /\ Callback \/ UNCHANGED sleepCounter
<1> USE DEF pcbVars, unchangedByCpu
<1> DEFINE Sleepers == \A p \in Procs : state'[p] = "Sleeping" => state[p] = "Sleeping"
           Rest == /\ processList' \subseteq processList
                   /\ UNCHANGED <<idleQuantum, sleepCounter>>
<1>1. ASSUME NEW l \in LockIds, HandOver(l)
      PROVE  Sleepers
  BY <1>1 DEF HandOver, TypeOK
<1>2. ASSUME NEW plist, NEW t \in Procs,
             Unblocks(plist, Killed(t)) \/ UnblockThrows(plist, Killed(t))
      PROVE  Sleepers
  <2>1. \A p \in Procs : Killed(t)[p] = "Sleeping" => state[p] = "Sleeping"
    BY DEF TypeOK, Killed
  <2>2. Killed(t) \in [Procs -> States]
    BY KilledType
  <2> HIDE DEF Killed
  <2> QED
    BY <1>2, <2>1, <2>2 DEF Unblocks, UnblockThrows
<1>3. ASSUME NEW p \in Procs, Computes(p) \/ Schedules(p)
      PROVE  Sleepers /\ Rest
  BY <1>3 DEF Computes, Step, Fault, MemoryBlock, MemoryFatal, WritePidReg, Schedules, Sleep,
              SetPriority
<1>4. ASSUME NEW p \in Procs, Synchronizes(p)
      PROVE  Sleepers /\ Rest
  <2>1. Rest
    BY <1>4 DEF Synchronizes, AcquireLock, WaitForLock, ReleaseLock, SignalEvent, WaitEvent
  <2>2. ASSUME NEW l \in LockIds, AcquireLock(p, l) \/ WaitForLock(p, l) \/ ReleaseLock(p, l)
        PROVE  Sleepers
    BY <1>1, <2>2 DEF AcquireLock, WaitForLock, ReleaseLock, TypeOK
  <2>3. ASSUME NEW e \in EventIds, SignalEvent(p, e) \/ WaitEvent(p, e)
        PROVE  Sleepers
    BY <2>3 DEF SignalEvent, WaitEvent, TypeOK
  <2> QED
    BY <1>4, <2>1, <2>2, <2>3 DEF Synchronizes
<1>5. ASSUME NEW p \in Procs, Terminates(p)
      PROVE  Sleepers /\ Rest
  <2>1. Rest
    BY <1>5 DEF Terminates, Exit, NobodyToKill, TerminateProcess, TerminateProcessThrows, Kills
  <2>2. CASE Exit(p) \/ \E t \in Targets : NobodyToKill(p, t)
    BY <2>2 DEF Exit, NobodyToKill
  <2>3. ASSUME NEW t \in Targets, TerminateProcess(p, t) \/ TerminateProcessThrows(p, t)
        PROVE  Sleepers
    BY <1>2, <2>3, OperandAssumption DEF TerminateProcess, TerminateProcessThrows
  <2> QED
    BY <1>5, <2>1, <2>2, <2>3 DEF Terminates
<1>6. CASE ReleaseHeldLock
  BY <1>1, <1>6 DEF ReleaseHeldLock, TypeOK
<1>7. CASE WakeUp
  BY <1>7 DEF WakeUp, TypeOK
<1>8. CASE Callback
  BY <1>8 DEF Callback
<1>9. CASE NoRunningProcess \/ FinishExit \/ AddProcess \/ NextCycleOfRun
  BY <1>9 DEF NoRunningProcess, FinishExit, AddProcess, NextCycleOfRun
<1> QED
  BY <1>3, <1>4, <1>5, <1>6, <1>7, <1>8, <1>9 DEF Cycle

\* The idle process's instruction.
LEMMA IdleInstruction ==
    ASSUME TypeOK, TypeOK', SleepsBounded, IdleInv, NEW p \in Procs,
           Computes(p) \/ Schedules(p) \/ Synchronizes(p) \/ Terminates(p), InRun'
    PROVE  IdleInv'
<1>1. /\ pc = "execute" /\ runningProcess = p /\ runningProcess' = p
      /\ pc' \in {"release", "callback"}
  BY InstructionRuns DEF InRun
<1>2. Cycle
  BY DEF Cycle
<1>3. pc' = "release" => p # Idle
  BY <1>1 DEF Computes, Step, Fault, MemoryBlock, MemoryFatal, WritePidReg, Schedules, Sleep,
     SetPriority, Synchronizes, AcquireLock, WaitForLock, ReleaseLock, SignalEvent, WaitEvent,
     Terminates, Exit, NobodyToKill, TerminateProcess, TerminateProcessThrows, Kills, Executes,
     Completes, Returns
<1>4. CASE p # Idle
  BY <1>1, <1>4 DEF IdleInv, IdleRuns, IdleQuantumCovered, IdleAwake, IdleQuantumOver, IdleExpires
<1>5. CASE p = Idle
  <2>1. pc' = "callback" /\ IdleRuns
    BY <1>1, <1>3, <1>5 DEF IdleRuns, InRun
  <2>2. clockCycles'[Idle] = NextCycle(Idle) /\ UNCHANGED <<idleQuantum, sleepCounter>>
    BY <1>1, <1>2, <1>5, InstructionCounts, NobodyFallsAsleep DEF TypeOK, Callback
  <2>3. IdleExpires'
    BY <1>5, <2>1, <2>2, InstructionNotices DEF IdleExpires, TimeQuantum
  <2>4. IdleAwake'
    BY <1>2, <2>1, NobodyFallsAsleep, ProcsFacts DEF IdleInv, IdleAwake
  <2>5. ASSUME NEW q \in processList' \ {Idle}, state'[q] = "Sleeping", sleepCounter'[q] > 0
        PROVE  idleQuantum + 1 <= clockCycles'[Idle] + sleepCounter[q]
    <3>1. q \in processList \ {Idle} /\ q \in Procs /\ state[q] = "Sleeping" /\ sleepCounter[q] > 0
      BY <1>2, <2>2, <2>5, NobodyFallsAsleep DEF TypeOK
    <3>2. idleQuantum + 0 <= clockCycles[Idle] + sleepCounter[q]
      BY <1>1, <2>1, <3>1 DEF IdleInv, IdleQuantumCovered, Uncounted
    <3>3. sleepCounter[q] \in Nat /\ idleQuantum \in Nat /\ clockCycles[Idle] \in Nat
      BY <3>1, ProcsFacts DEF TypeOK
    <3> QED
      BY <2>2, <3>1, <3>2, <3>3, LongestIdleQuantum DEF NextCycle, SleepsBounded, SleepsUpTo
  <2>6. IdleQuantumCovered'
    BY <2>1, <2>2, <2>5 DEF IdleQuantumCovered, Uncounted
  <2> QED
    BY <2>1, <2>3, <2>4, <2>6 DEF IdleInv, IdleQuantumOver
<1> QED
  BY <1>4, <1>5

\* The rest of the idle process's turn.
LEMMA IdleTurn ==
    ASSUME TypeOK, TypeOK', AddedInTime, IdleInv,
           \/ NoRunningProcess \/ ReleaseHeldLock \/ FinishExit \/ AddProcess
           \/ Callback \/ WakeUp \/ NextCycleOfRun
    PROVE  IdleInv'
<1> USE DEF IdleRuns, InRun
<1>1. /\ UNCHANGED <<clockCycles, idleQuantum, runningProcess, processList>>
      /\ flags \subseteq flags'
  BY RestOfTurn
<1>2. /\ \A p \in Procs : state'[p] = "Sleeping" => state[p] = "Sleeping"
      /\ Callback \/ UNCHANGED sleepCounter
  BY NobodyFallsAsleep DEF Cycle
<1>3. processList \subseteq Procs /\ Idle \in Procs
  BY ProcsFacts DEF TypeOK
<1>4. CASE runningProcess # Idle
  BY <1>1, <1>4 DEF IdleInv, IdleQuantumCovered, IdleAwake, IdleQuantumOver, IdleExpires
<1>5. CASE runningProcess = Idle
  <2>1. IdleRuns
    BY <1>5, CycleRuns DEF Cycle
  <2>2. IdleAwake'
    BY <1>2, <1>3, <2>1 DEF IdleInv, IdleAwake
  <2>3. ~NoRunningProcess /\ ~ReleaseHeldLock /\ ~FinishExit
    BY <1>3, <1>5, ProcsFacts DEF IdleInv, IdleExpires, NoRunningProcess, ReleaseHeldLock, FinishExit
  <2>4. CASE AddProcess \/ WakeUp
    <3>1. UNCHANGED pc /\ waking' \subseteq waking /\ UNCHANGED sleepCounter
      BY <2>4 DEF AddProcess, WakeUp, pcbVars
    <3>2. pc \in {"callback", "cycleEnd"}
      BY <2>4 DEF AddProcess, WakeUp, AddedInTime
    <3>3. IdleQuantumCovered'
      BY <1>1, <1>2, <1>3, <2>1, <3>1 DEF IdleInv, IdleQuantumCovered, Uncounted
    <3>4. IdleQuantumOver' /\ IdleExpires'
      BY <1>1, <3>1, <3>2 DEF IdleInv, IdleQuantumOver, IdleExpires
    <3> QED
      BY <2>2, <3>3, <3>4 DEF IdleInv
  <2>5. CASE Callback
    <3>1. /\ pc = "callback" /\ pc' = "cycleEnd" /\ UNCHANGED <<flags, state>>
          /\ \A p \in Procs : sleepCounter'[p] = IF p \in Ticking THEN sleepCounter[p] - 1
                                                               ELSE sleepCounter[p]
          /\ waking' = {p \in Ticking : sleepCounter[p] = 1}
      BY <2>5 DEF Callback
    <3>2. idleQuantum \in Nat /\ clockCycles[Idle] \in Nat /\ \A p \in Procs : sleepCounter[p] \in Nat
      BY <1>3 DEF TypeOK
    <3>3. \A p \in Ticking : /\ p \in processList \ {Idle} /\ state[p] = "Sleeping"
                             /\ sleepCounter[p] > 0
      BY <2>1 DEF Ticking, IdleInv, IdleAwake
    <3>4. \A p \in Ticking : idleQuantum + 1 <= clockCycles[Idle] + sleepCounter[p]
      BY <2>1, <3>1, <3>3 DEF IdleInv, IdleQuantumCovered, Uncounted
    <3>5. IdleQuantumOver'
      <4> SUFFICES ASSUME waking' # {} PROVE idleQuantum <= clockCycles[Idle]
        BY <1>1 DEF IdleQuantumOver
      <4>1. PICK p \in Ticking : sleepCounter[p] = 1
        BY <3>1
      <4> QED
        BY <3>2, <3>4, <4>1
    <3>6. IdleQuantumCovered'
      <4> SUFFICES ASSUME NEW p \in processList \ {Idle}, state[p] = "Sleeping", sleepCounter'[p] > 0
                   PROVE  idleQuantum <= clockCycles[Idle] + sleepCounter'[p]
        BY <1>1, <3>1, <3>2 DEF IdleQuantumCovered, Uncounted
      <4>1. p \in Procs /\ sleepCounter[p] \in Nat
        BY <1>3, <3>2
      <4>2. p \in Ticking
        BY <3>1, <4>1 DEF Ticking
      <4> QED
        BY <3>1, <3>2, <3>4, <4>1, <4>2
    <3>7. IdleExpires'
      BY <1>1, <3>1 DEF IdleInv, IdleExpires
    <3> QED
      BY <2>2, <3>5, <3>6, <3>7 DEF IdleInv
  <2>6. CASE NextCycleOfRun
    <3>1. pc = "cycleEnd" /\ pc' = "execute" /\ UNCHANGED sleepCounter
      BY <2>6 DEF NextCycleOfRun, pcbVars
    <3>2. IdleQuantumCovered'
      BY <1>1, <1>2, <1>3, <2>1, <3>1 DEF IdleInv, IdleQuantumCovered, Uncounted
    <3> QED
      BY <2>2, <3>1, <3>2 DEF IdleInv, IdleQuantumOver, IdleExpires
  <2> QED
    BY <2>3, <2>4, <2>5, <2>6
<1> QED
  BY <1>4, <1>5

\* The idle process starts with the shortest sleep as its quantum.
LEMMA IdleStarts ==
    ASSUME TypeOK, TypeOK', SleepsShort, Dispatch
    PROVE  IdleInv'
<1>1. CASE ~(runningProcess' = Idle /\ pc' \in {"execute", "release", "callback", "cycleEnd"})
  BY <1>1 DEF IdleInv, IdleRuns, InRun, IdleQuantumCovered, IdleAwake, IdleQuantumOver, IdleExpires
<1>2. CASE runningProcess' = Idle /\ pc' \in {"execute", "release", "callback", "cycleEnd"}
  <2>1. Idle \notin Users /\ Idle # NoProc
    BY NAssumption, ProcsFacts DEF Users, Idle
  <2>2. DispatchIdle /\ SetsIdleQuantum /\ pc' = "execute"
    BY <1>2, <2>1 DEF Dispatch, Halt, DropTerminated, DispatchIdle, DispatchNobody, DispatchUser,
       LoadBlocks, LoadFatal, Dispatches, RunsIdle, EntersRun
  <2>3. /\ state' = [state EXCEPT ![Idle] = "Running"]
        /\ UNCHANGED <<clockCycles, sleepCounter, processList>>
    BY <2>2 DEF DispatchIdle
  <2>4. IdleAwake'
    BY <2>3, ProcsFacts DEF IdleAwake, TypeOK
  <2>5. ASSUME NEW p \in processList \ {Idle}, state'[p] = "Sleeping", sleepCounter[p] > 0
        PROVE  idleQuantum' <= clockCycles[Idle] + sleepCounter[p]
    <3>1. p \in Procs /\ state[p] = "Sleeping"
      BY <2>3, <2>5 DEF TypeOK
    <3>2. sleepCounter[p] \in SleepCounters
      BY <2>5, <3>1 DEF SleepCounters
    <3>3. idleQuantum' <= sleepCounter[p]
      <4>1. \A q \in Procs : sleepCounter[q] \in Nat /\ sleepCounter[q] < SignBit
        <5>1. SignBit \in Nat /\ \A q \in Procs : sleepCounter[q] \in Nat
          BY OperandAssumption DEF TypeOK
        <5>2. \A q \in Procs : sleepCounter[q] <= SignBit - 1
          BY DEF SleepsShort, SleepsUpTo
        <5> QED
          BY <5>1, <5>2
      <4>2. \A c \in SleepCounters : c \in Nat /\ c > 0 /\ AsInt(c) = c
        BY <4>1 DEF SleepCounters, AsInt, TypeOK
      <4> QED
        BY <2>2, <3>2, <4>2 DEF SetsIdleQuantum
    <3>4. sleepCounter[p] \in Nat /\ clockCycles[Idle] \in Nat /\ idleQuantum' \in Nat
      BY <3>1, ProcsFacts DEF TypeOK
    <3> QED
      BY <3>3, <3>4
  <2>6. IdleQuantumCovered'
    BY <2>2, <2>3, <2>5 DEF IdleQuantumCovered, Uncounted, TypeOK
  <2> QED
    BY <2>2, <2>4, <2>6 DEF IdleInv, IdleQuantumOver, IdleExpires
<1> QED
  BY <1>1, <1>2

LEMMA IdleInvStep ==
    ASSUME TypeOK, TypeOK', SleepsBounded, SleepsShort, AddedInTime, IdleInv, [Next]_vars
    PROVE  IdleInv'
<1>1. CASE ~InRun'
  BY <1>1 DEF IdleInv, IdleRuns, InRun, IdleQuantumCovered, IdleAwake, IdleQuantumOver, IdleExpires
<1>2. CASE InRun' /\ Cycle
  BY <1>2, IdleInstruction, IdleTurn DEF Cycle
<1>3. CASE HandleFlag \/ (\E p \in Users : LoadProcess(p)) \/ Stopped
  <2>1. pc' \notin {"execute", "release", "callback", "cycleEnd"}
    BY <1>3, HandleFlagRuns DEF LoadProcess, Stopped, vars
  <2> QED
    BY <1>1, <2>1 DEF InRun
<1>4. CASE UNCHANGED vars
  BY <1>4 DEF vars, pcbVars, IdleInv, IdleRuns, InRun, IdleQuantumCovered, IdleAwake,
     IdleQuantumOver, IdleExpires, Uncounted
<1> QED
  BY <1>1, <1>2, <1>3, <1>4, IdleStarts DEF Next

(***************************************************************************)
(* The idle process never makes a sleeper wait, whatever the programs do,  *)
(* as long as none sleeps 2^31 cycles or more (whose counter is negative   *)
(* in minSleep, so that the idle process runs on past the other sleepers): *)
(* in the cycle in which the callback finds a sleeper due, the idle        *)
(* process's quantum is over, even if it had cycles left over from a turn  *)
(* that a preemption or a stale flag cut short.                            *)
(***************************************************************************)
THEOREM IdleNeverOverstays == ShortSleeps => (Spec => []IdleEndsInTime)
<1> SUFFICES ASSUME ShortSleeps PROVE Spec => []IdleEndsInTime
  OBVIOUS
<1> DEFINE Inv == SleepsBounded /\ SleepsShort /\ AddedInTime /\ IdleInv
<1>1. Init => Inv
  BY LongestIdleQuantum, OperandAssumption DEF Init, SleepsBounded, SleepsShort, SleepsUpTo, AddedInTime, IdleInv, IdleRuns, InRun,
     IdleQuantumCovered, IdleAwake, IdleQuantumOver, IdleExpires
<1>2. TypeOK /\ TypeOK' /\ Inv /\ [Next]_vars => Inv'
  <2>1. SignBit - 1 \in Nat \ {0} /\ \A d \in Durations : d <= SignBit - 1
    BY OperandAssumption DEF ShortSleeps
  <2> QED
    BY <2>1, SleepsUpToStep, SleepsBoundedStep, AddedInTimeStep, IdleInvStep DEF SleepsShort
<1>3. TypeOK /\ Inv => IdleEndsInTime
  <2> SUFFICES ASSUME TypeOK, Inv, pc = "cycleEnd", runningProcess = Idle, waking # {}
               PROVE  flags \cap {"expired", "terminated"} # {}
    BY DEF IdleEndsInTime
  <2>1. idleQuantum <= clockCycles[Idle]
    BY DEF IdleInv, IdleQuantumOver, IdleRuns, InRun
  <2>2. clockCycles[Idle] >= idleQuantum
    BY <2>1, ProcsFacts DEF TypeOK
  <2> QED
    BY <2>2 DEF IdleInv, IdleExpires
<1> QED
  BY <1>1, <1>2, <1>3, TypeCorrect, PTL DEF Spec

=============================================================================
