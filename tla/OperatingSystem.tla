--------------------------- MODULE OperatingSystem ---------------------------
(***************************************************************************)
(* OperatingSystem::start: pick a process, load it if it was never loaded, *)
(* let CPU::run execute it until a request flag is up, handle that flag,   *)
(* and again.  With the instructions of Cpu.tla this is the whole kernel.  *)
(*                                                                         *)
(* pc is "boot" while main() loads the programs; "dispatch" at the top of  *)
(* start()'s loop; "execute" before an instruction; "release", "callback"  *)
(* and "cycleEnd" within one cycle of run(); "halted" when start() has     *)
(* returned; "crashed" after exit(1) or an exception nobody catches.       *)
(***************************************************************************)
EXTENDS Cpu

ProgramCounters == {"boot", "dispatch", "execute", "release", "callback",
                    "cycleEnd", "halted", "crashed"}

\* The constructor has queued the idle process.
Init ==
    /\ state          = [p \in Procs |-> "New"]
    /\ priority       = [p \in Procs |-> InitialPriority(p)]
    /\ clockCycles    = [p \in Procs |-> 0]
    /\ sleepCounter   = [p \in Procs |-> 0]
    /\ isLoaded       = [p \in Procs |-> p = Idle]
    /\ isBlocked      = [p \in Procs |-> FALSE]
    /\ redo           = [p \in Procs |-> NoInstr]
    /\ idleQuantum    = 1
    /\ readyQueue     = <<Idle>>
    /\ runningProcess = NoProc
    /\ pc             = "boot"
    /\ processList    = {Idle}
    /\ flags          = {}
    /\ sleepDuration  = 0
    /\ pidReg         = Idle
    /\ waking         = {}
    /\ releasing      = {}
    /\ locks          = [l \in LockIds |-> NoProc]
    /\ lockWaitQueues = [l \in LockIds |-> <<>>]
    /\ eventStates    = {}
    /\ eventWaitQueues = [e \in EventIds |-> <<>>]
    /\ toReady        = <<>>

\* main() loads the programs in command-line order.
LoadProcess(p) ==
    /\ pc = "boot"
    /\ Users \cap processList = 1..(p - 1)
    /\ processList' = processList \cup {p}
    /\ readyQueue' = Push(readyQueue, p, priority)
    /\ pc' = IF p = N THEN "dispatch" ELSE "boot"
    /\ UNCHANGED <<pcbVars, runningProcess, flags, sleepDuration, pidReg, waking,
                   lockVars, eventVars>>

-----------------------------------------------------------------------------
(***************************************************************************)
(* The top of the loop, up to cpu.run().                                   *)
(***************************************************************************)

OnlyIdleRemains == processList \subseteq {Idle}

\* Mutants of AllBlocked: one of the states is forgotten.
AllAsleep == \A p \in processList \ {Idle} : state[p] \in {"Sleeping", "Terminated"}
AllWaiting == \A p \in processList \ {Idle} : state[p] \in {"Waiting", "Terminated"}

\* No user process can run: what start() asks before it runs the idle process.
AllBlocked == \A p \in processList \ {Idle} :
                  state[p] \in {"Sleeping", "Waiting", "Terminated"}

SleepCounters == {sleepCounter[p] : p \in {q \in processList \ {Idle} :
                      state[q] = "Sleeping" /\ sleepCounter[q] > 0}}

\* static_cast<int>(p->sleepCounter)
AsInt(c) == IF c < SignBit THEN c ELSE c - 2 * SignBit

\* Mutant of SetsIdleQuantum: the longest sleep sets the quantum.
LongestSleep ==
    \/ SleepCounters \subseteq {SignBit - 1} /\ idleQuantum' = 1
    \/ \E m \in SleepCounters \ {SignBit - 1} :
          /\ \A k \in SleepCounters : AsInt(k) <= AsInt(m)
          /\ idleQuantum' = m

\* The idle process runs until the first sleeper is due: minSleep, or 1 if
\* that is INT32_MAX, the value it starts from.
SetsIdleQuantum ==
    \/ SleepCounters \subseteq {SignBit - 1} /\ idleQuantum' = 1
    \/ \E m \in SleepCounters \ {SignBit - 1} :
          /\ \A k \in SleepCounters : AsInt(m) <= AsInt(k)
          /\ idleQuantum' = m

\* Mutant of EntersRun: register 12 is not set.
KeepsRegister(p) ==
    /\ flags' = flags \ {"expired"}
    /\ pc' = "execute"
    /\ UNCHANGED pidReg

\* restoreState, setRegister(12, pid) and the first line of run().
EntersRun(p) ==
    /\ pidReg' = p
    /\ flags' = flags \ {"expired"}
    /\ pc' = "execute"

Halt ==
    /\ pc = "dispatch"
    /\ OnlyIdleRemains
    /\ pc' = "halted"
    /\ UNCHANGED <<pcbVars, readyQueue, runningProcess, processList, flags,
                   sleepDuration, pidReg, waking, lockVars, eventVars>>

\* getNextProcess discards terminated processes it finds at the top.
Runnable(p) == state[p] # "Terminated"

DropTerminated ==
    /\ pc = "dispatch"
    /\ ~OnlyIdleRemains
    /\ readyQueue # <<>>
    /\ ~Runnable(Top(readyQueue))
    /\ readyQueue' = Pop(readyQueue, priority)
    /\ UNCHANGED <<pcbVars, runningProcess, pc, processList, flags,
                   sleepDuration, pidReg, waking, lockVars, eventVars>>

\* getNextProcess returns p.
Dispatches(p) ==
    /\ pc = "dispatch"
    /\ ~OnlyIdleRemains
    /\ readyQueue # <<>>
    /\ p = Top(readyQueue)
    /\ Runnable(p)
    /\ readyQueue' = Pop(readyQueue, priority)
    /\ runningProcess' = p

\* A load that fails with an illegal access is ignored: the process runs
\* without being loaded.
DispatchUser(p) ==
    /\ Dispatches(p)
    /\ state' = [state EXCEPT ![p] = "Running"]
    /\ \/ isLoaded' = [isLoaded EXCEPT ![p] = TRUE]
       \/ "fault" \in Opcodes /\ UNCHANGED isLoaded
    /\ EntersRun(p)
    /\ UNCHANGED <<priority, clockCycles, sleepCounter, isBlocked, redo,
                   idleQuantum, processList, sleepDuration, waking, lockVars,
                   eventVars>>

LoadBlocks(p) ==
    /\ Dispatches(p)
    /\ ~isLoaded[p]
    /\ MayBlock(processList, [state EXCEPT ![p] = "Running"])
    /\ state' = [state EXCEPT ![p] = "Waiting"]
    /\ isBlocked' = [isBlocked EXCEPT ![p] = TRUE]
    /\ UNCHANGED <<priority, clockCycles, sleepCounter, isLoaded, redo,
                   idleQuantum, pc, processList, flags, sleepDuration, pidReg,
                   waking, lockVars, eventVars>>

LoadFatal(p) ==
    /\ Dispatches(p)
    /\ ~isLoaded[p]
    /\ "fatal" \in Opcodes
    /\ state' = [state EXCEPT ![p] = "Running"]
    /\ pc' = "crashed"
    /\ UNCHANGED <<priority, clockCycles, sleepCounter, isLoaded, isBlocked, redo,
                   idleQuantum, processList, flags, sleepDuration, pidReg, waking,
                   lockVars, eventVars>>

\* The idle process is next, or nothing is: run idle or give up.
RunsIdle ==
    \/ /\ AllBlocked
       /\ SetsIdleQuantum
       /\ EntersRun(Idle)
    \/ /\ ~AllBlocked
       /\ pc' = "halted"
       /\ UNCHANGED <<idleQuantum, flags, pidReg>>

DispatchIdle ==
    /\ Dispatches(Idle)
    /\ state' = [state EXCEPT ![Idle] = "Running"]
    /\ RunsIdle
    /\ UNCHANGED <<priority, clockCycles, sleepCounter, isLoaded, isBlocked, redo,
                   processList, sleepDuration, waking, lockVars, eventVars>>

\* The queue is empty: getNextProcess returns a null pointer, and the idle
\* process runs without being the running process.
DispatchNobody ==
    /\ pc = "dispatch"
    /\ ~OnlyIdleRemains
    /\ readyQueue = <<>>
    /\ runningProcess' = NoProc
    /\ IF Runnable(Idle) THEN RunsIdle
       ELSE pc' = "halted" /\ UNCHANGED <<idleQuantum, flags, pidReg>>
    /\ UNCHANGED <<state, priority, clockCycles, sleepCounter, isLoaded, isBlocked,
                   redo, readyQueue, processList, sleepDuration, waking, lockVars,
                   eventVars>>

-----------------------------------------------------------------------------
(***************************************************************************)
(* unblockProcesses, with plist and st the processList and the states the  *)
(* caller has made: the highest process blocked on memory becomes Ready.   *)
(***************************************************************************)
\* Mutant of BlockedOnMemory: whatever a process waits for.
AnyWaiting(plist, st) == {p \in plist : st[p] = "Waiting"}

BlockedOnMemory(plist, st) == {p \in plist : st[p] = "Waiting" /\ isBlocked[p]}

HighestBlocked(p, plist, st) ==
    /\ p \in BlockedOnMemory(plist, st)
    /\ \A q \in BlockedOnMemory(plist, st) \ {p} :
          \/ priority[q] < priority[p]
          \/ priority[q] = priority[p] /\ Earlier(p, q)

Unblocks(plist, st) ==
    \/ /\ BlockedOnMemory(plist, st) = {}
       /\ state' = st
       /\ UNCHANGED <<isBlocked, isLoaded, readyQueue>>
    \/ \E p \in Procs :
          /\ HighestBlocked(p, plist, st)
          /\ state' = [st EXCEPT ![p] = "Ready"]
          /\ isBlocked' = [isBlocked EXCEPT ![p] = FALSE]
          /\ isLoaded' = [isLoaded EXCEPT ![p] = TRUE]
          /\ readyQueue' = Push(readyQueue, p, priority)

\* The load of that process throws: nothing of it changes.
UnblockThrows(plist, st) ==
    /\ \E p \in Procs : HighestBlocked(p, plist, st) /\ ~isLoaded[p]
    /\ state' = st
    /\ UNCHANGED <<isBlocked, isLoaded, readyQueue>>

-----------------------------------------------------------------------------
(***************************************************************************)
(* The TerminateProcess instruction: terminateProcessByPid, within the     *)
(* execution of process p.                                                 *)
(***************************************************************************)
Kills(p, t) ==
    /\ Executes(p, "terminate", t)
    /\ t \in processList
    /\ processList' = processList \ {t}

Killed(t) == [state EXCEPT ![t] = "Terminated"]

NobodyToKill(p, t) ==
    /\ Executes(p, "terminate", t)
    /\ t \notin processList
    /\ Completes(p, flags)
    /\ UNCHANGED <<unchangedByCpu, state, priority, isBlocked, readyQueue,
                   processList, sleepDuration, pidReg, lockVars, eventVars>>

TerminateProcess(p, t) ==
    /\ Kills(p, t)
    /\ Unblocks(processList \ {t}, Killed(t))
    /\ Completes(p, flags \ {"terminated"})
    /\ UNCHANGED <<sleepCounter, idleQuantum, runningProcess, waking, priority,
                   sleepDuration, pidReg, lockVars, eventVars>>

\* The exception leaves terminateProcessByPid for the handler of
\* executeNextInstruction, which blames the running process.
TerminateProcessThrows(p, t) ==
    /\ Kills(p, t)
    /\ UnblockThrows(processList \ {t}, Killed(t))
    /\ \/ /\ MayBlock(processList \ {t}, Killed(t))
          /\ Returns(p, "terminate", t, (flags \ {"terminated"}) \cup {"blocked"})
       \/ /\ "fault" \in Opcodes
          /\ Returns(p, "terminate", t, flags \cup {"terminated"})
       \/ /\ "fatal" \in Opcodes
          /\ pc' = "crashed"
          /\ flags' = flags \ {"terminated"}
          /\ UNCHANGED redo
    /\ UNCHANGED <<sleepCounter, idleQuantum, runningProcess, waking, priority,
                   sleepDuration, pidReg, lockVars, eventVars>>

-----------------------------------------------------------------------------
(***************************************************************************)
(* After run(): start() handles the first raised flag of its list and goes *)
(* back to the top.  The other flags stay raised.                          *)
(***************************************************************************)
FlagRank == [preempt |-> 1, sleep |-> 2, terminated |-> 3, lock |-> 4,
             event |-> 5, expired |-> 6, blocked |-> 7]

Handles(f) ==
    /\ pc = "cycleEnd"
    /\ waking = {}
    /\ f \in flags
    /\ \A g \in flags : FlagRank[f] <= FlagRank[g]

\* Mutant of Requeues: addProcess is not called.
NotRequeued(p) ==
    /\ state' = [state EXCEPT ![p] = "Ready"]
    /\ UNCHANGED readyQueue

\* The process goes back to the ready queue.
Requeues(p) ==
    /\ state' = [state EXCEPT ![p] = "Ready"]
    /\ readyQueue' = Push(readyQueue, p, priority)

HandlePreemption ==
    /\ Handles("preempt")
    /\ Requeues(Current)
    /\ flags' = flags \ {"preempt"}
    /\ pc' = "dispatch"
    /\ UNCHANGED <<priority, clockCycles, sleepCounter, isLoaded, isBlocked, redo,
                   idleQuantum, runningProcess, processList, sleepDuration, pidReg,
                   waking, lockVars, eventVars>>

HandleSleep ==
    /\ Handles("sleep")
    /\ sleepCounter' = [sleepCounter EXCEPT ![Current] = sleepDuration]
    /\ state' = [state EXCEPT ![Current] = "Sleeping"]
    /\ flags' = flags \ {"sleep"}
    /\ sleepDuration' = 0
    /\ pc' = "dispatch"
    /\ UNCHANGED <<priority, clockCycles, isLoaded, isBlocked, redo, idleQuantum,
                   readyQueue, runningProcess, processList, pidReg, waking,
                   lockVars, eventVars>>

HandleTerminated ==
    /\ Handles("terminated")
    /\ processList' = processList \ {Current}
    /\ flags' = flags \ {"terminated"}
    /\ \/ /\ Unblocks(processList \ {Current}, Killed(Current))
          /\ pc' = "dispatch"
       \/ /\ UnblockThrows(processList \ {Current}, Killed(Current))
          /\ \/ MayBlock(processList \ {Current}, Killed(Current))
             \/ Opcodes \cap {"fault", "fatal"} # {}
          /\ pc' = "crashed"
    /\ UNCHANGED <<priority, clockCycles, sleepCounter, redo, idleQuantum,
                   runningProcess, sleepDuration, pidReg, waking, lockVars,
                   eventVars>>

\* What the two waiting instructions and a memory block have in common.
HandleWaiting(f) ==
    /\ Handles(f)
    /\ state' = [state EXCEPT ![Current] = "Waiting"]
    /\ flags' = flags \ {f}
    /\ pc' = "dispatch"
    /\ UNCHANGED <<priority, clockCycles, sleepCounter, isLoaded, redo,
                   idleQuantum, readyQueue, runningProcess, processList,
                   sleepDuration, pidReg, waking, lockVars, eventVars>>

HandleLockWait == HandleWaiting("lock") /\ UNCHANGED isBlocked

HandleEventWait == HandleWaiting("event") /\ UNCHANGED isBlocked

\* clearExpiredFlag clears `terminated`, which is down already; quantumExpired
\* stays up until the next run().
HandleExpired ==
    /\ Handles("expired")
    /\ Requeues(Current)
    /\ clockCycles' = [clockCycles EXCEPT ![Current] = 0]
    /\ pc' = "dispatch"
    /\ UNCHANGED <<priority, sleepCounter, isLoaded, isBlocked, redo, idleQuantum,
                   runningProcess, processList, flags, sleepDuration, pidReg,
                   waking, lockVars, eventVars>>

HandleBlocked ==
    /\ HandleWaiting("blocked")
    /\ isBlocked' = [isBlocked EXCEPT ![Current] = TRUE]

-----------------------------------------------------------------------------
Computes(p) ==
    \/ Step(p) \/ Fault(p) \/ MemoryBlock(p) \/ MemoryFatal(p)
    \/ \E v \in Targets : WritePidReg(p, v)

Schedules(p) ==
    \/ \E d \in Durations : Sleep(p, d)
    \/ \E v \in PrioArgs : SetPriority(p, v)

Synchronizes(p) ==
    \/ \E l \in LockIds : AcquireLock(p, l) \/ WaitForLock(p, l) \/ ReleaseLock(p, l)
    \/ \E e \in EventIds : SignalEvent(p, e) \/ WaitEvent(p, e)

Terminates(p) ==
    \/ Exit(p)
    \/ \E t \in Targets : \/ NobodyToKill(p, t)
                          \/ TerminateProcess(p, t)
                          \/ TerminateProcessThrows(p, t)

\* One turn of run()'s loop.
Cycle ==
    \/ \E p \in Procs : Computes(p) \/ Schedules(p) \/ Synchronizes(p) \/ Terminates(p)
    \/ NoRunningProcess
    \/ ReleaseHeldLock \/ FinishExit
    \/ AddProcess \/ Callback \/ WakeUp \/ NextCycleOfRun

Dispatch ==
    \/ Halt \/ DropTerminated \/ DispatchIdle \/ DispatchNobody
    \/ \E p \in Users : DispatchUser(p) \/ LoadBlocks(p) \/ LoadFatal(p)

HandleFlag ==
    \/ HandlePreemption \/ HandleSleep \/ HandleTerminated \/ HandleLockWait
    \/ HandleEventWait \/ HandleExpired \/ HandleBlocked

\* The program has ended: not a deadlock of the model.
Stopped == pc \in {"halted", "crashed"} /\ UNCHANGED vars

Next ==
    \/ \E p \in Users : LoadProcess(p)
    \/ Dispatch
    \/ Cycle
    \/ HandleFlag
    \/ Stopped

Spec == Init /\ [][Next]_vars

\* The program is one thread: nothing but its end stops it.
FairSpec == Spec /\ WF_vars(Next)

=============================================================================
