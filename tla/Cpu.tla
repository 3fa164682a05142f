--------------------------------- MODULE Cpu ---------------------------------
(***************************************************************************)
(* CPU::executeNextInstruction, one action per kind of instruction, and    *)
(* the cycle callback CPU::run makes after each of them.                   *)
(*                                                                         *)
(* A process may execute any instruction whose opcode is in Opcodes, so    *)
(* the behaviours are those of every program made of them.  The only thing *)
(* a program must remember is an instruction it has begun and will meet    *)
(* again: whenever the code returns without moving register 11, the        *)
(* instruction is kept in redo[p] and is the next one p executes.          *)
(***************************************************************************)
EXTENDS Process

NoInstr == [op |-> "none", arg |-> 0]

Instr(op, arg) == [op |-> op, arg |-> arg]

-----------------------------------------------------------------------------
(***************************************************************************)
(* The pieces every instruction shares.                                    *)
(***************************************************************************)

\* The running process starts an instruction: the clock ticks first.
Fetches(p) ==
    /\ pc = "execute"
    /\ runningProcess = p
    /\ clockCycles' = [clockCycles EXCEPT ![p] = NextCycle(p)]

\* The bytes at p's IP may not be what they were: the pages of a killed process
\* are freed, and where memory is short a page evicted as clean comes back
\* with other contents.
CodeLost(p) == p \notin processList \/ "block" \in Opcodes

\* Process p executes instruction [op, arg].  The idle program consists of a
\* move, a print and a jump.
Executes(p, op, arg) ==
    /\ Fetches(p)
    /\ op \in Opcodes
    /\ redo[p] \in {NoInstr, Instr(op, arg)} \/ CodeLost(p)
    /\ p = Idle => op = "step"

\* The break out of the switch: the IP moves on and the quantum is checked.
Completes(p, raised) ==
    /\ redo' = [redo EXCEPT ![p] = NoInstr]
    /\ flags' = raised \cup (IF /\ "terminated" \notin raised
                                /\ clockCycles'[p] >= TimeQuantum(p)
                             THEN {"expired"} ELSE {})
    /\ pc' = "callback"

\* A return from inside the switch: the IP still points at the instruction.
Returns(p, op, arg, raised) ==
    /\ redo' = [redo EXCEPT ![p] = Instr(op, arg)]
    /\ flags' = raised
    /\ pc' = "callback"

unchangedByCpu == <<sleepCounter, isLoaded, idleQuantum, runningProcess, waking>>

-----------------------------------------------------------------------------
(***************************************************************************)
(* Instructions that touch nothing but registers and memory, and the ways  *)
(* they fail.                                                              *)
(***************************************************************************)
Step(p) ==
    /\ Executes(p, "step", 0)
    /\ Completes(p, flags)
    /\ UNCHANGED <<unchangedByCpu, state, priority, isBlocked, readyQueue,
                   processList, sleepDuration, pidReg, lockVars, eventVars>>

\* A register write whose destination is register 12.
WritePidReg(p, value) ==
    /\ Executes(p, "pidreg", value)
    /\ pidReg' = value
    /\ Completes(p, flags)
    /\ UNCHANGED <<unchangedByCpu, state, priority, isBlocked, readyQueue,
                   processList, sleepDuration, lockVars, eventVars>>

Fault(p) ==
    /\ Fetches(p)
    /\ p # Idle
    /\ "fault" \in Opcodes \/ CodeLost(p)
    /\ Returns(p, "fault", 0, flags \cup {"terminated"})
    /\ UNCHANGED <<unchangedByCpu, state, priority, isBlocked, readyQueue,
                   processList, sleepDuration, pidReg, lockVars, eventVars>>

\* The fetch or a data access finds no free page and throws; the handler
\* raises blockedOnMemory.  redo is left alone: the instruction may be any.
MemoryBlock(p) ==
    /\ Fetches(p)
    /\ p # Idle
    /\ MayBlock(processList, state)
    /\ flags' = flags \cup {"blocked"}
    /\ pc' = "callback"
    /\ UNCHANGED <<unchangedByCpu, state, priority, isBlocked, redo, readyQueue,
                   processList, sleepDuration, pidReg, lockVars, eventVars>>

\* No page is left to evict either: getaddress calls exit(1).
MemoryFatal(p) ==
    /\ pc = "execute"
    /\ runningProcess = p
    /\ p # Idle
    /\ "fatal" \in Opcodes
    /\ pc' = "crashed"
    /\ UNCHANGED <<pcbVars, readyQueue, runningProcess, processList, flags,
                   sleepDuration, pidReg, waking, lockVars, eventVars>>

\* There is no running process to execute for.
NoRunningProcess ==
    /\ pc = "execute"
    /\ runningProcess = NoProc
    /\ flags' = flags \cup {"terminated"}
    /\ pc' = "callback"
    /\ UNCHANGED <<pcbVars, readyQueue, runningProcess, processList,
                   sleepDuration, pidReg, waking, lockVars, eventVars>>

\* Sleep moves the IP itself and returns before the quantum check.
Sleep(p, cycles) ==
    /\ Executes(p, "sleep", cycles)
    /\ flags' = flags \cup {"sleep"}
    /\ sleepDuration' = cycles
    /\ redo' = [redo EXCEPT ![p] = NoInstr]
    /\ pc' = "callback"
    /\ UNCHANGED <<unchangedByCpu, state, priority, isBlocked, readyQueue,
                   processList, pidReg, lockVars, eventVars>>

\* Mutants of ValidPriority: one of the two bounds is not tested.
NoLowerBound(v) == v <= 32
NoUpperBound(v) == v >= 2

ValidPriority(v) == v >= 2 /\ v <= 32

SetPriority(p, v) ==
    /\ Executes(p, "priority", v)
    /\ priority' = IF ValidPriority(v) THEN [priority EXCEPT ![p] = v] ELSE priority
    /\ Completes(p, flags)
    /\ UNCHANGED <<unchangedByCpu, state, isBlocked, readyQueue, processList,
                   sleepDuration, pidReg, lockVars, eventVars>>

-----------------------------------------------------------------------------
(***************************************************************************)
(* Locks.  AcquireLock and AcquireLockI, and ReleaseLock and ReleaseLockI, *)
(* differ only in where the lock number comes from; a number outside 1..10 *)
(* does nothing, like Step.                                                *)
(***************************************************************************)

\* Mutant of Obtains: whoever finds the wait queue empty takes the lock.
NobodyWaits(p, l) == lockWaitQueues[l] = <<>>

\* Whether p may go on: the lock is its own already, or free.
Obtains(p, l) == locks[l] \in {p, NoProc}

\* getProcessByPid looks at the running process and the ready queue only.
FindsProcess(pid) ==
    \/ runningProcess = pid
    \/ \E i \in 1..Len(readyQueue) : readyQueue[i] = pid

\* What the owner's priority becomes when p starts waiting for it.
Boosted(owner, p) ==
    IF FindsProcess(owner) /\ priority[owner] < priority[p]
    THEN [priority EXCEPT ![owner] = priority[p]]
    ELSE priority

AcquireLock(p, l) ==
    /\ Executes(p, "acquire", l)
    /\ Obtains(p, l)
    /\ locks' = [locks EXCEPT ![l] = p]
    /\ Completes(p, flags)
    /\ UNCHANGED <<unchangedByCpu, state, priority, isBlocked, readyQueue,
                   processList, sleepDuration, pidReg, lockWaitQueues, releasing,
                   eventVars>>

WaitForLock(p, l) ==
    /\ Executes(p, "acquire", l)
    /\ ~Obtains(p, l)
    /\ priority' = Boosted(locks[l], p)
    /\ state' = [state EXCEPT ![p] = "Waiting"]
    /\ lockWaitQueues' = [lockWaitQueues EXCEPT ![l] = Append(@, p)]
    /\ Returns(p, "acquire", l, flags \cup {"lock"})
    /\ UNCHANGED <<unchangedByCpu, isBlocked, readyQueue, processList,
                   sleepDuration, pidReg, locks, releasing, eventVars>>

\* Mutant of HandOver: the waiters are forgotten.
FreeOnly(l) ==
    /\ locks' = [locks EXCEPT ![l] = NoProc]
    /\ UNCHANGED <<lockWaitQueues, state, readyQueue>>

\* The owner lets lock l go; the highest waiter, if any, owns it and is Ready.
HandOver(l) ==
    LET queue == lockWaitQueues[l]
    IN  \/ /\ queue = <<>>
           /\ locks' = [locks EXCEPT ![l] = NoProc]
           /\ UNCHANGED <<lockWaitQueues, state, readyQueue>>
        \/ \E i \in 1..Len(queue) :
              /\ HighestWaiter(queue, i)
              /\ locks' = [locks EXCEPT ![l] = queue[i]]
              /\ lockWaitQueues' = [lockWaitQueues EXCEPT ![l] = Without(queue, i)]
              /\ state' = [state EXCEPT ![queue[i]] = "Ready"]
              /\ readyQueue' = Push(readyQueue, queue[i], priority)

\* Mutant of Owns: a lock held by another may be released.
AnyOwner(p, l) == locks[l] # NoProc

Owns(p, l) == locks[l] = p

ReleaseLock(p, l) ==
    /\ Executes(p, "release", l)
    /\ IF Owns(p, l) THEN HandOver(l)
                     ELSE UNCHANGED <<locks, lockWaitQueues, state, readyQueue>>
    /\ Completes(p, flags)
    /\ UNCHANGED <<unchangedByCpu, priority, isBlocked, processList,
                   sleepDuration, pidReg, releasing, eventVars>>

-----------------------------------------------------------------------------
(***************************************************************************)
(* Exit releases every lock whose owner is the pid in register 12, one     *)
(* after the other, and then raises `terminated`.                          *)
(***************************************************************************)
Exit(p) ==
    /\ Executes(p, "exit", 0)
    /\ redo' = [redo EXCEPT ![p] = Instr("exit", 0)]
    /\ releasing' = {l \in LockIds : locks[l] = pidReg}
    /\ pc' = "release"
    /\ UNCHANGED <<unchangedByCpu, state, priority, isBlocked, readyQueue,
                   processList, flags, sleepDuration, pidReg, locks,
                   lockWaitQueues, eventVars>>

ReleaseHeldLock ==
    /\ pc = "release"
    /\ \E l \in releasing :
          /\ \A k \in releasing : l <= k
          /\ HandOver(l)
          /\ releasing' = releasing \ {l}
    /\ UNCHANGED <<unchangedByCpu, priority, clockCycles, isBlocked, redo, pc,
                   processList, flags, sleepDuration, pidReg, eventVars>>

FinishExit ==
    /\ pc = "release"
    /\ releasing = {}
    /\ flags' = flags \cup {"terminated"}
    /\ pc' = "callback"
    /\ UNCHANGED <<pcbVars, readyQueue, runningProcess, processList,
                   sleepDuration, pidReg, waking, lockVars, eventVars>>

-----------------------------------------------------------------------------
(***************************************************************************)
(* Events.  A signalled event stays signalled.  SignalEvent makes every    *)
(* waiter Ready and adds it to the ready queue; the additions follow one   *)
(* at a time (AddProcess) before anything else happens.                    *)
(***************************************************************************)
SignalEvent(p, e) ==
    /\ Executes(p, "signal", e)
    /\ eventStates' = eventStates \cup {e}
    /\ toReady' = eventWaitQueues[e]
    /\ eventWaitQueues' = [eventWaitQueues EXCEPT ![e] = <<>>]
    /\ state' = [q \in Procs |->
                    IF \E i \in 1..Len(eventWaitQueues[e]) : eventWaitQueues[e][i] = q
                    THEN "Ready" ELSE state[q]]
    /\ Completes(p, flags)
    /\ UNCHANGED <<unchangedByCpu, priority, isBlocked, readyQueue, processList,
                   sleepDuration, pidReg, lockVars>>

AddProcess ==
    /\ toReady # <<>>
    /\ readyQueue' = Push(readyQueue, Head(toReady), priority)
    /\ toReady' = Tail(toReady)
    /\ UNCHANGED <<pcbVars, runningProcess, pc, processList, flags,
                   sleepDuration, pidReg, waking, lockVars, eventStates,
                   eventWaitQueues>>

\* Mutant of Signalled: a signal given earlier is not remembered.
NeverSignalled(e) == FALSE

Signalled(e) == e \in eventStates

WaitEvent(p, e) ==
    /\ Executes(p, "wait", e)
    /\ IF Signalled(e)
       THEN /\ Completes(p, flags)
            /\ UNCHANGED <<state, eventWaitQueues>>
       ELSE /\ state' = [state EXCEPT ![p] = "Waiting"]
            /\ eventWaitQueues' = [eventWaitQueues EXCEPT ![e] = Append(@, p)]
            /\ Returns(p, "wait", e, flags \cup {"event"})
    /\ UNCHANGED <<unchangedByCpu, priority, isBlocked, readyQueue, processList,
                   sleepDuration, pidReg, lockVars, eventStates, toReady>>

-----------------------------------------------------------------------------
(***************************************************************************)
(* The cycle callback: every sleeper's counter goes down by one, and those *)
(* that reach zero are made Ready in processList order.                    *)
(***************************************************************************)
\* Mutant of Ticking: a counter of one is never taken to zero.
TickingAboveOne == {p \in processList : state[p] = "Sleeping" /\ sleepCounter[p] > 1}

Ticking == {p \in processList : state[p] = "Sleeping" /\ sleepCounter[p] > 0}

Callback ==
    /\ pc = "callback"
    /\ toReady = <<>>
    /\ sleepCounter' = [p \in Procs |-> IF p \in Ticking THEN sleepCounter[p] - 1
                                                         ELSE sleepCounter[p]]
    /\ waking' = {p \in Ticking : sleepCounter[p] = 1}
    /\ pc' = "cycleEnd"
    /\ UNCHANGED <<state, priority, clockCycles, isLoaded, isBlocked, redo,
                   idleQuantum, readyQueue, runningProcess, processList, flags,
                   sleepDuration, pidReg, lockVars, eventVars>>

\* The callback's test of the process it wakes: its own pid, not the running
\* process's priority, is what the priority is compared with.
Preempts(p) == priority[p] > p

WakeUp ==
    /\ pc = "cycleEnd"
    /\ \E p \in waking :
          /\ \A q \in waking : q # p => Earlier(p, q)
          /\ waking' = waking \ {p}
          /\ state' = [state EXCEPT ![p] = "Ready"]
          /\ readyQueue' = Push(readyQueue, p, priority)
          /\ flags' = IF Preempts(p) THEN flags \cup {"preempt"} ELSE flags
    /\ UNCHANGED <<priority, clockCycles, sleepCounter, isLoaded, isBlocked, redo,
                   idleQuantum, runningProcess, pc, processList, sleepDuration,
                   pidReg, lockVars, eventVars>>

\* No request flag is up: run() goes round its loop.
NextCycleOfRun ==
    /\ pc = "cycleEnd"
    /\ waking = {}
    /\ flags = {}
    /\ pc' = "execute"
    /\ UNCHANGED <<pcbVars, readyQueue, runningProcess, processList, flags,
                   sleepDuration, pidReg, waking, lockVars, eventVars>>

=============================================================================
