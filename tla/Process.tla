------------------------------- MODULE Process -------------------------------
(***************************************************************************)
(* The state the scheduler, the CPU and the operating system share: the    *)
(* process control blocks (pcb.h), the ready queue and running pointer of  *)
(* the ProcessScheduler, the operating system's processList, and the CPU's *)
(* flags, lock table and event table.  Cpu.tla gives the instructions that *)
(* change it, OperatingSystem.tla the scheduling loop around them.         *)
(*                                                                         *)
(* A process is its pid.  main() numbers the user programs 1, 2, ... N in  *)
(* command-line order and gives program p priority 33 - p; the idle        *)
(* process is pid 999 with priority 1.                                     *)
(***************************************************************************)
EXTENDS ReadyQueue

CONSTANTS
    N,          \* number of user programs on the command line
    Opcodes,    \* the kinds of instruction the programs are made of
    LockIds,    \* lock numbers they name, within 1..10
    EventIds,   \* event numbers they name, within 0..9
    Durations,  \* register values they pass to Sleep
    PrioArgs,   \* values they pass to SetPriority
    Targets,    \* pids they pass to TerminateProcess or write to register 12
    Quantum,    \* a user process's timeQuantum (10 in PCB::PCB)
    SignBit     \* 2^31: from there on a 32-bit word is a negative int

Users == 1..N
Idle  == 999
Procs == Users \cup {Idle}

\* A null PCB pointer, and the owner -1 of a free lock.
NoProc == -1

(***************************************************************************)
(* The opcodes by what they do to the state below.  "step" is every        *)
(* instruction that only computes, moves data or prints; "fault" every     *)
(* path that sets `terminated` and returns (unknown opcode, bad register,  *)
(* stack overflow, illegal access); "block" a page fault that throws       *)
(* BLOCKED_PAGE_FAULT; "fatal" one that ends in exit(1); "pidreg" a write  *)
(* to register 12, where Exit looks for its own pid.                       *)
(***************************************************************************)
OpcodeKinds == {"step", "fault", "block", "fatal", "pidreg", "sleep", "exit",
                "priority", "acquire", "release", "signal", "wait", "terminate"}

ASSUME NAssumption == N \in 1..31
ASSUME OperandAssumption ==
    /\ Opcodes \subseteq OpcodeKinds /\ "step" \in Opcodes
    /\ LockIds \subseteq 1..10
    /\ EventIds \subseteq 0..9
    /\ SignBit \in Nat \ {0, 1}
    /\ Durations \subseteq 0..(2 * SignBit - 1)
    /\ PrioArgs \subseteq Nat
    /\ Targets \subseteq Procs
    /\ Quantum \in Nat \ {0}

VARIABLES
    \* PCB
    state,           \* PCB::state; "New" is the empty string of a fresh PCB
    priority,        \* PCB::priority
    clockCycles,     \* PCB::clockCycles
    sleepCounter,    \* PCB::sleepCounter
    isLoaded,        \* PCB::isLoaded
    isBlocked,       \* PCB::isBlocked
    redo,            \* the instruction at the saved IP, when it was already begun
    idleQuantum,     \* the idle PCB's timeQuantum
    \* ProcessScheduler
    readyQueue,      \* the heap of ready processes
    runningProcess,  \* the running PCB or NoProc
    \* OperatingSystem
    pc,              \* where start() and run() are
    processList,     \* the processes not yet terminated
    \* CPU
    flags,           \* which of the CPU's seven request flags are raised
    sleepDuration,   \* CPU::sleepDuration
    pidReg,          \* register 12
    waking,          \* sleepers the cycle callback has still to make Ready
    releasing,       \* locks releaseAllHeldLocks has still to visit
    locks,           \* the owner of each lock, or NoProc
    lockWaitQueues,  \* the processes waiting for each lock
    eventStates,     \* the events signalled so far
    eventWaitQueues, \* the processes waiting for each event
    toReady          \* processes a wake-up loop made Ready but has not queued

pcbVars  == <<state, priority, clockCycles, sleepCounter, isLoaded, isBlocked,
              redo, idleQuantum>>
lockVars == <<locks, lockWaitQueues, releasing>>
eventVars == <<eventStates, eventWaitQueues, toReady>>
vars     == <<pcbVars, readyQueue, runningProcess, pc, processList, flags,
              sleepDuration, pidReg, waking, lockVars, eventVars>>

-----------------------------------------------------------------------------
States == {"New", "Ready", "Running", "Sleeping", "Waiting", "Terminated"}

CpuFlags == {"preempt", "sleep", "terminated", "lock", "event", "expired", "blocked"}

\* The largest quantum of the idle process, whose quantum is a sleep duration.
MaxIdleQuantum == CHOOSE m \in {1} \cup Durations :
                      \A k \in {1} \cup Durations : k <= m

\* How main() numbers priorities, and the constructor's for the idle process.
InitialPriority(p) == IF p = Idle THEN 1 ELSE 33 - p

TimeQuantum(p) == IF p = Idle THEN idleQuantum ELSE Quantum

\* Mutant of NextCycle: the cycles are not counted.
UncountedCycle(p) == clockCycles[p]

\* incrementClockCycle.  The count is only ever compared with the quantum, so
\* it stops at the largest quantum the process can have.
NextCycle(p) ==
    LET cap == IF p = Idle THEN MaxIdleQuantum ELSE Quantum
    IN  IF clockCycles[p] < cap THEN clockCycles[p] + 1 ELSE clockCycles[p]

\* The local `next` of start(): the idle process when nothing was popped.
Current == IF runningProcess = NoProc THEN Idle ELSE runningProcess

\* processList is filled idle first, then in pid order, and keeps that order.
Earlier(p, q) == p # q /\ (p = Idle \/ (q # Idle /\ p < q))

(***************************************************************************)
(* memory::getaddress throws BLOCKED_PAGE_FAULT only when some user        *)
(* process sleeps or waits (hasSleepingOrWaitingProcesses) and some user   *)
(* process does neither (hasAllSleepingOrWaitingProcesses).                *)
(***************************************************************************)
MayBlock(plist, st) ==
    LET users == plist \ {Idle}
    IN  /\ "block" \in Opcodes
        /\ \E p \in users : st[p] \in {"Sleeping", "Waiting"}
        /\ \E p \in users : st[p] \notin {"Sleeping", "Waiting"}

\* Mutant of HighestWaiter: first come, first served.
FirstWaiter(queue, i) == i = 1

\* std::max_element over a wait queue: the first of the highest priority.
HighestWaiter(queue, i) ==
    /\ \A j \in 1..Len(queue) : priority[queue[j]] <= priority[queue[i]]
    /\ \A j \in 1..(i - 1) : priority[queue[j]] < priority[queue[i]]

\* Mutant of Without: the erase is missing.
NotErased(queue, i) == queue

\* The queue without its i-th element.
Without(queue, i) ==
    [j \in 1..(Len(queue) - 1) |-> IF j < i THEN queue[j] ELSE queue[j + 1]]

=============================================================================
