-------------------------- MODULE KernelProperties --------------------------
(***************************************************************************)
(* What the kernel guarantees.  The runs of MCKernel check each property   *)
(* on the workloads (sets of opcodes) it holds for.  KernelProofs,         *)
(* SchedulingProofs and PlaceProofs prove all of them but the two about    *)
(* progress, for every number of programs.                                 *)
(***************************************************************************)
EXTENDS OperatingSystem

Priorities == 1..32

\* The type invariant of the kernel.
TypeOK ==
    /\ state \in [Procs -> States]
    /\ priority \in [Procs -> Priorities]
    /\ clockCycles \in [Procs -> Nat]
    /\ sleepCounter \in [Procs -> Nat]
    /\ isLoaded \in [Procs -> BOOLEAN]
    /\ isBlocked \in [Procs -> BOOLEAN]
    /\ redo \in [Procs -> [op : OpcodeKinds \cup {"none"}, arg : Nat]]
    /\ idleQuantum \in Nat
    /\ readyQueue \in Seq(Procs)
    /\ runningProcess \in Procs \cup {NoProc}
    /\ pc \in ProgramCounters
    /\ processList \subseteq Procs
    /\ flags \subseteq CpuFlags
    /\ sleepDuration \in Nat
    /\ pidReg \in Procs
    /\ waking \subseteq Procs
    /\ releasing \subseteq LockIds
    /\ locks \in [LockIds -> Procs \cup {NoProc}]
    /\ lockWaitQueues \in [LockIds -> Seq(Procs)]
    /\ eventStates \subseteq EventIds
    /\ eventWaitQueues \in [EventIds -> Seq(Procs)]
    /\ toReady \in Seq(Procs)

-----------------------------------------------------------------------------
(***************************************************************************)
(* No wake-up is lost on a lock: ReleaseLock and releaseAllHeldLocks never *)
(* leave a lock free (locks[i] = -1) while its lockWaitQueues has a        *)
(* process in it, which nobody would ever wake.                            *)
(***************************************************************************)
FreeLockHasNoWaiters ==
    \A l \in LockIds : locks[l] = NoProc => lockWaitQueues[l] = <<>>

(***************************************************************************)
(* No wake-up is lost on an event: once SignalEvent has set the event's    *)
(* state, no process is left in its queue or enters it, whatever the order *)
(* of signal and wait.                                                     *)
(***************************************************************************)
SignalledEventHasNoWaiters == \A e \in eventStates : eventWaitQueues[e] = <<>>

(***************************************************************************)
(* A living process whose state is Ready (or that has never run) is in the *)
(* ready queue: no path of the kernel sets the state and forgets           *)
(* addProcess, and no pop loses a process.                                 *)
(***************************************************************************)
NoLostReady ==
    \A p \in processList :
        state[p] \in {"New", "Ready"} => In(p, readyQueue) \/ In(p, toReady)

(***************************************************************************)
(* Whenever start() is about to dispatch, each living process is in        *)
(* exactly the place its state says: once in the ready queue, once in one  *)
(* wait queue, or in none because it sleeps or is blocked on memory.       *)
(* Nothing but the agreement of all handlers keeps this true, for no code  *)
(* checks whether a process is queued already.                             *)
(***************************************************************************)
ReadyCopies(p) == Cardinality(Positions(p, readyQueue))

WaitingCopies(p) ==
    Cardinality(UNION {{<<l, i>> : i \in Positions(p, lockWaitQueues[l])} : l \in LockIds})
    + Cardinality(UNION {{<<e, i>> : i \in Positions(p, eventWaitQueues[e])} : e \in EventIds})

InItsPlace ==
    pc = "dispatch" =>
        \A p \in processList :
            \/ /\ state[p] \in {"New", "Ready"}
               /\ ReadyCopies(p) = 1 /\ WaitingCopies(p) = 0
            \/ /\ state[p] = "Waiting" /\ ~isBlocked[p]
               /\ ReadyCopies(p) = 0 /\ WaitingCopies(p) = 1
            \/ /\ state[p] = "Sleeping" \/ (state[p] = "Waiting" /\ isBlocked[p])
               /\ ReadyCopies(p) = 0 /\ WaitingCopies(p) = 0

(***************************************************************************)
(* The idle process runs only when no user process is ready (README.md:55),*)
(* although the scheduler treats it as just another entry of the heap.     *)
(***************************************************************************)
IdleOnlyWhenNobodyReady ==
    [][DispatchIdle => \A p \in Users : ~In(p, readyQueue)]_vars

(***************************************************************************)
(* start() stops only when every user process has terminated; it does not  *)
(* give up at "No more processes to run" with living processes left.       *)
(***************************************************************************)
HaltOnlyWhenDone == pc = "halted" => OnlyIdleRemains

(***************************************************************************)
(* The scheduler always dispatches a process of the highest priority in    *)
(* the ready queue.                                                        *)
(***************************************************************************)
DispatchesHighest ==
    [][\A p \in Procs : Dispatches(p) =>
          \A i \in 1..Len(readyQueue) : priority[readyQueue[i]] <= priority[p]]_vars

(***************************************************************************)
(* A lock is taken from its owner only by the owner's own ReleaseLock or   *)
(* Exit.                                                                   *)
(***************************************************************************)
OnlyOwnerReleases ==
    [][\A l \in LockIds : locks[l] # NoProc /\ locks'[l] # locks[l]
                          => locks[l] = runningProcess]_vars

(***************************************************************************)
(* A sleeping process that has cycles left wakes up (or is killed): the    *)
(* idle process keeps the cycles going when everybody sleeps.              *)
(***************************************************************************)
SleeperWakes ==
    \A p \in Users :
        (state[p] = "Sleeping" /\ sleepCounter[p] > 0)
            ~> (state[p] # "Sleeping" \/ pc = "crashed")

(***************************************************************************)
(* run() always comes back: no program keeps the processor for ever.       *)
(***************************************************************************)
RunReturns == pc = "execute" ~> pc \in {"dispatch", "crashed"}

(***************************************************************************)
(* While a process executes, register 12 names it, and what                *)
(* releaseAllHeldLocks still has to release is its own: Exit gives back    *)
(* the locks of the process that exits and of no other.  It takes programs *)
(* that do not write to register 12.                                       *)
(***************************************************************************)
InRun == pc \in {"execute", "release", "callback", "cycleEnd"}

ExitReleasesItsOwn ==
    /\ InRun /\ runningProcess # NoProc => pidReg = runningProcess
    /\ pc = "release" => /\ runningProcess # NoProc
                         /\ \A l \in releasing : locks[l] = runningProcess

(***************************************************************************)
(* Why run() comes back: each step of it takes it nearer to its end.  The  *)
(* turns its loop can still make go down, or they stay and the turn gets   *)
(* on to its next stage, or the stage has one process fewer to serve.  A   *)
(* cycle that is not counted, or a quantum that is passed without being    *)
(* noticed (the idle process's changes while its cycles stay), would leave *)
(* the number of turns as it is.                                           *)
(***************************************************************************)
CyclesLeft == TimeQuantum(Current) - clockCycles[Current]

TurnsLeft ==
    IF pc = "execute" THEN IF CyclesLeft > 1 THEN CyclesLeft - 1 ELSE 0
                      ELSE IF pc = "release" \/ flags # {} THEN 0 ELSE CyclesLeft

StagesLeft == CASE pc = "execute"  -> 3
                [] pc = "release"  -> 2
                [] pc = "callback" -> 1
                [] OTHER           -> 0

ToServe == Cardinality(releasing) + Len(toReady) + Cardinality(waking)

RunAdvances ==
    [][InRun /\ InRun' =>
          /\ TurnsLeft >= 0
          /\ \/ TurnsLeft' < TurnsLeft
             \/ /\ TurnsLeft' = TurnsLeft
                /\ \/ StagesLeft' < StagesLeft
                   \/ StagesLeft' = StagesLeft /\ ToServe' < ToServe]_vars

(***************************************************************************)
(* Nobody oversleeps because of the idle process: when the callback finds  *)
(* a sleeper due while the idle process runs, that cycle is the last of    *)
(* the idle quantum, whether or not the sleeper passes the callback's test *)
(* for a preemption.  (A stale `terminated` suppresses the expiry and ends *)
(* the idle process instead.)                                              *)
(***************************************************************************)
IdleEndsInTime ==
    pc = "cycleEnd" /\ runningProcess = Idle /\ waking # {} =>
        flags \cap {"expired", "terminated"} # {}

-----------------------------------------------------------------------------
\* The lock table of the kernel implements LockTable.
Table == INSTANCE LockTable WITH
             Locks <- LockIds, Processes <- Procs, Nobody <- NoProc,
             owner <- locks, waiters <- lockWaitQueues,
             rank <- priority, runner <- runningProcess

TableSpec == Table!Spec

\* The ready queue of the kernel implements PriorityBag: whatever the workload,
\* no push or pop loses a process, and the front is one of the highest as long
\* as no queued process has had its priority changed.
ReadyBag == INSTANCE PriorityBag WITH
                Members <- Procs,
                copies <- [p \in Procs |-> ReadyCopies(p)],
                rank <- priority,
                exact <- IsHeap(readyQueue, priority)

BagSpec == ReadyBag!Spec

=============================================================================
