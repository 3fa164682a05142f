# Verification of MidOS, the operating system simulation

MidOS simulates a small operating system: user programs made of 9-byte
instructions run on a virtual CPU, one at a time, under a priority scheduler
with paged memory, locks, events, sleeping processes and an idle process.
This directory holds a TLA+ model of it, the TLC runs that check the model on
small instances, and machine-checked proofs of properties that hold for every
number of programs and every workload. Paths below are relative to the
repository (`src/OperatingSystem.cpp`, `include/pcb.h`, ...).

## 1. The system

Everything runs in **one thread**: `main` loads the programs, then
`OperatingSystem::start` loops. What makes the system hard is not parallelism
but *who runs next with what left over*: a process can be suspended between any
two instructions (quantum, sleep, wait, page fault, preemption by a waking
sleeper), the request flags of the CPU are shared by all processes and are
cleared one at a time, and the same PCB pointer travels through a heap, a
running pointer, a process list and a dozen wait queues whose agreement no code
checks.

| Component | State | Operations | Correct when |
|---|---|---|---|
| **Ready queue** (`ProcessScheduler.h/.cpp`) | `readyQueue`, a `std::priority_queue` of PCB pointers | `addProcess`, pop in `getNextProcess` | the front is a process of the highest priority |
| **Scheduler** | `runningProcess` | `getNextProcess`, `getProcessByPid`, `switchProcess` (never reached) | no living Ready process is lost or queued twice |
| **Scheduling loop** (`OperatingSystem.cpp`) | `processList`, position in `start()` | `loadProcess`, dispatch, idle dispatch, one handler per flag, `terminateProcessByPid`, `unblockProcesses` | it stops only when every program has ended; the right process is handled |
| **CPU control** (`cpu.cpp`) | seven request flags, `sleepDuration`, registers 11 and 12, quantum | `run`, `executeNextInstruction` | `run` always returns; an instruction is finished or redone |
| **Locks** | `locks[]`, `lockWaitQueues[]` | `AcquireLock(I)`, `ReleaseLock(I)`, `releaseAllHeldLocks` | mutual exclusion, no lost wake-up, hand-over to the highest waiter |
| **Events** | `eventStates[]`, `eventWaitQueues[]` | `SignalEvent(I)`, `WaitEvent(I)` | no lost wake-up, whatever the order of signal and wait |
| **Sleep** | `sleepCounter` per PCB, idle quantum | `Sleep`, `onCycleCallback` | each sleep ends |
| **Virtual memory** (`memory.cpp`) | `paging_table`, `freePages`, `swapSpace`, `mem`, LRU clock | `getaddress`, `mapPage`, `allocatePage`, `swapOutPage`, `deallocateProcessPages` | isolation, data survives eviction, a frame has one owner |
| **Loader** (`program.cpp`) | instruction list | `loadProgram`, `convertInstruction`, `loadIntoMemory` | the program's code is where its IP points |
| **Heap, stack, ALU** (`cpu.cpp`) | `heapEnd`, `heapAllocations`, registers, two flags | `Alloc`, `FreeMemory`, push/pop/call, compare and jump | allocations do not overlap each other or the stack |
| **Shared memory** | `sharedMemoryTable`, `paging_table` | `MapSharedMem` | the processes that map a region see the same bytes |
| **Console I/O, hex** | none | print, input, formatting | (not behaviour of interest) |

How they interact: `start()` calls `getNextProcess`, loads the process on its
first dispatch (`loadIntoMemory`, which may throw), copies its registers to the
CPU, sets register 12 to its pid and calls `cpu.run()`. `run()` executes one
instruction, calls `onCycleCallback` (a lambda of `start()` that counts down the
sleepers and queues those that wake), and returns when a flag is raised.
`start()` then handles **one** flag, in the order preempt, sleep, terminated,
lock, event, expired, blocked, and goes on with the others still raised. The
CPU calls back into the operating system for `TerminateProcess`; the memory
calls back (`hasSleepingOrWaitingProcesses`) to decide whether a page fault
blocks. Exceptions travel from the memory through the loader to `start()`, to
`executeNextInstruction` or, from `unblockProcesses`, out of the program.

## 2. Modules

Three models, and a fourth that composes two of them:

| Module | What it is |
|---|---|
| `ReadyQueue` | push and pop of libstdc++'s binary heap, as operators on sequences. A queue holds *pointers*, so the priorities are a separate argument and may change under the heap. |
| `HeapLoops`, `HeapLoopsProofs` | the same calls step by step, as the loops of `bits/stl_heap.h` (a hole that moves through the vector), and the comparison; the theorem that they agree. |
| `Process` | constants, the variables of the kernel, and helpers on them. |
| `Cpu` | one action per kind of instruction, plus the callback's steps and the end of a cycle. |
| `OperatingSystem` | the kernel: `Init`, loading, dispatch, the flag handlers, termination, `Next`, `Spec`, `FairSpec`. |
| `LockTable` | abstract specification of the locks: owners, waiters, ranks and a runner. |
| `PriorityBag` | abstract specification of the ready queue: a bag of processes that gives out one of the highest rank while its order is exact. |
| `KernelProperties`, `KernelClaims`, `MCKernel` | the kernel's properties and its two refinement mappings; statements of the repository it does not keep (section 5); a bound. |
| `KernelProofs` | theorems on types, locks and events. |
| `ReadyQueueProofs` | lemmas on `Push` and `Pop` for queues of any length. |
| `SchedulingProofs`, `PlaceProofs` | theorems on the ready queue and on the place of each process. |
| `Paging` | the virtual memory: `getaddress` branch by branch, the loader's mappings and writes, stores, shared regions, termination. |
| `PageStore` | abstract specification of the memory: pages with a holder, written by their holder only, and taken from it only if they belong to a shared region. |
| `PagingProperties`, `PagingProofs` | the memory's properties and refinement mapping; theorems. |
| `Machine` | the virtual machine of a program: registers, comparison flags, stack and heap, and how processes share the one CPU. |
| `MachineProperties`, `MachineProofs`, `MCMachine` | its properties; theorems; instructions per process and the view for TLC. |
| `MidOS` | the kernel composed with the memory: what the kernel alone leaves open (does this access block, fault, end the program?) is what the page table answers. |
| `MidOSProperties` | what both keep together. |
| `MidOSProofs` | theorems of the composition: what it inherits from the kernel and from the memory, and what both keep together. |

### How state and actions correspond to the code

A process is its pid (programs `1..N`, idle 999). `pc` says where the thread is:
`dispatch` (top of `start()`'s loop), `execute` (before an instruction),
`release` (inside `releaseAllHeldLocks`), `callback` and `cycleEnd` (after the
instruction), `halted`, `crashed`. Each PCB field that the control depends on
is a variable of the same name. `flags` is the set of raised request flags,
`locks`, `lockWaitQueues`, `eventStates`, `eventWaitQueues` and `readyQueue` are
the containers. Loops over several processes (waking sleepers, waking waiters of
an event, releasing the locks of an exiting process) take one step per element,
in the order of the code, with nothing in between.

**Programs.** A workload is a set of opcodes and operands; a process may execute
any of them at each cycle, so a run covers every program made of them. What a
program must remember is an instruction it will meet *again*: when the code
returns without moving register 11 the instruction is kept in `redo[p]`, and is
the next one `p` executes. `CodeLost` lifts this for processes that run on after
being killed (their pages are freed) and when memory is short (section 7).
The other instructions (arithmetic, moves, jumps, print, `Alloc`, ...) are the
action `Step`; each way to raise `terminated` (unknown opcode, bad register,
stack check, illegal access) is `Fault`; a page fault that throws is
`MemoryBlock`, enabled exactly when the code's test of the process list allows
it; one that ends in `exit(1)` is `MemoryFatal`.

**Locks and events** named by a register and by an immediate differ only in where
the number comes from; numbers out of range do nothing, like `Step`.

**The memory.** `Paging` has `paging_table`, `freePages`, `swapSpace` and `mem`
as variables, with one value per page. A call of `getaddress` is a request in
`access` that goes through one action per branch: `Illegal`, `Block`, `Fatal`,
`Evict` (`findLRUPage` and `swapOutPage`), `MapMissing` (the first allocation,
whose frame `mapPage` enters as not valid), `SwapIn` (the second) and `Hit`; and
`Resume`, when the caller takes the answer. Nothing else happens meanwhile. Which
free frame `allocatePage` returns is open, as the order of an `unordered_set`
is. `lastUsedTime` is kept as the order it is compared for (`usedBefore`). A load
(`StartLoad`) maps pages as the loader's first loop does and then requests the
pages of code one by one. `Stores` is `set8`: it writes a frame and marks as
dirty the page whose *virtual* number is that frame's.

**The machine.** `Machine` has the CPU's registers and flags (`cpu`), what
`saveState` has put into each PCB (`pcb`), `heapEnd` and the allocations. Words
are `0..WordSize-1` and wrap around. When a process leaves the processor is left
open, so a quantum, a sleep or a wake-up may come after any instruction.
`compared` is a history variable: the outcome of each process's last comparison.

**The composition.** `MidOS` EXTENDS the kernel and INSTANCEs the memory. The
kernel stands still while a call of `getaddress` takes its steps (`MemoryStep`)
and goes on with the answer: `EndLoad`, `Use`, `Direct`, `Execute`, `Terminated`.
Whether a call may block is asked of the kernel's state at the place of the
call (`OsBlocks`), as `getaddress` asks the operating system. A program has
`CodePages` pages of code (its instruction list is there twice, because the
constructor of `Program` and `loadProcess` both parse it), which its load asks for
one after the other, in `start()` and in `unblockProcesses` alike. An instruction
is fetched from any of them (`Fetch`) and may then read or store to its own code
and to the pages in `DataPages` (`Use`), or push and map a shared region without
`getaddress` (`Direct`), before it computes, sleeps, sets a priority, exits, blocks
or faults (`Execute`); `accesses` counts up to the bound `MaxAccesses`. Locks, events
and `TerminateProcess` are not part of it.

**Left out of the state**: counters nothing reads (`totalClockCycles`,
`contextSwitches`, `waitingForLock`, `originalPriority`, the CPU's
`systemClock`), and `switchProcess` at the end of the loop, which is dead code
because `run()` returns only with a flag raised.

## 3. Runs

All kernel runs use `Quantum = 2` instead of 10 (only "not yet" and "reached"
matter) and two or three user programs beside the idle process: one to run, one
to wait and one to compete is what every queue and tie-break of the code needs.
No run uses symmetry, because pids decide priorities and ties.

| Run (`.cfg`) | Question | Result |
|---|---|---|
| `ready_queue` (`HeapLoops`) | Does each push and pop of the library's loops leave the vector exactly as `Push` and `Pop` say, on all queues up to 7 entries, processes queued twice and priorities changed while queued included? | holds |
| `sync` (`KSync`) | Three programs, two locks (nested, crosswise), one event, priorities 1 (refused), 3 and 40 (refused), exits: types, each process in exactly one place, the idle process only when nobody is ready, the lock table and the priority bag implemented, no early halt | holds |
| `sleepers` (`KSleepers`) | Sleeps, wake-ups, preemptions and priority changes of three programs: does `run()` always return, does every sleep of one cycle or more end, does the idle process stop for whoever wakes, is the highest process dispatched, no Ready process lost, no early halt | holds under fairness |
| `killer` (`KKiller`) | Faults, kills, memory blocks and crashes among three lockers and waiters: each living process in its place, no lock taken from its owner, the lock table implemented | holds |
| `stale_flags` (`KStale`) | What survives when flags go stale, the dead leave queue entries and programs overwrite register 12; among it, does every step of `run()` still take it nearer to its end | holds |
| `paging` (`MCPaging`) | Two programs of one page of code and the idle process on two frames, a page touched by both, a shared region, stores within their page and one without translation that misses the programs' frames: is each frame used once, is the LRU victim unique, does the idle page stay, are frames kept, is `PageStore` implemented | holds |
| `machine` (`MCMachine`) | Two processes in turns on three-bit words, one with all instructions: own registers, each process's run that of a machine of its own, jumps after comparisons, heap blocks, stack checks | holds |
| `midos` (`MCMidOS`) | Four programs of two pages of code on two frames, each frame wanted by everybody: does the load of `unblockProcesses` throw only for want of frames, does anybody run unloaded, do the dead leave pages, does `run()` return | holds under fairness |
| `wrong_terminated`, `memory_deadlock`, `swap_loses_data`, `unblock_throws` (`V*.cfg`) | Section 5 | violated |

**Bounds.** `NextCycle` stops counting at the quantum, with which the count is
compared. Sleep durations are 0, 1 and 2: zero, the last cycle, and enough to
overlap with other sleepers and with the quantum.
`SignBit` stands for 2^31, where an unsigned cycle count read as an `int` turns
negative; it lies beyond every sleep of the runs. Two locks
let an `Exit` visit more than one and let programs nest them; one is enough where the question is
who loses or keeps a lock, and one event where it is who is woken. Queue lengths
need no bound where each process is in one place (`InItsPlace` says so, and is
proved). In
`KStale` it is not (a process that a stale flag resurrects may queue again and
again), and the CONSTRAINT `CopiesBound` cuts behaviours at `MaxCopies = 3`
entries over all queues, which leaves room for the duplicate entries the run is
about: it has two programs and the idle process. `KStale` is the only run with a
constraint, and it checks safety properties only.

*Memory.* Two frames and two programs of which each maps two pages through its
loader, touches page 0 (program 1's code) and page 256 (the shared region, or
unmapped) make every branch of `getaddress` happen with and without a free frame;
`PageCount` is also the number of pages the loader maps. `Ending` names the
processes a run may terminate; the idle process's own termination (a stale flag)
is covered by the theorems and by `midos`. The pages hold 0 or 1.

*Machine.* `WordSize = 8` with a heap of one byte and a stack of five: the stack
pointer wraps around in both directions, one push fits and a second overflows,
and `MaxBlocks = 2` allocations reach the stack. `MaxBlocks` also stands for the
code's freedom to wrap `heapEnd` around after eight million allocations, which is
left out. The VIEW `Live` identifies states that differ only in registers which
are overwritten before anybody reads them: the PCB copy of the process that
runs or has ended, and the CPU's registers when nobody runs. `Dispatch` and `Leave`
overwrite them whole, and no property reads them, but for `AsIfAlone`, to which only
matters that a step leaves the copy alone or writes it as `Leave` does.

*System.* Two frames, five pages per program (so that memory is smaller than a
program), of which two hold code: a load needs both frames at once, and a
termination may free one of them or both. Four programs, because when one
terminates there should be one blocked in its load, a Ready one, without which no
page fault blocks, and a third that has taken frames meanwhile. They set their priority to 2: otherwise the process that evicts and
terminates is the highest, and the one that `unblockProcesses` picks hardly ever
finds its frames taken. With `Quantum = 1` the turn changes after each instruction.
`MaxAccesses = 2` lets an instruction fault after its fetch, in its second access
or by a push (`RawFrames`). Program 1's loader, which exchanges pages 1 and 2, maps
page 2 in the place of its second page of code; that page is then touched unmapped
and costs program 1 a second frame. All pages hold 0, since no property of the run
reads them. Not reached in this run: illegal answers, `exit(1)` for want of a victim,
and the idle process's end. The theorems cover them.

**Workloads are part of the statements.** `InItsPlace` and `HaltOnlyWhenDone`
do *not* hold when a sleeper's wake-up can coincide with another flag
(section 5); the runs that check them leave out either sleeping or the
instructions that raise the other flag, which is `CalmWorkload` of the proofs.
`DispatchesHighest` holds without lock boosts. `NoLostReady`,
`IdleOnlyWhenNobodyReady` and `BagSpec` hold of every workload. `OnlyOwnerReleases`, `ExitReleasesItsOwn` and `TableSpec` need programs
that do not write register 12. `FreeLockHasNoWaiters` and
`SignalledEventHasNoWaiters` need nothing.

The memory's properties name theirs too: `FramesUsedOnce` and `StoreSpec` are
about the time before the first termination (section 5, "after a termination"),
and `StoreSpec` about programs with one page of code (the loader writes an instruction
that crosses a page end into the next frame) whose stores stay within their page
and, when they are not translated, off the frames of others; each of the three
breaks it. `RunsLoaded` needs a memory of no more pages than a program has (section 5,
"a memory larger than a program"), and `UnblockNeverThrows` says what the code gives:
with enough free frames nothing throws. That it may throw without is
`unblock_throws`.

**Fairness.** `FairSpec` is `WF_vars(Next)`, `FairSystemSpec` the same for the
composed system: the simulator is one thread that
never waits for anything but its own loop, so the only assumption is that it
keeps running. No single action is assumed fair. `RunReturns` then rests on
the quantum alone and `SleeperWakes` on the idle process, whose quantum is the
shortest sleep. `Stopped` is an action of its own so that the end of the program
is not taken for a deadlock; TLC's deadlock check stays on in every run.

## 4. Properties

* `FreeLockHasNoWaiters`, `SignalledEventHasNoWaiters`: no lost wake-up.
* `TableSpec`: the lock instructions implement `LockTable` (only a free lock that
  nobody waits for is taken, only the running owner gives it up, in one step to
  a waiter of the highest priority).
* `OnlyOwnerReleases`, `ExitReleasesItsOwn`: nobody loses a lock to another.
* `BagSpec`: the ready queue implements `PriorityBag` (a push adds one process and a
  pop takes one; it takes one of the highest priority unless the priority of a
  queued process has changed since the queue was last in order).
* `InItsPlace`: at each dispatch a living process is once in the ready queue, once
  in one wait queue, or in none because it sleeps or is blocked on memory.
* `NoLostReady`: no Ready process is outside the ready queue, even with stale flags.
* `SameAsLoops`: a push or pop of the library leaves the vector as `Push` and `Pop` say.
* `DispatchesHighest`, `IdleOnlyWhenNobodyReady`, `HaltOnlyWhenDone`: scheduling.
* `RunAdvances`: no step of `run()` leaves it as far from its end as before: the turns
  its loop has left go down, or the turn goes on to its next stage, or that stage
  has one process fewer to serve. Where no instruction asks to
  leave, only the test of the cycles against the quantum ends `run()`, and the idle
  process's quantum changes between its turns while its cycles may stay.
* `IdleEndsInTime`: in the cycle in which the callback finds a sleeper due, the idle
  process's turn ends, whether or not the sleeper passes the (odd) preemption test.
* `RunReturns`, `SleeperWakes`: progress. In `midos`, `RunReturns` says also that a
  `getaddress` call always ends, and that the retries of page faults do.
* `FramesUsedOnce`, `FramesAreKept`: no frame backs two pages or is free besides,
  and no frame is lost but by the double allocation of a first touch and by
  `MapSharedMem`.
* `OneVictim`, `IdleResident`: the LRU times stay distinct; the idle page stays.
* `StoreSpec`: a page in memory changes only by its holder's own stores while its
  holder runs, and no page is taken from its holder but one of a shared region,
  whatever is evicted, mapped or loaded.
* `JumpsTakeTheOutcome`, `OwnMachine`: programs do not see each other's flags and
  registers.
* `AsIfAlone`: each process's steps, on the registers and flags it finds wherever
  they are kept, are steps of a `Machine` with that process only, and the steps of the
  others are none of its own (`Solo(p)`, an instance of the module itself). This is
  what `saveState` and `restoreState` are for.
* `BlocksDisjoint`, `PushesMissTheHeap`: heap blocks apart from each other and
  from the pushes that pass the stack check.
* `UnblockNeverThrows`: the load that `unblockProcesses` makes outside every `try`
  throws only for want of frames: once as many are free as the program has pages of
  code not in memory, they stay enough until the load is done.
* `RunsLoaded`, `PagesOfTheLiving`: kernel and memory agree on who is loaded, who is
  alive and what a termination has freed.

Every property of a passing run has a mutant: a definition of the model changed
as a plausible bug would change the code (operators marked "Mutant of" beside
the original), under which TLC finds the property violated.

## 5. Where the repository says otherwise

Each of these runs violates one statement of the documentation or of a comment.

1. **`TerminatesTheFaulty`** (`wrong_terminated`; `docs/README.md:83`). A fault in
   the cycle in which a sleeper wakes: the preemption is handled, `terminated`
   stays up, the process that runs next is terminated and the faulty one runs on.
   Reproduced with the compiled program.
2. **`NotAllBlockedOnMemory`** (`memory_deadlock`; `docs/README.md:48`). A process
   blocks for memory because another "sleeps or waits", which may itself be blocked
   on memory; only a termination unblocks. Found on the composed system, so with
   the page faults of the real page table. Reproduced with the compiled program
   (256 bytes, three sleepers, heap and shared-memory tests): the idle process runs
   for ever.
3. **`EvictionKeepsData`** (`swap_loses_data`; `src/memory.cpp:457`). `set8` marks
   the wrong page dirty: it looks up the physical address as if it were virtual. A
   page that was written is then evicted as clean, and comes back with whatever its
   new frame held ("zero-filled" at line 259 fills nothing).
4. **`UnblockLoads`** (`unblock_throws`; `src/OperatingSystem.cpp:514`). "Loads the
   process back into memory and moves it to the ready state." A termination frees
   one frame; the blocked process that `unblockProcesses` picks has two pages of
   code, the first comes in, and the second finds no frame while another process is
   Ready. `getaddress` throws, `start()` calls `unblockProcesses` outside every `try`
   (line 348), and the simulator ends. Two pages of code are about fifteen
   instructions, since the list is there twice; `test_opcodes.txt` is longer.
   Reproduced with the compiled program (512 bytes, three such programs): it aborts
   with `BLOCKED_PAGE_FAULT` in the termination of process 2.

More disagreements were met while modelling; they follow from the code at sight
and have no run:

* *Priorities.* Boosting an owner that is queued (`src/cpu.cpp:577`) does not re-sift
  the heap, so a lower process may be dispatched first (`include/ProcessScheduler.h:36`
  says "ordered by priority"); `DispatchesHighest` is checked without boosts. The
  boost is never taken back (`docs/README.md:74`; `originalPriority`, set at
  `src/pcb.cpp:40`, is never read), and an owner that sleeps or waits is not found by
  `getProcessByPid`: whoever then waits for its lock does not raise its priority. The
  preemption test compares a priority with a pid (`src/OperatingSystem.cpp:164`).
* *The dead.* A process that faults or is killed keeps its locks
  (`docs/README.md:69`); a killed process that waits is made Ready by a signal and
  runs again. With the stale flag of 1 the idle process may be terminated and
  `start()` then halts early; with a stale `waitingOnLock` a process waits in no
  queue for ever.
* *Sleep.* A sleep of zero cycles never ends, because the callback passes over
  counters of 0 (`SleeperWakes` is about sleeps with cycles left). A sleep of 2^31
  cycles or more is negative as the `int` of the minimum (`src/OperatingSystem.cpp:206`),
  so it is the shortest, and the quantum it gives the idle process is longer than
  any other sleep: a sleeper that wakes without forcing a preemption waits until
  it is over. `IdleEndsInTime` is proved for sleeps below that (`ShortSleeps`).
* *A memory larger than a program.* The loader maps as many pages as the machine
  has, from the program's own on; with more frames than a program has pages these
  are the next program's, whose load is then an illegal access that `start()`
  swallows ("always means a blocked request", `src/OperatingSystem.cpp:242`).
  Reproduced with the compiled program (5000 bytes): process 2 is terminated at its
  first instruction.
* *After a termination.* `deallocateProcessPages` frees the frame of evicted entries
  too, which another page may use by then: two pages may share a frame. The same
  excess is why programs of one page of code never make `unblockProcesses` throw
  (`OnePageAlwaysLoads`). One process is unblocked per
  termination, even if there is room for more.
* *Shared regions.* `mapPage` enters a region's page as not valid, so the first
  access takes an ordinary frame: the region's own physical page is never used. A
  second `MapSharedMem` takes the page from the first mapper, whose next access is
  illegal.
* *Stack.* `Pushr`, `Pushi` and `Callm` store to the stack pointer as a physical
  address, pops translate it (`docs/README.md:65` says all accesses are validated).
  `Popr` and `Popm` move the pointer first and read the word above the top. `Call`
  that meets a page fault moves the pointer again when retried. `Callm` pushes its
  own address, not the next instruction's.
* *Flags.* "Less" and "equal" set one flag and leave the other as it was, so `Je`
  may jump after "less".
* *Heap.* Blocks begin where the heap segment ends, inside the stack, and each
  request may be as large as the whole heap. Allocations of zero bytes share an
  address.

## 6. Proofs

Every invariant and every action property of a passing run is a theorem; what stays
with TLC is at the end of this section.

**Kernel (`KernelProofs`).** For every `N` in 1..31 and every workload that the
assumptions `NAssumption` and `OperandAssumption` allow (lock numbers 1..10,
event numbers 0..9, operands in range). The theorems of the next two tables need
no more either, but for the hypotheses they name.

| Theorem | Statement | Argument |
|---|---|---|
| `TypeCorrect` | `Spec => []TypeOK` | inductive as it stands; one lemma per group of actions. `PushType`, `PopType` and `WithoutType` show that the closed forms of the heap operations stay within the queue, which is where it is not obvious. |
| `NoLostLockWakeUp` | `Spec => []FreeLockHasNoWaiters` | inductive together with `TypeOK` (a waiter handed the lock is a process, hence not the free owner -1). `TableSteps` reduces `Next` to the four steps that touch the table. |
| `NoLostEventWakeUp` | `Spec => []SignalledEventHasNoWaiters` | the same with `EventSteps`. |
| `ExitFreesItsOwnLocks` | without writes to register 12, `Spec => []ExitReleasesItsOwn` | the strengthening the next two need: register 12 names the running process from dispatch to the end of the run, and `releasing` holds locks of that process. `Exit` computes its set from register 12, so nothing weaker is inductive. |
| `OwnersKeepTheirLocks` | without writes to register 12, `Spec => OnlyOwnerReleases` | `OwnerRuns`, from the invariant above. |
| `ImplementsLockTable` | without writes to register 12, `Spec => TableSpec` | initial states map to initial states (`TableInit`); under the three invariants each step is `Take`, `Enqueue`, `Grant`, `Free` or leaves the table alone (`TableStep`). `FreeLockHasNoWaiters` is what makes an acquisition a `Take`. |

**Scheduling (`HeapLoopsProofs`, `ReadyQueueProofs`, `SchedulingProofs`).** For every
workload, stale flags, kills and writes to register 12 included. The first theorem
is about the library alone: all sets of processes and priorities, queues of any
length.

| Theorem | Statement | Argument |
|---|---|---|
| `LoopsComputePushAndPop` | `Spec => SameAsLoops` of `HeapLoops` | the loop invariant `LoopInv`. While `__push_heap` runs, the vector is the one it found with the entries of the path below the hole moved down one place, and the new entry precedes each of them (`PushInv`). While `__adjust_heap` runs, the entries on the path to the hole have moved up one place; once the hole rises again, those below it go back down (`PopInv`). At the end the hole is where `Push` and `Pop` say: the place at which the climb stops is unique. |
| `ImplementsPriorityBag` | `Spec => BagSpec` | `PushCopies` and `PopCopies` count the copies of each process, `PushHeap` and `PopHeap` keep the order, `HeapTop` makes the front a highest process; `QueueSteps` shows that each step of the kernel pushes one, pops one or leaves the queue alone. |
| `NothingReadyIsLost` | `Spec => []NoLostReady` | inductive with `AddedInTime` (the waiters of a signalled event are queued before the callback); per action, whoever becomes Ready is pushed, and whoever is popped stops being Ready or is dead. |
| `IdleRunsLast` | `Spec => IdleOnlyWhenNobodyReady` | a boost may leave the heap out of order, so its order cannot be the invariant. What survives is weaker and enough: no user process stands below the idle process (`UsersAboveIdle`), because its priority is 1, everybody else's is 2 or more, and no boost or `SetPriority` changes that (`IdleIsLowest`; the idle process never owns a lock, `IdleTakesNoLock`). |
| `RunComesToItsEnd` | `Spec => RunAdvances` | the safety half of `RunReturns`: the measure `<<TurnsLeft, StagesLeft, ToServe>>` of naturals falls lexicographically with every step inside `run()`. It needs that no counter or quantum exceeds the longest the workload can give (`SleepsBounded`), that nobody is left to be queued when the callback starts (`AddedInTime`), and that once an instruction is done a cycle is left or a flag is up (`QuantumNoticed`). |
| `IdleNeverOverstays` | `ShortSleeps`: `Spec => []IdleEndsInTime` | the safety half of `SleeperWakes`. `IdleInv`: while the idle process runs, what is left of its quantum is no more than any sleeper's counter (`IdleQuantumCovered`, with the cycle the callback has not yet counted; nobody falls asleep within `run()`), the idle process does not sleep itself (`IdleAwake`), so that it is over when somebody is due (`IdleQuantumOver`) and has been noticed (`IdleExpires`). A turn that a stale flag or a preemption cut short leaves cycles counted, which only shortens the next. |

The lemmas on `Push` and `Pop` go along the paths of the tree: `Push` moves entries
down one path and `Pop` up another (`PushIsMove`, `PopIsMove`), and both are
one-to-one, which is why no copy is lost. Where an induction is needed, such as
that an order passed from parent to child reaches the root, the proof takes the
least position at which it fails: `LeastNumber` (from the library's theorem that
`<` on the naturals is well-founded) stands in for the induction theorems, which
take an operator as a parameter. `PushHeap` and `PopHeap` reduce
the heap to "for each rank, the entries of at least that rank come above the
others" (`HeapByRank`), which is also the form `UsersAboveIdle` has.

**Places (`PlaceProofs`).** `CalmWorkload` says that programs do not sleep, or
else use none of the instructions that fault, block, exit, kill, acquire or
wait. It is the condition under which a request flag is served before another
process runs: only a waking sleeper preempts, and only a preemption leaves another
flag up. Without it the statements are false (section 5); both halves of it are
workloads of the runs (`sync` and `killer`, `sleepers`).

| Theorem | Statement | Argument |
|---|---|---|
| `EveryoneHasAPlace` | `CalmWorkload`: `Spec => []PlaceInv` | the inductive invariant: at *every* step, inside `run()` too, a process has the processor and is in no queue, or is in exactly one place, which its state names; a killed one may stay in a queue, but once. It takes what the handlers rely on: one request at a time (`OneRequest`), a process that has begun to wait is served before anything else (`WaitsToBeServed`), only living sleepers are woken (`SleepersWake`), and what the idle process can be (`IdleStates`, `IdleNeverWaits`). |
| `EveryoneInPlace` | `CalmWorkload`: `Spec => []InItsPlace` | `PlaceInv` at `dispatch`, with the copies counted over all wait queues. |
| `StartDoesNotGiveUp` | `CalmWorkload`, `IdleSpared`: `Spec => []HaltOnlyWhenDone` | the queue is empty but for the idle process, so all others sleep or wait, and `start()` dispatches the idle process. `IdleSpared`: no program kills pid 999, which a program can. |
| `HighestRunsFirst` | `CalmWorkload`, no `AcquireLock`: `Spec => DispatchesHighest` | the heap stays in order, because `SetPriority` changes the priority of the process that executes it, which `PlaceInv` says is in no queue. |

**Memory (`PagingProofs`).** For every set of programs, number of frames and pages,
and set of regions, pages touched and values (`PagingAssumption`).

| Theorem | Statement | Argument |
|---|---|---|
| `PagingTypeCorrect` | `Spec => []PagingTypeOK` | needs `CallInv`: what a call under way may ask for (a load asks for the pages of its own program, nobody gone makes a call). |
| `FramesBackOnePage` | `Spec => []FramesUsedOnce` | `FrameInv`: before the first termination user frames in use are pairwise distinct and not free, and free frames are user frames. Not-valid entries may name any frame, so the invariant is about valid ones only, and `SwapIn` needs that `allocatePage` removes what it returns. |
| `IdlePageStays` | `Spec => []IdleResident` | inductive with the types: eviction skips pid 999, and no loader, mapping or termination of another names page 240 (`0xF000`). |
| `NoFrameLost` | `Spec => FramesAreKept` | one case per action. |
| `VictimIsUnique` | `Spec => []OneVictim` | `OrderInv`: the order of use is a strict order of the pages that may be evicted, total but for the page a call has just brought in, and the pages are finitely many (`Bounded`). A finite strict order has a least element (`LeastOf`, by the library's theorem that strict inclusion of finite sets is well-founded). |
| `PagingImplementsStore` | `StoresStay` implies `Spec => StoreSpec` | `Hit` maps to `Write` or stutters, `SwapIn` to `Recall`, the first termination to `GiveUp`, everything else to `Forget`, which takes a page from its holder only if it is a shared region's. `StoresStay` (no store past its page's end, code of one page, untranslated stores off user frames) is a condition on the programs; frame uniqueness is what makes a store change one page only. |

**Machine (`MachineProofs`).** For every set of processes and registers, all sizes,
every word size and all programs (`MachineAssumption`).

| Theorem | Statement | Argument |
|---|---|---|
| `MachineTypeCorrect` | `Spec => []MachineTypeOK` | wrap-around keeps registers words; `Alloc`'s guard keeps `heapEnd` one. |
| `JumpsFollowComparisons` | `Spec => []JumpsTakeTheOutcome` | inductive over `MachineOf`: a switch moves a machine between CPU and PCB and changes neither flags nor history. |
| `MachinesAreOwn` | `Spec => OwnMachine` | one step per action. |
| `EachRunsAsIfAlone` | `Spec => AsIfAlone` | `Fresh`: between two turns no flag of the CPU asks to leave and no jump is under way. Then each action of the running process is the action of its `Solo` machine (`SoloKeeps`, `SoloComputes`, `SoloUsesStack`, `SoloUsesHeap`), a switch is a switch of the process it concerns (`SoloSwitches`), and all other processes stutter (`SoloStutters`): their view reads nothing that the step changes. |
| `BlocksNeverOverlap` | `Spec => []BlocksDisjoint` | blocks ordered below `heapEnd`, which never falls; freeing changes no address. |
| `PushesNeverReachTheHeap` | `Spec => PushesMissTheHeap` | from the invariant: `heapEnd` bounds every block, and the check bounds the pointer by `heapEnd`. |

The proof of `VictimIsUnique` corrected the model: `UsedLast` ordered no page
after an access to the idle process's page, but that page may be touched by a user
once the idle process has been terminated, and is then evicted like any other. TLC
confirmed the case on `paging` with the idle process in `Ending`.

**System (`MidOSProofs`).** For every number of programs, pages of code, frames and
pages, all data pages, regions, store kinds and push targets. `SeparatePrograms` says
that no loader maps the pages of another program (`PageCount <= ProgramPages`), that a
program has three pages at least, and that no page of code is a data page, a region's
or the idle process's. Without the first a loader takes the next program's pages
(section 5). Nothing is assumed about how many pages of code a program has but where
a row says so.

| Theorem | Statement | Argument |
|---|---|---|
| `SystemTypeCorrect` | `SystemSpec => []TypeOK` | from `TypeCorrect`, by the lemma `SystemIsKernel`, which holds by the way the system is composed. |
| `SystemIsMemory` | `SystemSpec => Memory!Spec` | less obvious: every call the kernel makes must be one `Paging` allows: an instruction asks for pages of code or data and stores what the memory knows, a termination names a process (`Current` is one by `TypeOK`). `MemoryAssumption` shows that the system's constants meet `PagingAssumption`, so the theorems of `PagingProofs` hold of the system's memory. |
| `SystemMemoryIsSafe` | `SystemSpec` implies always `PagingTypeOK`, `FramesUsedOnce`, `IdleResident` and `OneVictim` of its memory | the theorems of `PagingProofs`, instantiated with the system's constants (`Paged`), and `SystemIsMemory`. |
| `SystemFramesAreKept` | the same for `FramesAreKept` | the same. |
| `SystemImplementsStore` | `StoresStay`: `SystemSpec => Memory!StoreSpec` | the same. `StoresStay` is the condition of `PagingImplementsStore` on the system's programs: no store past its page's end, one page of code, pushes off the frames of programs and of the idle process. |
| `DeadLeaveNothing` | `SystemSpec => []PagesOfTheLiving` | `LifeInv` (the kernel runs and wakes living processes only) and `PageInv` (each page, and each call, is of a living process whose pages have not been freed). |
| `SystemAlways` | `SeparatePrograms`: `SystemSpec => []SystemInv` | the inductive invariant of both parts, with `LifeInv` and `PageInv`. `CodeInv`: a program's pages of code are mapped by it alone; `LoadedInv`: `isLoaded` is what the memory says; `CallsInv`: who makes the call under way and for what. |
| `RunningIsLoaded` | `SeparatePrograms`: `SystemSpec => []RunsLoaded` | from `LoadedInv`. |
| `UnblockIsSafe` | `SeparatePrograms`, `LoaderCovers`: `SystemSpec => UnblockNeverThrows` | `LoaderCovers`: the loader maps each page of code, so that none is touched unmapped, which would cost two frames. `RoomInv`: while a load is under way its pages of code are mapped, and the load a termination makes has blocked only where there was no room. With `CodeInv` no request is illegal; each page that comes in takes one frame and leaves one page fewer to load (`RoomShrinks`), so that room stays room and is never exceeded (`UnblockStep`). |
| `OnePageAlwaysLoads` | `SeparatePrograms`, `CodePages = 1`: `SystemSpec => [](pc = "crashed" => access.status = "fatal")` | where one page is enough there is always room: the dead process had a page of code, whose frame `deallocateProcessPages` frees whether or not it had been evicted (section 5). So the load never throws, and what is left is the `exit(1)` of `getaddress`. |

**Only model-checked**: the liveness properties `SleeperWakes` and `RunReturns`.
Liveness under fairness is out of the prover's reach. Their safety halves are
proved: with `RunComesToItsEnd`, what is left of `RunReturns` is that the thread keeps
running and that every point within `run()` has a next step; of `SleeperWakes`,
that the processes above the sleeper leave the processor again and again, and
that the idle process is dispatched when they do.

## 7. What is not modelled, and abstractions to know of

* Memory contents are one value per page; byte offsets within a page, and what the
  bytes mean to the CPU, are not in `Paging`. The kernel alone knows only that an
  access may block, fault or end the program, and the bytes of an interrupted
  instruction may change only as `CodeLost` says.
* A process that runs again after it was killed touches pages that were freed; the
  kernel model lets it run (`CodeLost`), `Paging` and `Machine` end with it.
* A process that is dispatched unloaded and later loads again does so from its
  saved instruction pointer; `Paging` loads it from its first page.
* In `MidOS` programs use no locks and events and do not kill, and the idle process
  has one page, which it only reads. Operand accesses are reads and stores of any
  number up to `MaxAccesses`, in any order; an instruction whose second half lies on
  the next page of code is such an operand. In the run, programs store by pushes only
  and touch no data pages or regions; illegal and fatal answers and `DropTerminated`,
  `DispatchNobody` and `NoRunningProcess` do not happen in it.
* Register numbers are valid. The code checks most of them and faults; where it
  does not (`Addr`, `Cmpi`, pushes, jumps, ...) an index above 14 reads past the
  register array, which is undefined and left out.
* The registers of a new PCB are uninitialised (`include/pcb.h:45`): `Machine` starts
  them with any words.
* The idle process never faults for memory: its page is never evicted
  (`IdleResident`) and its three instructions lie in it.
* Register 12 is set to pids only; with -1 `releaseAllHeldLocks` would match free
  locks and read past `lockWaitQueues`, which is undefined and left out.
* `heapEnd` does not wrap around (`Alloc`'s guard).
* Console I/O, hex formatting and text parsing have no state that anything reads.

## 8. Plan

Done: the kernel, the memory, the machine, the composition of kernel and memory,
three abstract specifications with their refinements, the library's heap as the
loops it is, and a theorem for each invariant and action property of the passing
runs (section 6). What is left, in this order:

1. Of `PlaceInv`, what remains true in workloads that are not calm, such as the
   composed system's, whose programs sleep and end.
2. `MidOS` with locks, events and `TerminateProcess`, and an abstract specification
   of the system per process: a program's steps, its blocks and its end.
3. `Machine` composed with `Paging`: the stack's words in the pages they lie on.
