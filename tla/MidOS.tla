-------------------------------- MODULE MidOS --------------------------------
(***************************************************************************)
(* The operating system on its memory: the kernel of OperatingSystem.tla   *)
(* calls the memory of Paging.tla to load programs, to fetch instructions, *)
(* to read data and to free the pages of the dead, and what the kernel     *)
(* alone leaves open (whether an access blocks, is illegal or ends the     *)
(* program) is what the memory answers.                                    *)
(*                                                                         *)
(* There is one thread.  A call of getaddress is a number of steps of the  *)
(* memory in which the kernel stands still; the kernel's own step follows  *)
(* when the call is answered.  Programs read and write memory, push, map   *)
(* shared regions, compute, sleep, set their priority and exit.            *)
(***************************************************************************)
EXTENDS KernelProperties

CONSTANTS
    PageCount,     \* physical pages for programs
    ProgramPages,  \* pages of a program
    CodePages,     \* how many of them hold instructions
    DataPages,     \* pages the programs' instructions name
    Regions,       \* shared regions they map
    StoreKinds,    \* their stores: "write" within a page, "spill" over its end
    RawFrames,     \* physical pages they push to
    Values,        \* what a page may hold; 0 is what memory starts with
    Code,          \* what a page of code holds
    MaxAccesses    \* bound on the accesses of an instruction, its fetch included

ASSUME SystemAssumption ==
    /\ PageCount \in Nat \ {0}
    /\ ProgramPages \in Nat \ {0}
    /\ CodePages \in 1..ProgramPages
    /\ DataPages \subseteq Nat
    /\ Regions \subseteq 0..9
    /\ StoreKinds \subseteq {"write", "spill"}
    /\ RawFrames \subseteq 0..(PageCount + 40)
    /\ Values \subseteq Nat /\ {0, Code} \subseteq Values
    /\ MaxAccesses \in Nat \ {0}

VARIABLES
    pageTable, freePages, swapSpace, mem, usedBefore, access, stage,
    accesses  \* how many the instruction under way has made

\* The program list is the source's twice over, from the program's start on.
ProgramCode(p) == {(p - 1) * ProgramPages + i : i \in 0..(CodePages - 1)}

AllCode == UNION {ProgramCode(p) : p \in Users}

Memory == INSTANCE PagingProperties WITH
    Programs <- Users, Touched <- AllCode \cup DataPages, Ending <- Procs

memoryVars == <<pageTable, freePages, swapSpace, mem, usedBefore, access, stage>>
systemVars == <<vars, memoryVars, accesses>>

-----------------------------------------------------------------------------
NoCall == access.status = "none"

\* The kernel goes on with the answer to its call.
Answered(answer) == access.status = answer /\ Memory!Resume

\* getaddress has called exit(1).
Dead == access.status = "fatal" /\ UNCHANGED memoryVars

\* The kernel's own business.
Quiet == NoCall /\ UNCHANGED memoryVars

(***************************************************************************)
(* What getaddress sees of the operating system: the processes and states  *)
(* at the place of the call (a load before run(), an access of an          *)
(* instruction, or unblockProcesses in the handler of `terminated`).       *)
(***************************************************************************)
OsBlocks ==
    \/ pc = "dispatch" /\ MayBlock(processList, [state EXCEPT ![access.pid] = "Running"])
    \/ pc = "execute"  /\ MayBlock(processList, state)
    \/ pc = "cycleEnd" /\ MayBlock(processList \ {Current}, Killed(Current))

MemoryStep ==
    /\ \/ Memory!Hit \/ Memory!Illegal
       \/ \E f \in freePages : Memory!MapMissing(f) \/ Memory!SwapIn(f)
       \/ OsBlocks /\ Memory!Block
       \/ ~OsBlocks /\ Memory!Fatal
       \/ ~OsBlocks /\ \E v \in DOMAIN pageTable : Memory!Evict(v)
    /\ UNCHANGED <<vars, accesses>>

-----------------------------------------------------------------------------
(***************************************************************************)
(* Dispatch.                                                               *)
(***************************************************************************)
IsNext(p) ==
    /\ pc = "dispatch" /\ ~OnlyIdleRemains
    /\ readyQueue # <<>> /\ Top(readyQueue) = p /\ Runnable(p)

BeginLoad(p) ==
    /\ IsNext(p) /\ ~isLoaded[p]
    /\ NoCall
    /\ Memory!StartLoad(p)
    /\ UNCHANGED <<vars, accesses>>

EndLoad(p) ==
    /\ ~isLoaded[p]
    /\ \/ Answered("granted") /\ DispatchUser(p) /\ isLoaded'[p]
       \/ Answered("blocked") /\ LoadBlocks(p)
       \/ Answered("illegal") /\ DispatchUser(p) /\ ~isLoaded'[p]
       \/ Dead /\ LoadFatal(p)
    /\ UNCHANGED accesses

DispatchLoaded(p) == isLoaded[p] /\ DispatchUser(p)

-----------------------------------------------------------------------------
(***************************************************************************)
(* Instructions.                                                           *)
(***************************************************************************)
CodeOf(p) == IF p = Idle THEN {Memory!IdlePage} ELSE ProgramCode(p)

Running(p) == pc = "execute" /\ runningProcess = p

\* The instruction is fetched from one of the program's pages of code.
Fetch(p) ==
    /\ Running(p) /\ NoCall
    /\ \E v \in CodeOf(p) : Memory!Request(p, v, "read", 0)
    /\ accesses' = 1
    /\ UNCHANGED vars

\* Between two accesses of one instruction.
GoesOn(p) ==
    /\ Running(p) /\ p # Idle
    /\ access.status = "granted"
    /\ accesses < MaxAccesses
    /\ accesses' = accesses + 1

\* It reads or writes a page of data or of its own code; its last bytes may lie
\* on the next page of code.
Use(p, v) ==
    /\ GoesOn(p)
    /\ \/ Memory!Request(p, v, "read", 0)
       \/ \E kind \in StoreKinds, x \in Values : Memory!Request(p, v, kind, x)
    /\ UNCHANGED vars

\* What an instruction does to the memory without getaddress: a push stores
\* where the stack pointer says, MapSharedMem overwrites an entry.
Direct(p) ==
    /\ GoesOn(p)
    /\ \/ \E f \in RawFrames, x \in Values : Memory!RawStore(p, f, x)
       \/ \E r \in Regions : Memory!MapSharedMem(p, r)
    /\ UNCHANGED vars

\* The instruction ends: all its accesses were granted, or one has failed.
Execute(p) ==
    /\ \/ /\ Answered("granted")
          /\ \/ Step(p) \/ Exit(p)
             \/ \E d \in Durations : Sleep(p, d)
             \/ \E v \in PrioArgs : SetPriority(p, v)
       \/ Answered("blocked") /\ MemoryBlock(p)
       \/ Answered("illegal") /\ Fault(p)
       \/ Dead /\ MemoryFatal(p)
    /\ accesses' = 0

-----------------------------------------------------------------------------
(***************************************************************************)
(* The handler of `terminated`: free the pages, then unblockProcesses.     *)
(***************************************************************************)
Terminating == Handles("terminated")

FreePages ==
    /\ Terminating /\ stage[Current] # "gone"
    /\ Memory!Deallocate(Current)
    /\ UNCHANGED <<vars, accesses>>

\* Mutant of ToLoad: the blocked process is not loaded again.
NobodyToLoad == {}

\* The process unblockProcesses picks, if it was never loaded.
ToLoad == {p \in Users : /\ HighestBlocked(p, processList \ {Current}, Killed(Current))
                         /\ ~isLoaded[p]}

LoadUnblocked(p) ==
    /\ Terminating /\ stage[Current] = "gone"
    /\ NoCall
    /\ p \in ToLoad
    /\ Memory!StartLoad(p)
    /\ UNCHANGED <<vars, accesses>>

Terminated ==
    /\ Terminating /\ stage[Current] = "gone"
    /\ HandleTerminated
    /\ \/ ToLoad = {} /\ Quiet /\ pc' = "dispatch"
       \/ ToLoad # {} /\ Answered("granted") /\ pc' = "dispatch"
       \/ Answered("blocked") /\ pc' = "crashed"
       \/ Answered("illegal") /\ pc' = "crashed"
       \/ Dead /\ pc' = "crashed"
    /\ UNCHANGED accesses

-----------------------------------------------------------------------------
KernelAlone ==
    /\ \/ \E p \in Users : LoadProcess(p) \/ DispatchLoaded(p)
       \/ Halt \/ DropTerminated \/ DispatchIdle \/ DispatchNobody
       \/ NoRunningProcess \/ FinishExit \/ Callback \/ WakeUp \/ NextCycleOfRun
       \/ HandlePreemption \/ HandleSleep \/ HandleExpired \/ HandleBlocked
    /\ Quiet
    /\ UNCHANGED accesses

Ended == pc \in {"halted", "crashed"} /\ UNCHANGED systemVars

SystemInit == Init /\ Memory!Init /\ accesses = 0

SystemNext ==
    \/ KernelAlone
    \/ MemoryStep
    \/ \E p \in Users : BeginLoad(p) \/ EndLoad(p) \/ LoadUnblocked(p)
    \/ \E p \in Procs : \/ Fetch(p) \/ Direct(p) \/ Execute(p)
                         \/ \E v \in CodeOf(p) \cup DataPages : Use(p, v)
    \/ FreePages \/ Terminated
    \/ Ended

SystemSpec == SystemInit /\ [][SystemNext]_systemVars

=============================================================================
