------------------------------ MODULE MidOSProofs ------------------------------
(***************************************************************************)
(* The two parts do in the system what they do alone: with the memory      *)
(* hidden it is the kernel, with the kernel hidden it is the memory, for   *)
(* every number of programs, pages of code and frames.  What KernelProofs  *)
(* and PagingProofs prove of the parts therefore holds of the system.  The *)
(* second half is what neither part keeps alone: the dead leave no pages,  *)
(* whoever executes is loaded, and the load that a termination makes       *)
(* throws only for want of frames.                                         *)
(***************************************************************************)
EXTENDS MidOSProperties, KernelProofs

-----------------------------------------------------------------------------
\* The system's constants meet the assumption of Paging, from which
\* PagingProofs proves its theorems.
LEMMA MemoryAssumption ==
    /\ Users \subseteq 1..31 /\ Idle \in Nat \ (0..31)
    /\ AllCode \cup DataPages \subseteq Nat
    /\ RawFrames \subseteq Memory!Frames
    /\ Procs \subseteq Memory!Pids
<1>1. Users \subseteq 1..31 /\ Idle \in Nat \ (0..31)
  BY NAssumption DEF Users, Idle
<1>2. AllCode \subseteq Nat
  <2>1. ASSUME NEW p \in Users, NEW i \in 0..(CodePages - 1)
        PROVE  (p - 1) * ProgramPages + i \in Nat
    <3>1. (p - 1) * ProgramPages \in Nat
      BY NAssumption, SystemAssumption DEF Users
    <3> QED
      BY <3>1
  <2> QED
    BY <2>1 DEF AllCode, ProgramCode
<1>3. Procs \subseteq Memory!Pids
  BY DEF Procs, Memory!Pids
<1>4. RawFrames \subseteq Memory!Frames
  BY SystemAssumption DEF Memory!Frames, Memory!IdleFrame
<1> QED
  BY <1>1, <1>2, <1>3, <1>4, SystemAssumption

-----------------------------------------------------------------------------
(***************************************************************************)
(* With the memory hidden.                                                 *)
(***************************************************************************)
LEMMA StepIsKernelStep ==
    ASSUME [SystemNext]_systemVars
    PROVE  [Next]_vars
<1>1. CASE KernelAlone
  BY <1>1 DEF KernelAlone, DispatchLoaded, Next, Dispatch, Cycle, HandleFlag
<1>2. CASE MemoryStep
  BY <1>2 DEF MemoryStep
<1>3. ASSUME NEW p \in Users, BeginLoad(p) \/ EndLoad(p) \/ LoadUnblocked(p)
      PROVE  [Next]_vars
  BY <1>3 DEF BeginLoad, EndLoad, LoadUnblocked, Next, Dispatch
<1>4. ASSUME NEW p \in Procs, Fetch(p) \/ Direct(p) \/ \E v : Use(p, v)
      PROVE  [Next]_vars
  BY <1>4 DEF Fetch, Direct, Use
<1>5. ASSUME NEW p \in Procs, Execute(p)
      PROVE  [Next]_vars
  BY <1>5 DEF Execute, Next, Cycle, Computes, Schedules, Terminates
<1>6. CASE FreePages \/ Ended
  BY <1>6 DEF FreePages, Ended, systemVars
<1>7. CASE Terminated
  BY <1>7 DEF Terminated, Next, HandleFlag
<1>8. CASE UNCHANGED systemVars
  BY <1>8 DEF systemVars
<1> QED
  BY <1>1, <1>2, <1>3, <1>4, <1>5, <1>6, <1>7, <1>8 DEF SystemNext

\* The kernel on its memory does nothing the kernel of OperatingSystem.tla
\* could not do.
LEMMA SystemIsKernel == SystemSpec => Spec
<1>1. SystemInit => Init
  BY DEF SystemInit
<1> QED
  BY <1>1, StepIsKernelStep, PTL DEF SystemSpec, Spec

\* So what is proved of the kernel is true of the system: its type invariant.
THEOREM SystemTypeCorrect == SystemSpec => []TypeOK
BY SystemIsKernel, TypeCorrect, PTL

-----------------------------------------------------------------------------
(***************************************************************************)
(* With the kernel hidden.                                                 *)
(***************************************************************************)
\* An access of an instruction is a call the memory knows.
LEMMA AccessIsRequest ==
    ASSUME NEW p \in Procs, NEW v \in CodeOf(p) \cup DataPages, NEW kind, NEW x,
           Memory!Request(p, v, kind, x),
           \/ kind = "read" /\ x = 0
           \/ p # Idle /\ kind \in StoreKinds /\ x \in Values,
           p = Idle => v = Memory!IdlePage
    PROVE  Memory!Next
<1>1. CASE p = Idle
  BY <1>1 DEF Memory!Next
<1>2. CASE p # Idle
  <2>1. p \in Users /\ v \in AllCode \cup DataPages
    BY <1>2 DEF Procs, CodeOf, AllCode
  <2> QED
    BY <2>1, <1>2 DEF Memory!Next, Memory!Uses
<1> QED
  BY <1>1, <1>2

\* Every step of the system is one of the memory or leaves it alone.
LEMMA StepIsMemoryStep ==
    ASSUME TypeOK, [SystemNext]_systemVars
    PROVE  [Memory!Next]_memoryVars
<1>1. CASE KernelAlone
  BY <1>1 DEF KernelAlone, Quiet
<1>2. CASE MemoryStep
  BY <1>2 DEF MemoryStep, Memory!Next, Memory!GetAddress
<1>3. ASSUME NEW p \in Users, BeginLoad(p) \/ LoadUnblocked(p)
      PROVE  Memory!Next
  BY <1>3 DEF BeginLoad, LoadUnblocked, Memory!Next, Memory!Uses
<1>4. ASSUME NEW p \in Users, EndLoad(p)
      PROVE  [Memory!Next]_memoryVars
  BY <1>4 DEF EndLoad, Answered, Dead, Memory!Next
<1>5. ASSUME NEW p \in Procs, Fetch(p)
      PROVE  Memory!Next
  <2>1. PICK v \in CodeOf(p) : Memory!Request(p, v, "read", 0)
    BY <1>5 DEF Fetch
  <2> QED
    BY <2>1, AccessIsRequest DEF CodeOf
<1>6. ASSUME NEW p \in Procs, NEW v \in CodeOf(p) \cup DataPages, Use(p, v)
      PROVE  Memory!Next
  <2>1. p # Idle
    BY <1>6 DEF Use, GoesOn
  <2>2. CASE Memory!Request(p, v, "read", 0)
    BY <2>1, <2>2, AccessIsRequest
  <2>3. ASSUME NEW kind \in StoreKinds, NEW x \in Values, Memory!Request(p, v, kind, x)
        PROVE  Memory!Next
    BY <2>1, <2>3, AccessIsRequest
  <2> QED
    BY <1>6, <2>2, <2>3 DEF Use
<1>7. ASSUME NEW p \in Procs, Direct(p)
      PROVE  Memory!Next
  BY <1>7 DEF Direct, GoesOn, Procs, Memory!Next, Memory!Uses
<1>8. ASSUME NEW p \in Procs, Execute(p)
      PROVE  [Memory!Next]_memoryVars
  BY <1>8 DEF Execute, Answered, Dead, Memory!Next
<1>9. CASE FreePages
  BY <1>9, CurrentType DEF FreePages, Memory!Next
<1>10. CASE Terminated
  BY <1>10 DEF Terminated, Answered, Quiet, Dead, Memory!Next
<1>11. CASE Ended \/ UNCHANGED systemVars
  BY <1>11 DEF Ended, systemVars
<1> QED
  BY <1>1, <1>2, <1>3, <1>4, <1>5, <1>6, <1>7, <1>8, <1>9, <1>10, <1>11 DEF SystemNext

\* The kernel calls the memory as Paging.tla says its callers do.
THEOREM SystemIsMemory == SystemSpec => Memory!Spec
<1>1. SystemInit => Memory!Init
  BY DEF SystemInit
<1>2. SystemSpec => []TypeOK
  BY SystemTypeCorrect
<1> QED
  BY <1>1, <1>2, StepIsMemoryStep, PTL DEF SystemSpec, Memory!Spec, memoryVars, Memory!pagingVars

-----------------------------------------------------------------------------
(***************************************************************************)
(* What PagingProofs proves of the memory, with the system's constants.    *)
(* The operators of Memory and of Paged are the same by their definitions. *)
(***************************************************************************)
Paged == INSTANCE PagingProofs WITH
    Programs <- Users, Touched <- AllCode \cup DataPages, Ending <- Procs

\* The system's constants meet the assumption the theorems of PagingProofs rest on.
LEMMA PagedAssumption == Paged!PagingAssumption
<1>1. Procs \subseteq Paged!Pids /\ RawFrames \subseteq Paged!Frames
  BY MemoryAssumption DEF Paged!Pids, Memory!Pids, Paged!Frames, Paged!IdleFrame,
                          Memory!Frames, Memory!IdleFrame
<1> QED
  BY <1>1, MemoryAssumption, SystemAssumption DEF Paged!PagingAssumption

\* The calls are the same.
LEMMA SameCalls ==
    ASSUME NEW p
    PROVE  /\ Memory!StartLoad(p) => Paged!StartLoad(p)
           /\ \A v, kind, x : Memory!Request(p, v, kind, x) => Paged!Request(p, v, kind, x)
           /\ Memory!Deallocate(p) => Paged!Deallocate(p)
BY DEF Memory!StartLoad, Memory!Request, Memory!Deallocate, Memory!Ready, Memory!MayLoad,
       Memory!MayRun, Memory!Ask, Memory!MappedByLoader, Memory!LoaderPages, Memory!Exchanged,
       Memory!StartPage, Memory!PageEntry, Memory!PagesOf,
       Paged!StartLoad, Paged!Request, Paged!Deallocate, Paged!Ready, Paged!MayLoad,
       Paged!MayRun, Paged!Ask, Paged!MappedByLoader, Paged!LoaderPages, Paged!Exchanged,
       Paged!StartPage, Paged!PageEntry, Paged!PagesOf

\* The stores without translation and the shared regions are the same.
LEMMA SameDirect ==
    ASSUME NEW p, NEW n
    PROVE  /\ Memory!MapSharedMem(p, n) <=> Paged!MapSharedMem(p, n)
           /\ \A x : Memory!RawStore(p, n, x) => Paged!RawStore(p, n, x)
BY DEF Memory!MapSharedMem, Memory!RawStore, Memory!Ready, Memory!MayRun, Memory!Entered,
       Memory!SharedPage, Memory!SharedFrame, Memory!PageEntry, Memory!Forgotten,
       Memory!Stores, Memory!Frames, Memory!IdleFrame,
       Paged!MapSharedMem, Paged!RawStore, Paged!Ready, Paged!MayRun, Paged!Entered,
       Paged!SharedPage, Paged!SharedFrame, Paged!PageEntry, Paged!Forgotten,
       Paged!Stores, Paged!Frames, Paged!IdleFrame

\* The answers that change no page are the same.
LEMMA SameAnswers ==
    ASSUME Memory!Illegal \/ Memory!Block \/ Memory!Fatal \/ Memory!Resume
    PROVE  Paged!Illegal \/ Paged!Block \/ Paged!Fatal \/ Paged!Resume
BY DEF Memory!Illegal, Memory!Block, Memory!Fatal, Memory!Resume, Memory!Pending, Memory!Mapped,
       Memory!Owns, Memory!Answer, Memory!OutOfFrames, Memory!NeedsFrame, Memory!Evictable,
       Memory!NoCall,
       Paged!Illegal, Paged!Block, Paged!Fatal, Paged!Resume, Paged!Pending, Paged!Mapped,
       Paged!Owns, Paged!Answer, Paged!OutOfFrames, Paged!NeedsFrame, Paged!Evictable,
       Paged!NoCall

\* The page hit is the same.
LEMMA SameHit == Memory!Hit => Paged!Hit
BY DEF Memory!Hit, Memory!Pending, Memory!Owns, Memory!Mapped, Memory!UsedLast, Memory!Evictable,
       Memory!Forgotten, Memory!Stores, Memory!WrittenFrames, Memory!LoadGoesOn, Memory!Answer,
       Memory!Frames, Memory!StartPage, Memory!IdleFrame,
       Paged!Hit, Paged!Pending, Paged!Owns, Paged!Mapped, Paged!UsedLast, Paged!Evictable,
       Paged!Forgotten, Paged!Stores, Paged!WrittenFrames, Paged!LoadGoesOn, Paged!Answer,
       Paged!Frames, Paged!StartPage, Paged!IdleFrame

\* Eviction, mapping and page fault are the same.
LEMMA SamePaging ==
    ASSUME NEW n
    PROVE  /\ Memory!Evict(n) => Paged!Evict(n)
           /\ Memory!MapMissing(n) => Paged!MapMissing(n)
           /\ Memory!SwapIn(n) => Paged!SwapIn(n)
BY DEF Memory!Evict, Memory!MapMissing, Memory!SwapIn, Memory!OutOfFrames, Memory!NeedsFrame,
       Memory!Pending, Memory!Mapped, Memory!Owns, Memory!LRUPage, Memory!Evictable,
       Memory!SwapOut, Memory!Released, Memory!Forgotten, Memory!Remaining, Memory!Entered,
       Memory!PageEntry,
       Paged!Evict, Paged!MapMissing, Paged!SwapIn, Paged!OutOfFrames, Paged!NeedsFrame,
       Paged!Pending, Paged!Mapped, Paged!Owns, Paged!LRUPage, Paged!Evictable,
       Paged!SwapOut, Paged!Released, Paged!Forgotten, Paged!Remaining, Paged!Entered,
       Paged!PageEntry

\* So the two memories are one.
LEMMA SameMemory == Memory!Spec => Paged!Spec
<1>1. Memory!Init => Paged!Init
  BY DEF Memory!Init, Memory!IdlePage, Memory!PageEntry, Memory!IdleFrame, Memory!UserFrames,
         Memory!Frames, Memory!NoCall, Memory!Pids,
         Paged!Init, Paged!IdlePage, Paged!PageEntry, Paged!IdleFrame, Paged!UserFrames,
         Paged!Frames, Paged!NoCall, Paged!Pids
<1>2. Memory!GetAddress \/ Memory!Resume => Paged!GetAddress \/ Paged!Resume
  BY SameAnswers, SameHit, SamePaging DEF Memory!GetAddress, Paged!GetAddress
<1>3. ASSUME NEW p, Memory!Uses(p) PROVE Paged!Uses(p)
  BY <1>3, SameCalls, SameDirect DEF Memory!Uses, Paged!Uses
<1>4. [Memory!Next]_Memory!pagingVars => [Paged!Next]_Paged!pagingVars
  BY <1>2, <1>3, SameCalls
     DEF Memory!Next, Memory!Ended, Memory!pagingVars, Memory!IdlePage, Memory!Pending,
         Memory!Ready,
         Paged!Next, Paged!Ended, Paged!pagingVars, Paged!IdlePage, Paged!Pending, Paged!Ready
<1> QED
  BY <1>1, <1>4, PTL DEF Memory!Spec, Paged!Spec

\* Whatever the kernel does, the memory under it stays well typed, gives no
\* frame to two pages, keeps the idle process's page and has one victim for
\* each eviction.
THEOREM SystemMemoryIsSafe ==
    SystemSpec => [](/\ Memory!PagingTypeOK
                     /\ Memory!FramesUsedOnce
                     /\ Memory!IdleResident
                     /\ Memory!OneVictim)
<1>1. Paged!PagingTypeOK => Memory!PagingTypeOK
  BY DEF Memory!PagingTypeOK, Memory!Pages, Memory!Entries, Memory!Accesses, Memory!Frames,
         Memory!Pids, Memory!SharedPage, Memory!LoaderPages, Memory!StartPage,
         Memory!Exchanged, Memory!Kinds, Memory!Statuses, Memory!IdlePage, Memory!IdleFrame,
         Paged!PagingTypeOK, Paged!Pages, Paged!Entries, Paged!Accesses, Paged!Frames,
         Paged!Pids, Paged!SharedPage, Paged!LoaderPages, Paged!StartPage,
         Paged!Exchanged, Paged!Kinds, Paged!Statuses, Paged!IdlePage, Paged!IdleFrame
<1>2. Paged!FramesUsedOnce => Memory!FramesUsedOnce
  BY DEF Memory!FramesUsedOnce, Memory!NobodyGone, Memory!Pids, Memory!Resident,
         Memory!Mapped, Memory!Frame,
         Paged!FramesUsedOnce, Paged!NobodyGone, Paged!Pids, Paged!Resident,
         Paged!Mapped, Paged!Frame
<1>3. Paged!IdleResident => Memory!IdleResident
  BY DEF Memory!IdleResident, Memory!Resident, Memory!Mapped, Memory!Frame, Memory!IdlePage,
         Memory!IdleFrame,
         Paged!IdleResident, Paged!Resident, Paged!Mapped, Paged!Frame, Paged!IdlePage,
         Paged!IdleFrame
<1>4. Paged!OneVictim => Memory!OneVictim
  BY DEF Memory!OneVictim, Memory!OutOfFrames, Memory!NeedsFrame, Memory!Pending,
         Memory!Mapped, Memory!Owns, Memory!Evictable, Memory!LRUPage,
         Paged!OneVictim, Paged!OutOfFrames, Paged!NeedsFrame, Paged!Pending,
         Paged!Mapped, Paged!Owns, Paged!Evictable, Paged!LRUPage
<1> QED
  BY <1>1, <1>2, <1>3, <1>4, SystemIsMemory, SameMemory, PagedAssumption,
     Paged!PagingTypeCorrect, Paged!FramesBackOnePage, Paged!IdlePageStays,
     Paged!VictimIsUnique, PTL

\* And it loses a frame only where a page that nobody has mapped is touched, or
\* an entry is overwritten by a shared region's.
THEOREM SystemFramesAreKept == SystemSpec => Memory!FramesAreKept
<1>1. [\/ Paged!Accounted \subseteq Paged!Accounted'
       \/ Paged!Pending /\ ~Paged!Mapped(access.page)
       \/ \E p \in Users, r \in Regions : Paged!MapSharedMem(p, r)]_Paged!pagingVars
      => [\/ Memory!Accounted \subseteq Memory!Accounted'
          \/ Memory!Pending /\ ~Memory!Mapped(access.page)
          \/ \E p \in Users, r \in Regions : Memory!MapSharedMem(p, r)]_Memory!pagingVars
  BY SameDirect
     DEF Memory!Accounted, Memory!Resident, Memory!Mapped, Memory!Frame, Memory!Pending,
         Memory!pagingVars,
         Paged!Accounted, Paged!Resident, Paged!Mapped, Paged!Frame, Paged!Pending,
         Paged!pagingVars
<1> QED
  BY <1>1, SystemIsMemory, SameMemory, PagedAssumption, Paged!NoFrameLost, PTL
     DEF Memory!FramesAreKept, Paged!FramesAreKept

(***************************************************************************)
(* Programs whose stores end within their page and whose pushes miss the   *)
(* programs' frames, and whose instructions fit into one page.             *)
(***************************************************************************)
StoresStay ==
    /\ "spill" \notin StoreKinds
    /\ CodePages = 1
    /\ RawFrames \cap (Memory!UserFrames \cup {Memory!IdleFrame}) = {}

\* For such programs the memory implements PageStore under the kernel: until the
\* first process terminates, a page in memory changes only by its owner's own
\* stores, whatever the kernel schedules.
THEOREM SystemImplementsStore ==
    ASSUME StoresStay
    PROVE  SystemSpec => Memory!StoreSpec
<1>1. Paged!StoresStay
  BY DEF StoresStay, Paged!StoresStay, Paged!UserFrames, Paged!IdleFrame, Memory!UserFrames,
         Memory!IdleFrame
<1>2. Paged!Store!Init => Memory!Store!Init
  BY DEF Memory!Store!Init, Memory!Pages, Memory!Pids, Memory!Unknown, Memory!Nobody,
         Memory!NobodyGone, Memory!Resident, Memory!Mapped, Memory!Frame, Memory!SharedPage,
         Memory!LoaderPages, Memory!StartPage, Memory!Exchanged, Memory!IdlePage,
         Paged!Store!Init, Paged!Pages, Paged!Pids, Paged!Unknown, Paged!Nobody,
         Paged!NobodyGone, Paged!Resident, Paged!Mapped, Paged!Frame, Paged!SharedPage,
         Paged!LoaderPages, Paged!StartPage, Paged!Exchanged, Paged!IdlePage
<1>3. [Paged!Store!Next]_Paged!Store!storeVars => [Memory!Store!Next]_Memory!Store!storeVars
  BY DEF Memory!Store!Next, Memory!Store!Write, Memory!Store!Recall, Memory!Store!Forget,
         Memory!Store!GiveUp, Memory!Store!Keeps, Memory!Store!Loses,
         Memory!Store!storeVars, Memory!Pages, Memory!Pids, Memory!Unknown, Memory!Nobody,
         Memory!NobodyGone, Memory!Resident, Memory!Mapped, Memory!Frame, Memory!SharedPage,
         Memory!LoaderPages, Memory!StartPage, Memory!Exchanged, Memory!IdlePage,
         Paged!Store!Next, Paged!Store!Write, Paged!Store!Recall, Paged!Store!Forget,
         Paged!Store!GiveUp, Paged!Store!Keeps, Paged!Store!Loses,
         Paged!Store!storeVars, Paged!Pages, Paged!Pids, Paged!Unknown, Paged!Nobody,
         Paged!NobodyGone, Paged!Resident, Paged!Mapped, Paged!Frame, Paged!SharedPage,
         Paged!LoaderPages, Paged!StartPage, Paged!Exchanged, Paged!IdlePage
<1> QED
  BY <1>1, <1>2, <1>3, SystemIsMemory, SameMemory, PagedAssumption,
     Paged!PagingImplementsStore, PTL
     DEF Memory!StoreSpec, Paged!StoreSpec, Memory!Store!Spec, Paged!Store!Spec

-----------------------------------------------------------------------------
(***************************************************************************)
(* Who lives.  The kernel gives a state other than Terminated to members   *)
(* of processList only, and runs only those.                               *)
(***************************************************************************)
LifeInv ==
    /\ pc = "boot" => Idle \in processList
    /\ pc # "boot" => \A p \in Procs \ processList : state[p] = "Terminated"
    /\ InRun => Current \in processList
    /\ waking \subseteq processList

(***************************************************************************)
(* Pages belong to living processes whose pages have not been freed, and   *)
(* so do the calls of getaddress.                                          *)
(***************************************************************************)
Holds(p) == p \in processList /\ stage[p] # "gone"

Stages == {"new", "loaded", "refused", "gone"}

PageInv ==
    /\ stage \in [Procs -> Stages]
    /\ \A v \in DOMAIN pageTable : Holds(pageTable[v].pid)
    /\ access.status = "pending" => Holds(access.pid)

-----------------------------------------------------------------------------
(***************************************************************************)
(* Programs whose pages are their own: memory has no more pages than a     *)
(* program, whose second and third page the loader may exchange, and the   *)
(* pages of code are nobody's data, shared region or idle process.         *)
(***************************************************************************)
SharedPages == {Memory!SharedPage(r) : r \in Regions}

SeparatePrograms ==
    /\ PageCount <= ProgramPages /\ 3 <= ProgramPages
    /\ AllCode \cap (DataPages \cup SharedPages \cup {Memory!IdlePage}) = {}

\* The pages of the process whose termination is handled are free already.
Freed == Terminating /\ stage[Current] = "gone"

\* A page of code is mapped by its own program only, and whoever is loaded has one.
CodeInv ==
    /\ \A p \in Users : \A v \in ProgramCode(p) : Memory!Mapped(v) => Memory!Owns(p, v)
    /\ \A p \in Procs : stage[p] = "loaded" => \E v \in CodeOf(p) : Memory!Owns(p, v)

\* isLoaded and the memory agree; only the dead are gone; who runs is loaded.
LoadedInv ==
    /\ \A p \in Procs : stage[p] # "refused" /\ (pc = "boot" => stage[p] # "gone")
    /\ \A p \in Procs : isLoaded[p] => stage[p] \in {"loaded", "gone"}
    /\ isLoaded[Idle]
    /\ \A p \in Procs : stage[p] = "gone" => p \notin processList \/ (Freed /\ p = Current)
    /\ InRun => stage[Current] = "loaded" \/ Freed

\* Where the kernel stands while a call is under way or answered.
Caller ==
    \/ /\ pc = "dispatch" /\ access.kind = "load"
       /\ access.pid \in Users /\ IsNext(access.pid) /\ ~isLoaded[access.pid]
    \/ /\ pc = "execute" /\ access.kind # "load"
       /\ access.pid = runningProcess
    \/ /\ pc = "cycleEnd" /\ access.kind = "load"
       /\ Freed /\ access.pid \in ToLoad
    \/ pc = "crashed" /\ access.status = "fatal"

CallsInv ==
    access.status # "none" =>
        /\ Caller
        /\ access.status = "pending" => access.page \in CodeOf(access.pid) \cup DataPages
        /\ access.kind = "load" =>
              /\ access.status # "illegal"
              /\ access.status = "granted" => stage[access.pid] = "loaded"
              /\ access.status = "pending" => access.page \in ProgramCode(access.pid)

SystemInv == LifeInv /\ PageInv /\ CodeInv /\ LoadedInv /\ CallsInv

-----------------------------------------------------------------------------
(***************************************************************************)
(* What the kernel does in the system.                                     *)
(***************************************************************************)
KernelStep ==
    \/ \E p \in Users : LoadProcess(p) \/ DispatchUser(p) \/ LoadBlocks(p) \/ LoadFatal(p)
    \/ Halt \/ DropTerminated \/ DispatchIdle \/ DispatchNobody
    \/ NoRunningProcess \/ FinishExit \/ Callback \/ WakeUp \/ NextCycleOfRun
    \/ HandlePreemption \/ HandleSleep \/ HandleExpired \/ HandleBlocked \/ HandleTerminated
    \/ \E p \in Procs : \/ Step(p) \/ Exit(p) \/ Fault(p) \/ MemoryBlock(p) \/ MemoryFatal(p)
                        \/ \E d \in Durations : Sleep(p, d)
                        \/ \E v \in PrioArgs : SetPriority(p, v)
    \/ UNCHANGED vars

\* The kernel does in the system some of what it does alone.
LEMMA KernelSteps ==
    ASSUME [SystemNext]_systemVars
    PROVE  KernelStep
<1>1. CASE KernelAlone
  BY <1>1 DEF KernelAlone, DispatchLoaded, KernelStep
<1>2. CASE MemoryStep \/ FreePages \/ Ended \/ UNCHANGED systemVars
  BY <1>2 DEF MemoryStep, FreePages, Ended, systemVars, KernelStep
<1>3. ASSUME NEW p \in Users, BeginLoad(p) \/ EndLoad(p) \/ LoadUnblocked(p)
      PROVE  KernelStep
  BY <1>3 DEF BeginLoad, EndLoad, LoadUnblocked, KernelStep
<1>4. ASSUME NEW p \in Procs, Fetch(p) \/ Direct(p) \/ \E v : Use(p, v)
      PROVE  KernelStep
  BY <1>4 DEF Fetch, Direct, Use, KernelStep
<1>5. ASSUME NEW p \in Procs, Execute(p)
      PROVE  KernelStep
  BY <1>5 DEF Execute, KernelStep
<1>6. CASE Terminated
  BY <1>6 DEF Terminated, KernelStep
<1> QED
  BY <1>1, <1>2, <1>3, <1>4, <1>5, <1>6 DEF SystemNext

\* Steps that leave processList and the dead alone.
LEMMA LifeKept ==
    ASSUME LifeInv, pc # "boot", pc' # "boot", processList' = processList,
           \A p \in Procs \ processList : state'[p] = state[p],
           InRun' => Current' \in processList,
           waking' \subseteq processList
    PROVE  LifeInv'
BY DEF LifeInv

\* Who is dispatched lives.
LEMMA DispatchedLives ==
    ASSUME TypeOK, LifeInv, NEW p \in Procs, Dispatches(p)
    PROVE  p \in processList /\ pc # "boot" /\ Current' = p
<1>1. p # NoProc
  BY DEF Procs, Users, Idle, NoProc
<1> QED
  BY <1>1 DEF Dispatches, Runnable, LifeInv, Current

\* Every step of the system keeps account of who lives.
LEMMA LifeStep ==
    ASSUME TypeOK, LifeInv, KernelStep
    PROVE  LifeInv'
<1>0. state \in [Procs -> States] /\ Idle \in Procs /\ Users \subseteq Procs
  BY DEF TypeOK, Procs
<1>1. ASSUME NEW p \in Users, LoadProcess(p) PROVE LifeInv'
  <2>1. /\ pc = "boot" /\ processList' = processList \cup {p} /\ waking' = waking
        /\ Users \cap processList = 1..(p - 1)
        /\ pc' = IF p = N THEN "dispatch" ELSE "boot"
    BY <1>1 DEF LoadProcess
  <2>2. pc' # "boot" => Procs \ processList' = {}
    <3>1. ASSUME pc' # "boot" PROVE Users \subseteq processList'
      BY <2>1, <3>1, NAssumption DEF Users
    <3> QED
      BY <2>1, <3>1 DEF LifeInv, Procs
  <2> QED
    BY <2>1, <2>2 DEF LifeInv, InRun
<1>2. ASSUME NEW p \in Users, DispatchUser(p) PROVE LifeInv'
  <2>1. p \in processList /\ pc # "boot" /\ Current' = p
    BY <1>0, <1>2, DispatchedLives DEF DispatchUser
  <2> QED
    BY <1>0, <1>2, <2>1, LifeKept DEF DispatchUser, EntersRun, LifeInv
<1>3. ASSUME NEW p \in Users, LoadBlocks(p) PROVE LifeInv'
  <2>1. p \in processList /\ pc = "dispatch"
    BY <1>0, <1>3, DispatchedLives DEF LoadBlocks, Dispatches
  <2> QED
    BY <1>0, <1>3, <2>1, LifeKept DEF LoadBlocks, LifeInv, InRun
<1>4. ASSUME NEW p \in Users, LoadFatal(p) PROVE LifeInv'
  <2>1. p \in processList /\ pc = "dispatch"
    BY <1>0, <1>4, DispatchedLives DEF LoadFatal, Dispatches
  <2> QED
    BY <1>0, <1>4, <2>1, LifeKept DEF LoadFatal, LifeInv, InRun
<1>5. CASE Halt \/ DropTerminated
  BY <1>5, LifeKept DEF Halt, DropTerminated, pcbVars, LifeInv, InRun
<1>6. CASE DispatchIdle
  <2>1. Idle \in processList /\ pc # "boot" /\ Current' = Idle
    BY <1>0, <1>6, DispatchedLives DEF DispatchIdle
  <2>2. pc' \in {"execute", "halted"}
    BY <1>6 DEF DispatchIdle, RunsIdle, EntersRun
  <2> QED
    BY <1>0, <1>6, <2>1, <2>2, LifeKept DEF DispatchIdle, LifeInv
<1>7. CASE DispatchNobody
  <2>1. pc = "dispatch" /\ pc' \in {"execute", "halted"} /\ Current' = Idle
    BY <1>7 DEF DispatchNobody, RunsIdle, EntersRun, Current
  <2>2. InRun' => Idle \in processList
    BY <1>0, <1>7, <2>1 DEF DispatchNobody, Runnable, LifeInv, InRun
  <2> QED
    BY <1>7, <2>1, <2>2, LifeKept DEF DispatchNobody, LifeInv
<1>8. CASE NoRunningProcess \/ FinishExit \/ NextCycleOfRun
  <2>1. InRun /\ InRun' /\ Current' = Current
    BY <1>8 DEF NoRunningProcess, FinishExit, NextCycleOfRun, InRun, Current
  <2> QED
    BY <1>8, <2>1, LifeKept
       DEF NoRunningProcess, FinishExit, NextCycleOfRun, pcbVars, InRun, LifeInv
<1>9. CASE Callback
  <2>1. InRun /\ InRun' /\ Current' = Current
    BY <1>9 DEF Callback, InRun, Current
  <2>2. waking' \subseteq processList
    BY <1>9 DEF Callback, Ticking
  <2> QED
    BY <1>9, <2>1, <2>2, LifeKept DEF Callback, InRun, LifeInv
<1>10. CASE WakeUp
  <2>1. InRun /\ InRun' /\ Current' = Current
    BY <1>10 DEF WakeUp, InRun, Current
  <2>2. waking' \subseteq processList
    BY <1>10 DEF WakeUp, LifeInv
  <2>3. \A p \in Procs \ processList : state'[p] = state[p]
    BY <1>0, <1>10 DEF WakeUp, LifeInv
  <2> QED
    BY <1>10, <2>1, <2>2, <2>3, LifeKept DEF WakeUp, InRun, LifeInv
<1>11. ASSUME InRun, pc' = "dispatch", processList' = processList, waking' = waking,
              NEW to, state' = [state EXCEPT ![Current] = to]
       PROVE  LifeInv'
  <2>1. \A p \in Procs \ processList : state'[p] = state[p]
    BY <1>0, <1>11 DEF LifeInv
  <2> QED
    BY <1>11, <2>1, LifeKept DEF InRun, LifeInv
<1>12. CASE HandlePreemption \/ HandleExpired \/ HandleSleep \/ HandleBlocked
  BY <1>11, <1>12 DEF HandlePreemption, HandleExpired, HandleSleep, HandleBlocked,
                      HandleWaiting, Requeues, Handles, InRun
<1>13. CASE HandleTerminated
  <2>1. PICK c \in Procs : c = Current
    BY CurrentType
  <2>2. /\ InRun /\ c \in processList /\ waking = {} /\ waking' = {}
        /\ processList' = processList \ {c} /\ pc' \in {"dispatch", "crashed"}
    BY <1>13, <2>1 DEF HandleTerminated, Handles, InRun, LifeInv
  <2>3. ASSUME NEW p \in Procs \ processList' PROVE state'[p] = "Terminated"
    <3> DEFINE st == [state EXCEPT ![c] = "Terminated"]
    <3>1. st[p] = "Terminated"
      BY <1>0, <2>2, <2>3 DEF LifeInv, InRun
    <3>2. \/ state' = st
          \/ \E q \in processList' : state' = [st EXCEPT ![q] = "Ready"]
      BY <1>13, <2>1, <2>2
         DEF HandleTerminated, Unblocks, UnblockThrows, Killed, HighestBlocked, BlockedOnMemory
    <3>3. DOMAIN st = Procs
      BY <1>0
    <3> HIDE DEF st
    <3> QED
      BY <2>3, <3>1, <3>2, <3>3
  <2> QED
    BY <2>2, <2>3 DEF LifeInv, InRun
<1>14. ASSUME NEW p \in Procs, \/ Step(p) \/ Exit(p) \/ Fault(p) \/ MemoryBlock(p)
                               \/ \E d \in Durations : Sleep(p, d)
                               \/ \E v \in PrioArgs : SetPriority(p, v)
       PROVE  LifeInv'
  <2>1. /\ pc = "execute" /\ pc' \in {"release", "callback"} /\ runningProcess' = runningProcess
        /\ processList' = processList /\ waking' = waking /\ state' = state
    BY <1>14 DEF Step, Exit, Fault, MemoryBlock, Sleep, SetPriority, Executes, Fetches, Completes, Returns,
                 unchangedByCpu
  <2>2. InRun /\ InRun' /\ Current' = Current
    BY <2>1 DEF InRun, Current
  <2> QED
    BY <2>1, <2>2, LifeKept DEF LifeInv
<1>15. ASSUME NEW p \in Procs, MemoryFatal(p) PROVE LifeInv'
  BY <1>15, LifeKept DEF MemoryFatal, pcbVars, InRun, LifeInv
<1>16. CASE UNCHANGED vars
  BY <1>16 DEF vars, pcbVars, LifeInv, InRun, Current
<1> QED
  BY <1>1, <1>2, <1>3, <1>4, <1>5, <1>6, <1>7, <1>8, <1>9, <1>10, <1>12, <1>13, <1>14, <1>15,
     <1>16 DEF KernelStep

-----------------------------------------------------------------------------
(***************************************************************************)
(* What the steps do to the pages.                                         *)
(***************************************************************************)

\* The steps in which the kernel moves, or takes the answer to its call.
KernelMoves ==
    \/ KernelAlone \/ Terminated
    \/ \E p \in Users : EndLoad(p)
    \/ \E p \in Procs : Execute(p)

\* They leave the memory as it is, and no call under way.
LEMMA MemoryRests ==
    ASSUME KernelMoves
    PROVE  /\ UNCHANGED <<pageTable, freePages, stage>>
           /\ access.status # "pending" /\ access'.status # "pending"
           /\ access'.status = "none" \/ (access' = access /\ access.status = "fatal")
<1>1. Quiet \/ (\E answer \in {"granted", "blocked", "illegal"} : Answered(answer)) \/ Dead
  BY DEF KernelMoves, KernelAlone, Terminated, EndLoad, Execute
<1> QED
  BY <1>1 DEF Quiet, NoCall, Answered, Dead, Memory!Resume, Memory!NoCall, memoryVars

\* The steps of getaddress enter a page for their caller or none, and leave
\* the owners of pages alone.
LEMMA CallEffect ==
    ASSUME Memory!PagingTypeOK, MemoryStep
    PROVE  /\ UNCHANGED vars
           /\ access.status = "pending"
           /\ access'.pid = access.pid /\ access'.kind = access.kind
           /\ DOMAIN pageTable \subseteq DOMAIN pageTable'
           /\ \A v \in DOMAIN pageTable : pageTable'[v].pid = pageTable[v].pid
           /\ \A v \in DOMAIN pageTable' \ DOMAIN pageTable :
                 v = access.page /\ pageTable'[v].pid = access.pid
<1>0. /\ \A v \in DOMAIN pageTable : pageTable[v] \in Memory!Entries
      /\ access \in Memory!Accesses
  BY DEF Memory!PagingTypeOK
<1>1. CASE Memory!Illegal \/ Memory!Block \/ Memory!Fatal
  BY <1>1 DEF MemoryStep, Memory!Illegal, Memory!Block, Memory!Fatal, Memory!OutOfFrames,
              Memory!NeedsFrame, Memory!Pending, Memory!Answer
<1>2. CASE Memory!Hit
  <2>1. access'.pid = access.pid /\ access'.kind = access.kind
    BY <1>0, <1>2 DEF Memory!Hit, Memory!Answer, Memory!Accesses
  <2>2. /\ DOMAIN pageTable' = DOMAIN pageTable
        /\ \A v \in DOMAIN pageTable : pageTable'[v].pid = pageTable[v].pid
    BY <1>0, <1>2 DEF Memory!Hit, Memory!Stores, Memory!Entries
  <2> QED
    BY <1>2, <2>1, <2>2 DEF MemoryStep, Memory!Hit, Memory!Pending
<1>3. ASSUME NEW v \in DOMAIN pageTable, Memory!Evict(v)
      PROVE  /\ access.status = "pending" /\ access' = access
             /\ DOMAIN pageTable' = DOMAIN pageTable
             /\ \A w \in DOMAIN pageTable : pageTable'[w].pid = pageTable[w].pid
  BY <1>0, <1>3 DEF Memory!Evict, Memory!SwapOut, Memory!OutOfFrames, Memory!NeedsFrame,
                    Memory!Pending, Memory!Entries
<1>4. ASSUME NEW f \in freePages, Memory!MapMissing(f) \/ Memory!SwapIn(f)
      PROVE  /\ access.status = "pending" /\ access' = access
             /\ DOMAIN pageTable' = DOMAIN pageTable \cup {access.page}
             /\ \A w \in DOMAIN pageTable : pageTable'[w].pid = pageTable[w].pid
             /\ pageTable'[access.page].pid = access.pid
  BY <1>4 DEF Memory!MapMissing, Memory!SwapIn, Memory!NeedsFrame, Memory!Pending,
              Memory!Mapped, Memory!Owns, Memory!Entered, Memory!PageEntry
<1> QED
  BY <1>1, <1>2, <1>3, <1>4 DEF MemoryStep

\* What becomes of the load of a process, and of nobody else.
LEMMA CallStages ==
    ASSUME MemoryStep
    PROVE  \/ stage' = stage
           \/ Memory!Illegal /\ access.kind = "load"
              /\ stage' = [stage EXCEPT ![access.pid] = "refused"]
           \/ Memory!Hit /\ access.kind = "load" /\ ~Memory!LoadGoesOn
              /\ stage' = [stage EXCEPT ![access.pid] = "loaded"]
BY DEF MemoryStep, Memory!Illegal, Memory!Block, Memory!Fatal, Memory!Hit, Memory!Evict,
       Memory!MapMissing, Memory!SwapIn

\* A load enters pages for the process it loads.
LEMMA LoaderEffect ==
    ASSUME NEW p, Memory!StartLoad(p)
    PROVE  /\ DOMAIN pageTable' = DOMAIN pageTable \cup Memory!LoaderPages(p)
           /\ \A v \in DOMAIN pageTable : pageTable'[v] = pageTable[v]
           /\ \A v \in DOMAIN pageTable' \ DOMAIN pageTable : pageTable'[v].pid = p
           /\ access'.status = "pending" /\ access'.kind = "load" /\ access'.pid = p
           /\ access'.page = Memory!StartPage(p)
           /\ stage[p] \in {"new", "refused"}
           /\ UNCHANGED <<freePages, stage>>
BY DEF Memory!StartLoad, Memory!MappedByLoader, Memory!PageEntry, Memory!Ask, Memory!MayLoad

\* The accesses of an instruction through getaddress.
Asks(p) == Fetch(p) \/ \E v \in CodeOf(p) \cup DataPages : Use(p, v)

\* They ask for a page and change nothing else.
LEMMA RequestEffect ==
    ASSUME NEW p, Asks(p)
    PROVE  /\ access'.status = "pending" /\ access'.kind # "load" /\ access'.pid = p
           /\ access'.page \in CodeOf(p) \cup DataPages
           /\ stage[p] \in {"loaded", "refused"}
           /\ Running(p)
           /\ UNCHANGED <<vars, pageTable, freePages, stage>>
<1>1. PICK v \in CodeOf(p) \cup DataPages, kind \in {"read"} \cup StoreKinds, x \in Values :
          Memory!Request(p, v, kind, x) /\ Running(p) /\ UNCHANGED vars
  BY SystemAssumption DEF Asks, Fetch, Use, GoesOn
<1>2. kind # "load"
  BY <1>1, SystemAssumption
<1> QED
  BY <1>1, <1>2 DEF Memory!Request, Memory!Ask, Memory!MayRun

\* Its stores without translation and shared regions: a page changes its owner
\* only if it is a shared region's.
LEMMA DirectEffect ==
    ASSUME Memory!PagingTypeOK, NEW p, Direct(p)
    PROVE  /\ Running(p) /\ access.status = "granted"
           /\ stage[p] \in {"loaded", "refused"}
           /\ DOMAIN pageTable \subseteq DOMAIN pageTable'
           /\ \A v \in DOMAIN pageTable' :
                 \/ v \in DOMAIN pageTable /\ pageTable'[v].pid = pageTable[v].pid
                 \/ v \in SharedPages /\ pageTable'[v].pid = p
           /\ UNCHANGED <<vars, freePages, access, stage>>
<1>1. Running(p) /\ access.status = "granted" /\ UNCHANGED vars
  BY DEF Direct, GoesOn
<1>2. ASSUME NEW f, NEW x, Memory!RawStore(p, f, x)
      PROVE  /\ DOMAIN pageTable' = DOMAIN pageTable
             /\ \A v \in DOMAIN pageTable : pageTable'[v].pid = pageTable[v].pid
             /\ stage[p] \in {"loaded", "refused"}
             /\ UNCHANGED <<freePages, access, stage>>
  <2>1. \A v \in DOMAIN pageTable : pageTable[v] \in Memory!Entries
    BY DEF Memory!PagingTypeOK
  <2> QED
    BY <1>2, <2>1 DEF Memory!RawStore, Memory!Stores, Memory!MayRun, Memory!Entries
<1>3. ASSUME NEW r \in Regions, Memory!MapSharedMem(p, r)
      PROVE  /\ DOMAIN pageTable' = DOMAIN pageTable \cup {Memory!SharedPage(r)}
             /\ \A v \in DOMAIN pageTable' : v # Memory!SharedPage(r) => pageTable'[v] = pageTable[v]
             /\ pageTable'[Memory!SharedPage(r)].pid = p
             /\ stage[p] \in {"loaded", "refused"}
             /\ UNCHANGED <<freePages, access, stage>>
  BY <1>3 DEF Memory!MapSharedMem, Memory!Entered, Memory!PageEntry, Memory!MayRun
<1> QED
  BY <1>1, <1>2, <1>3 DEF Direct, SharedPages

\* The end of a process takes its pages and those of nobody else.
LEMMA FreesEffect ==
    ASSUME FreePages
    PROVE  /\ Terminating /\ stage[Current] # "gone"
           /\ access' = access /\ access.status # "pending"
           /\ stage' = [stage EXCEPT ![Current] = "gone"]
           /\ \A v : v \in DOMAIN pageTable' <=>
                        v \in DOMAIN pageTable /\ pageTable[v].pid # Current
           /\ \A v \in DOMAIN pageTable' : pageTable'[v] = pageTable[v]
           /\ (\E v \in DOMAIN pageTable : pageTable[v].pid = Current) => freePages' # {}
           /\ UNCHANGED vars
BY DEF FreePages, Memory!Deallocate, Memory!PagesOf, Memory!Ready

-----------------------------------------------------------------------------
(***************************************************************************)
(* The dead leave no pages.                                                *)
(***************************************************************************)

\* processList loses no one but the process whose termination is handled.
LEMMA WhoLeaves ==
    ASSUME KernelMoves
    PROVE  \/ processList \subseteq processList'
           \/ Terminated /\ processList' = processList \ {Current}
<1>1. CASE KernelAlone
  <2>1. processList \subseteq processList'
    BY <1>1 DEF KernelAlone, DispatchLoaded, LoadProcess, DispatchUser, Halt, DropTerminated,
                DispatchIdle, DispatchNobody, NoRunningProcess, FinishExit, Callback, WakeUp,
                NextCycleOfRun, HandlePreemption, HandleSleep, HandleExpired, HandleBlocked,
                HandleWaiting
  <2> QED
    BY <2>1
<1>2. CASE Terminated
  BY <1>2 DEF Terminated, HandleTerminated
<1>3. ASSUME NEW p \in Users, EndLoad(p) PROVE processList' = processList
  BY <1>3 DEF EndLoad, DispatchUser, LoadBlocks, LoadFatal
<1>4. ASSUME NEW p \in Procs, Execute(p) PROVE processList' = processList
  BY <1>4 DEF Execute, Step, Exit, Sleep, SetPriority, Fault, MemoryBlock, MemoryFatal
<1> QED
  BY <1>1, <1>2, <1>3, <1>4 DEF KernelMoves

\* Who calls the memory lives.
LEMMA CallerLives ==
    ASSUME TypeOK, LifeInv, NEW p \in Procs, BeginLoad(p) \/ LoadUnblocked(p) \/ Running(p)
    PROVE  p \in processList
<1>1. CASE BeginLoad(p)
  BY <1>1 DEF BeginLoad, IsNext, Runnable, LifeInv
<1>2. CASE LoadUnblocked(p)
  BY <1>2 DEF LoadUnblocked, ToLoad, HighestBlocked, BlockedOnMemory
<1>3. CASE Running(p)
  BY <1>3, ProcsFacts DEF Running, LifeInv, InRun, Current
<1> QED
  BY <1>1, <1>2, <1>3

\* Holders are processes.
LEMMA HoldersType ==
    ASSUME TypeOK
    PROVE  \A p : Holds(p) => p \in Procs
BY DEF TypeOK, Holds

\* Every step of the system keeps pages with the living.
LEMMA PageStep ==
    ASSUME TypeOK, Memory!PagingTypeOK, LifeInv, PageInv, [SystemNext]_systemVars
    PROVE  PageInv'
<1>0. \A v \in DOMAIN pageTable : Holds(pageTable[v].pid)
  BY DEF PageInv
<1>1. CASE KernelMoves
  <2>1. \A p : Holds(p) => Holds(p)'
    BY <1>1, WhoLeaves, MemoryRests DEF Holds, Terminated
  <2> QED
    BY <1>1, <2>1, MemoryRests DEF PageInv
<1>2. CASE MemoryStep
  <2>1. \A p \in Procs : Holds(p) => Holds(p)'
    BY <1>2, CallEffect, CallStages DEF PageInv, Holds, vars
  <2>2. Holds(access.pid)
    BY <1>2, CallEffect DEF PageInv
  <2>3. stage' \in [Procs -> Stages]
    BY <1>2, CallStages DEF PageInv, Stages
  <2> QED
    BY <1>0, <1>2, <2>1, <2>2, <2>3, CallEffect, HoldersType DEF PageInv
<1>3. ASSUME NEW p \in Users, BeginLoad(p) \/ LoadUnblocked(p)
      PROVE  PageInv'
  <2>1. Memory!StartLoad(p) /\ UNCHANGED vars
    BY <1>3 DEF BeginLoad, LoadUnblocked
  <2>2. Holds(p)
    BY <1>3, <2>1, CallerLives, LoaderEffect, ProcsFacts DEF Holds
  <2>3. \A q : Holds(q) => Holds(q)'
    BY <2>1, LoaderEffect DEF Holds, vars
  <2> QED
    BY <1>0, <2>1, <2>2, <2>3, LoaderEffect DEF PageInv
<1>4. ASSUME NEW p \in Procs, Asks(p) PROVE PageInv'
  <2>1. Holds(p)
    BY <1>4, CallerLives, RequestEffect DEF Holds
  <2>2. \A q : Holds(q) => Holds(q)'
    BY <1>4, RequestEffect DEF Holds, vars
  <2> QED
    BY <1>0, <1>4, <2>1, <2>2, RequestEffect DEF PageInv
<1>7. ASSUME NEW p \in Procs, Direct(p) PROVE PageInv'
  <2>1. Holds(p)
    BY <1>7, CallerLives, DirectEffect DEF Holds
  <2>2. \A q : Holds(q) => Holds(q)'
    BY <1>7, DirectEffect DEF Holds, vars
  <2> QED
    BY <1>0, <1>7, <2>1, <2>2, DirectEffect DEF PageInv
<1>5. CASE FreePages
  <2>1. \A p \in Procs : p # Current /\ Holds(p) => Holds(p)'
    BY <1>5, FreesEffect DEF PageInv, Holds, vars
  <2>2. stage' \in [Procs -> Stages]
    BY <1>5, FreesEffect DEF PageInv, Stages
  <2>3. access'.status # "pending"
    BY <1>5, FreesEffect
  <2>4. (\A v \in DOMAIN pageTable : Holds(pageTable[v].pid))'
    BY <1>0, <1>5, <2>1, FreesEffect, HoldersType
  <2> QED
    BY <2>2, <2>3, <2>4 DEF PageInv, Holds
<1>6. CASE Ended \/ UNCHANGED systemVars
  BY <1>6 DEF Ended, systemVars, memoryVars, vars, PageInv, Holds
<1> QED
  BY <1>1, <1>2, <1>3, <1>4, <1>5, <1>6, <1>7 DEF SystemNext, KernelMoves, Asks

\* At the start only the idle process exists and it holds the only page.
LEMMA LivesInit == SystemInit => LifeInv
BY DEF SystemInit, Init, LifeInv, InRun

\* At the start the only page is the idle process's.
LEMMA PagesInit == SystemInit => PageInv
<1>1. ASSUME SystemInit PROVE PageInv
  <2>1. /\ DOMAIN pageTable = {Memory!IdlePage} /\ pageTable[Memory!IdlePage].pid = Idle
        /\ Idle \in processList /\ stage = [p \in Procs |-> IF p = Idle THEN "loaded" ELSE "new"]
        /\ access.status = "none" /\ Idle \in Procs
    BY <1>1, ProcsFacts DEF SystemInit, Init, Memory!Init, Memory!PageEntry, Memory!NoCall,
                            Memory!Pids, Procs
  <2> QED
    BY <2>1 DEF PageInv, Holds, Stages
<1> QED
  BY <1>1

\* A terminated process leaves no page behind, whatever has mapped it, for
\* every number of programs, frames and pages.
THEOREM DeadLeaveNothing == SystemSpec => []PagesOfTheLiving
<1>1. SystemInit => LifeInv /\ PageInv
  BY LivesInit, PagesInit
<1>2. TypeOK /\ Memory!PagingTypeOK /\ LifeInv /\ PageInv /\ [SystemNext]_systemVars
         => LifeInv' /\ PageInv'
  BY KernelSteps, LifeStep, PageStep
<1>3. LifeInv /\ PageInv => PagesOfTheLiving
  BY DEF PageInv, Holds, PagesOfTheLiving
<1> QED
  BY <1>1, <1>2, <1>3, SystemTypeCorrect, SystemMemoryIsSafe, PTL DEF SystemSpec

-----------------------------------------------------------------------------
(***************************************************************************)
(* Separate programs: the pages of code.                                   *)
(***************************************************************************)
\* The pages of a program: code, data, heap and stack.
OwnPages(p) == {Memory!StartPage(p) + i : i \in 0..(ProgramPages - 1)}

\* Programs have different pages, each its own code, which is nobody's data.
LEMMA PagesApart ==
    ASSUME NEW p \in Users, NEW q \in Users, NEW v \in OwnPages(p), v \in OwnPages(q)
    PROVE  p = q
<1>1. PICK i \in 0..(ProgramPages - 1), j \in 0..(ProgramPages - 1) :
          (p - 1) * ProgramPages + i = (q - 1) * ProgramPages + j
  BY DEF OwnPages, Memory!StartPage
<1>2. /\ p \in Nat /\ q \in Nat /\ 1 <= p /\ 1 <= q
      /\ ProgramPages \in Nat /\ i \in Nat /\ j \in Nat /\ i < ProgramPages /\ j < ProgramPages
  BY NAssumption, SystemAssumption DEF Users
<1>3. /\ (p - 1) * ProgramPages \in Nat /\ (q - 1) * ProgramPages \in Nat
      /\ p * ProgramPages = (p - 1) * ProgramPages + ProgramPages
      /\ q * ProgramPages = (q - 1) * ProgramPages + ProgramPages
  BY <1>2
<1>4. ~(p + 1 <= q)
  <2>1. p + 1 <= q => p * ProgramPages <= (q - 1) * ProgramPages
    BY <1>2
  <2> QED
    BY <1>1, <1>2, <1>3, <2>1
<1>5. ~(q + 1 <= p)
  <2>1. q + 1 <= p => q * ProgramPages <= (p - 1) * ProgramPages
    BY <1>2
  <2> QED
    BY <1>1, <1>2, <1>3, <2>1
<1> QED
  BY <1>2, <1>4, <1>5

LEMMA CodeIsOwn ==
    ASSUME NEW p \in Users
    PROVE  ProgramCode(p) \subseteq OwnPages(p) /\ Memory!StartPage(p) \in ProgramCode(p)
<1>1. /\ \A i \in 0..(CodePages - 1) : i \in 0..(ProgramPages - 1)
      /\ 0 \in 0..(CodePages - 1)
      /\ (p - 1) * ProgramPages \in Nat
  BY NAssumption, SystemAssumption DEF Users
<1>2. (p - 1) * ProgramPages + 0 = (p - 1) * ProgramPages
  BY <1>1
<1> QED
  BY <1>1, <1>2 DEF ProgramCode, OwnPages, Memory!StartPage

\* A loader enters pages of its own program only.
LEMMA LoaderStaysHome ==
    ASSUME SeparatePrograms, NEW p \in Users
    PROVE  Memory!LoaderPages(p) \subseteq OwnPages(p)
<1>1. /\ p \in Nat /\ 1 <= p /\ ProgramPages \in Nat /\ 3 <= ProgramPages
      /\ PageCount \in Nat /\ PageCount <= ProgramPages
  BY NAssumption, SystemAssumption DEF Users, SeparatePrograms
<1>2. ASSUME NEW i \in 0..(PageCount - 1)
      PROVE  Memory!Exchanged(Memory!StartPage(p) + i) \in OwnPages(p)
  <2>1. i \in 0..(ProgramPages - 1) /\ Memory!StartPage(p) + i \in OwnPages(p)
    BY <1>1, <1>2 DEF OwnPages
  <2>2. CASE p = 1
    <3>1. Memory!StartPage(p) = 0
      BY <1>1, <2>2 DEF Memory!StartPage
    <3>2. 1 \in 0..(ProgramPages - 1) /\ 2 \in 0..(ProgramPages - 1)
      BY <1>1
    <3>3. Memory!StartPage(p) + 1 = 1 /\ Memory!StartPage(p) + 2 = 2
      BY <3>1
    <3>4. 1 \in OwnPages(p) /\ 2 \in OwnPages(p)
      BY <3>2, <3>3 DEF OwnPages
    <3> QED
      BY <2>1, <3>4 DEF Memory!Exchanged
  <2>3. CASE 1 <= p - 1
    <3>1. 1 * ProgramPages <= (p - 1) * ProgramPages
      BY <1>1, <2>3
    <3>2. Memory!StartPage(p) + i \notin {1, 2}
      BY <1>1, <2>1, <3>1 DEF Memory!StartPage
    <3> QED
      BY <2>1, <3>2 DEF Memory!Exchanged
  <2> QED
    BY <1>1, <2>2, <2>3
<1> QED
  BY <1>2 DEF Memory!LoaderPages

LEMMA LoaderStaysOff ==
    ASSUME SeparatePrograms, NEW p \in Users, NEW q \in Users,
           NEW v \in ProgramCode(q), v \in Memory!LoaderPages(p)
    PROVE  p = q
BY PagesApart, CodeIsOwn, LoaderStaysHome

\* A page of code is used by its own program only.
LEMMA CodeApart ==
    ASSUME SeparatePrograms, NEW p \in Users, NEW v \in ProgramCode(p), NEW q \in Procs,
           v \in CodeOf(q) \cup DataPages
    PROVE  p = q
<1>1. v \in AllCode
  BY DEF AllCode
<1>2. v \in CodeOf(q) /\ q # Idle
  BY <1>1 DEF SeparatePrograms, CodeOf
<1>3. q \in Users /\ v \in ProgramCode(q)
  BY <1>2 DEF Procs, CodeOf
<1> QED
  BY <1>3, PagesApart, CodeIsOwn

\* No shared region lies on a page of code.
LEMMA CodeUnshared ==
    ASSUME SeparatePrograms, NEW p \in Procs, NEW v \in CodeOf(p)
    PROVE  v \notin SharedPages
<1>1. CASE p = Idle
  <2>1. \A r \in Regions : Memory!SharedPage(r) # Memory!IdlePage
    BY SystemAssumption DEF Memory!SharedPage, Memory!IdlePage
  <2> QED
    BY <1>1, <2>1 DEF CodeOf, SharedPages
<1>2. CASE p # Idle
  BY <1>2 DEF Procs, CodeOf, AllCode, SeparatePrograms
<1> QED
  BY <1>1, <1>2

\* A load that goes on goes on to a page of code.
LEMMA NextCodePage ==
    ASSUME NEW p \in Users, NEW v \in ProgramCode(p), v + 1 < Memory!StartPage(p) + CodePages
    PROVE  v + 1 \in ProgramCode(p)
<1>1. PICK i \in 0..(CodePages - 1) : v = (p - 1) * ProgramPages + i
  BY DEF ProgramCode
<1>2. (p - 1) * ProgramPages \in Nat /\ CodePages \in Nat
  BY NAssumption, SystemAssumption DEF Users
<1>3. i + 1 \in 0..(CodePages - 1) /\ v + 1 = (p - 1) * ProgramPages + (i + 1)
  BY <1>1, <1>2 DEF Memory!StartPage
<1> QED
  BY <1>3 DEF ProgramCode

-----------------------------------------------------------------------------
(***************************************************************************)
(* Separate programs: what the kernel's steps do.                          *)
(***************************************************************************)

\* Only one process is the highest of the blocked.
LEMMA OneHighest ==
    ASSUME TypeOK, NEW p \in Procs, NEW q \in Procs, NEW plist, NEW st,
           HighestBlocked(p, plist, st), HighestBlocked(q, plist, st)
    PROVE  p = q
<1>1. priority \in [Procs -> 1..32]
  BY DEF TypeOK, Priorities
<1>2. priority[p] \in Int /\ priority[q] \in Int
  BY <1>1
<1>3. p \in Nat /\ q \in Nat
  BY ProcsFacts
<1> QED
  BY <1>2, <1>3 DEF HighestBlocked, Earlier

\* While the pages of the terminated process are free and it is still in
\* processList, the kernel does nothing else.
LEMMA FreedThenTerminated ==
    ASSUME KernelMoves, Freed
    PROVE  Terminated
<1>1. pc = "cycleEnd" /\ waking = {} /\ "terminated" \in flags
  BY DEF Freed, Terminating, Handles
<1>2. ASSUME NEW f \in {"preempt", "sleep", "expired", "blocked"} PROVE ~Handles(f)
  BY <1>1, <1>2 DEF Freed, Terminating, Handles, FlagRank
<1>3. ~KernelAlone
  BY <1>1, <1>2 DEF KernelAlone, LoadProcess, DispatchLoaded, DispatchUser, Dispatches, Halt,
                    DropTerminated, DispatchIdle, DispatchNobody, NoRunningProcess, FinishExit,
                    Callback, WakeUp, NextCycleOfRun, HandlePreemption, HandleSleep,
                    HandleExpired, HandleBlocked, HandleWaiting
<1>4. ASSUME NEW p \in Users PROVE ~EndLoad(p)
  BY <1>1 DEF EndLoad, DispatchUser, LoadBlocks, LoadFatal, Dispatches
<1>5. ASSUME NEW p \in Procs PROVE ~Execute(p)
  BY <1>1 DEF Execute, Step, Exit, Sleep, SetPriority, Fault, MemoryBlock, MemoryFatal,
              Executes, Fetches
<1> QED
  BY <1>3, <1>4, <1>5 DEF KernelMoves

\* Nobody who is in processList and about to run has lost its pages.
LEMMA AliveHere ==
    ASSUME LoadedInv, NEW p \in Procs, p \in processList, pc = "dispatch", isLoaded[p]
    PROVE  stage[p] = "loaded"
BY DEF LoadedInv, Freed, Terminating, Handles

\* The load that ends is the one the call was made for, and it was not refused.
LEMMA EndsItsLoad ==
    ASSUME CallsInv, NEW p \in Users, EndLoad(p)
    PROVE  /\ pc = "dispatch" /\ access.pid = p /\ access.kind = "load"
           /\ access.status # "illegal" /\ (access.status = "granted" => stage[p] = "loaded")
<1>1. Dispatches(p) /\ access.status # "none"
  BY DEF EndLoad, DispatchUser, LoadBlocks, LoadFatal, Answered, Dead
<1>2. pc = "dispatch" /\ p = Top(readyQueue)
  BY <1>1 DEF Dispatches
<1> QED
  BY <1>1, <1>2 DEF CallsInv, Caller, IsNext, Freed, Terminating, Handles

\* isLoaded becomes true for a process whose load has just been granted.
LEMMA LoadedGrows ==
    ASSUME TypeOK, LoadedInv, CallsInv, KernelMoves, NEW p \in Procs
    PROVE  /\ isLoaded[p] => isLoaded'[p]
           /\ isLoaded'[p] => isLoaded[p] \/ stage[p] = "loaded"
<1>0. isLoaded \in [Procs -> BOOLEAN] /\ Users \subseteq Procs
  BY ProcsFacts DEF TypeOK
<1>1. CASE KernelAlone
  <2>1. ASSUME NEW q \in Users, DispatchLoaded(q) PROVE isLoaded' = isLoaded
    BY <1>0, <2>1 DEF DispatchLoaded, DispatchUser
  <2>2. isLoaded' = isLoaded
    BY <1>1, <2>1 DEF KernelAlone, pcbVars, LoadProcess, Halt, DropTerminated, DispatchIdle,
                      DispatchNobody, NoRunningProcess, FinishExit, Callback, WakeUp,
                      NextCycleOfRun, HandlePreemption, HandleSleep, HandleExpired,
                      HandleBlocked, HandleWaiting
  <2> QED
    BY <2>2
<1>2. ASSUME NEW q \in Users, EndLoad(q)
      PROVE  \/ isLoaded' = isLoaded
             \/ isLoaded' = [isLoaded EXCEPT ![q] = TRUE] /\ stage[q] = "loaded"
  BY <1>2, EndsItsLoad DEF EndLoad, Answered, DispatchUser, LoadBlocks, LoadFatal
<1>3. ASSUME NEW q \in Procs, Execute(q) PROVE isLoaded' = isLoaded
  BY <1>3 DEF Execute, pcbVars, Step, Exit, Sleep, SetPriority, Fault, MemoryBlock,
              MemoryFatal, unchangedByCpu
<1>4. CASE Terminated
  <2>1. CASE isLoaded' = isLoaded
    BY <2>1
  <2>2. CASE ~(isLoaded' = isLoaded)
    <3>1. /\ pc' = "dispatch" /\ Freed /\ pc = "cycleEnd"
          /\ Unblocks(processList \ {Current}, Killed(Current))
      BY <1>4, <2>2 DEF Terminated, HandleTerminated, UnblockThrows, Freed, Terminating, Handles
    <3>2. PICK q \in Procs : /\ HighestBlocked(q, processList \ {Current}, Killed(Current))
                             /\ isLoaded' = [isLoaded EXCEPT ![q] = TRUE]
      BY <2>2, <3>1 DEF Unblocks
    <3>3. ~isLoaded[q]
      BY <1>0, <2>2, <3>2
    <3>4. q \in ToLoad
      BY <3>2, <3>3 DEF ToLoad, LoadedInv, Procs
    <3>5. access.status = "granted"
      BY <1>4, <3>1, <3>4 DEF Terminated, Dead, Answered
    <3>6. access.pid \in ToLoad /\ access.kind = "load"
      BY <3>1, <3>5 DEF CallsInv, Caller
    <3>7. access.pid = q
      BY <1>0, <3>2, <3>6, OneHighest DEF ToLoad
    <3>8. stage[q] = "loaded"
      BY <3>5, <3>6, <3>7 DEF CallsInv
    <3> QED
      BY <1>0, <3>2, <3>8
  <2> QED
    BY <2>1, <2>2
<1> QED
  BY <1>0, <1>1, <1>2, <1>3, <1>4 DEF KernelMoves

\* Whoever runs is loaded.
LEMMA RunsWhatIsLoaded ==
    ASSUME TypeOK, LifeInv, LoadedInv, CallsInv, KernelMoves, InRun'
    PROVE  stage[Current'] = "loaded"
<1>0. Users \subseteq Procs /\ Idle \in Procs
  BY ProcsFacts
<1>1. ASSUME NEW p \in Users, DispatchUser(p) PROVE pc = "dispatch" /\ p \in processList /\ Current' = p
  BY <1>0, <1>1, DispatchedLives DEF DispatchUser, Dispatches
<1>2. ASSUME InRun, Current' = Current, ~Terminated PROVE stage[Current'] = "loaded"
  BY <1>2, FreedThenTerminated DEF LoadedInv
<1>3. ~Terminated
  BY DEF Terminated, InRun
<1>4. CASE KernelAlone
  <2>1. ASSUME NEW p \in Users, DispatchLoaded(p) PROVE stage[Current'] = "loaded"
    BY <1>0, <1>1, <2>1, AliveHere DEF DispatchLoaded
  <2>2. CASE DispatchIdle
    <3>1. Idle \in processList /\ Current' = Idle /\ pc = "dispatch"
      BY <1>0, <2>2, DispatchedLives DEF DispatchIdle, Dispatches
    <3> QED
      BY <1>0, <3>1, AliveHere DEF LoadedInv
  <2>3. CASE DispatchNobody
    <3>1. pc = "dispatch" /\ Current' = Idle /\ Runnable(Idle)
      BY <2>3 DEF DispatchNobody, Current, InRun
    <3>2. Idle \in processList
      BY <1>0, <3>1 DEF LifeInv, Runnable
    <3> QED
      BY <1>0, <3>1, <3>2, AliveHere DEF LoadedInv
  <2>4. CASE NoRunningProcess \/ FinishExit \/ Callback \/ WakeUp \/ NextCycleOfRun
    <3>1. InRun /\ Current' = Current
      BY <2>4 DEF NoRunningProcess, FinishExit, Callback, WakeUp, NextCycleOfRun, InRun, Current
    <3> QED
      BY <1>2, <1>3, <3>1
  <2>5. ASSUME NEW p \in Users, LoadProcess(p) PROVE FALSE
    BY <2>5 DEF LoadProcess, InRun
  <2>6. CASE \/ Halt \/ DropTerminated
             \/ HandlePreemption \/ HandleSleep \/ HandleExpired \/ HandleBlocked
    BY <2>6 DEF Halt, DropTerminated, HandlePreemption, HandleSleep, HandleExpired,
                HandleBlocked, HandleWaiting, InRun
  <2> QED
    BY <1>4, <2>1, <2>2, <2>3, <2>4, <2>5, <2>6 DEF KernelAlone
<1>5. ASSUME NEW p \in Users, EndLoad(p) PROVE stage[Current'] = "loaded"
  <2>1. DispatchUser(p) /\ access.status = "granted"
    BY <1>5, EndsItsLoad DEF EndLoad, Answered, Dead, LoadBlocks, LoadFatal, InRun
  <2> QED
    BY <1>1, <1>5, <2>1, EndsItsLoad
<1>6. ASSUME NEW p \in Procs, Execute(p) PROVE stage[Current'] = "loaded"
  <2>1. pc = "execute" /\ runningProcess' = runningProcess
    BY <1>6 DEF Execute, Step, Exit, Sleep, SetPriority, Fault, MemoryBlock, MemoryFatal,
                Executes, Fetches, unchangedByCpu
  <2> QED
    BY <1>2, <1>3, <2>1 DEF InRun, Current
<1> QED
  BY <1>3, <1>4, <1>5, <1>6 DEF KernelMoves

\* Nobody enters processList after the boot.
LEMMA NobodyEnters ==
    ASSUME KernelMoves
    PROVE  /\ pc = "boot" \/ processList' \subseteq processList
           /\ pc' = "boot" => pc = "boot"
<1>1. CASE KernelAlone
  <2>1. ASSUME NEW p \in Users, LoadProcess(p) PROVE pc = "boot"
    BY <2>1 DEF LoadProcess
  <2>2. ASSUME ~\E p \in Users : LoadProcess(p)
        PROVE processList' = processList /\ pc' # "boot"
    BY <1>1, <2>2 DEF KernelAlone, DispatchLoaded, DispatchUser, Halt, DropTerminated,
                      DispatchIdle, DispatchNobody, RunsIdle, EntersRun, NoRunningProcess,
                      FinishExit, Callback, WakeUp, NextCycleOfRun, HandlePreemption,
                      HandleSleep, HandleExpired, HandleBlocked, HandleWaiting
  <2> QED
    BY <2>1, <2>2
<1>2. CASE Terminated
  BY <1>2 DEF Terminated, HandleTerminated
<1>3. ASSUME NEW p \in Users, EndLoad(p) PROVE processList' = processList /\ pc' # "boot"
  BY <1>3 DEF EndLoad, DispatchUser, Dispatches, EntersRun, LoadBlocks, LoadFatal
<1>4. ASSUME NEW p \in Procs, Execute(p)
      PROVE  processList' = processList /\ pc' # "boot"
  BY <1>4 DEF Execute, Step, Exit, Sleep, SetPriority, Fault, MemoryBlock, MemoryFatal,
              Completes, Returns
<1> QED
  BY <1>1, <1>2, <1>3, <1>4 DEF KernelMoves

\* A call that ended the program is never resumed.
LEMMA HowItCrashes ==
    ASSUME KernelMoves, access'.status # "none"
    PROVE  pc' = "crashed" /\ access'.status = "fatal"
<1>1. access.status = "fatal" /\ access'.status = "fatal"
  BY MemoryRests
<1>2. CASE Terminated
  BY <1>1, <1>2 DEF Terminated, Answered, Quiet, NoCall
<1>3. ASSUME NEW p \in Users, EndLoad(p) PROVE pc' = "crashed"
  BY <1>1, <1>3 DEF EndLoad, Answered, LoadFatal
<1>4. ASSUME NEW p \in Procs, Execute(p) PROVE pc' = "crashed"
  BY <1>1, <1>4 DEF Execute, Answered, MemoryFatal
<1>5. ~KernelAlone
  BY <1>1 DEF KernelAlone, Quiet, NoCall
<1> QED
  BY <1>1, <1>2, <1>3, <1>4, <1>5 DEF KernelMoves

-----------------------------------------------------------------------------
(***************************************************************************)
(* Separate programs: the steps keep the invariant.                        *)
(***************************************************************************)

\* What stands still while the memory works.
LEMMA KernelStands ==
    ASSUME UNCHANGED vars
    PROVE  /\ Terminating' = Terminating /\ Current' = Current /\ InRun' = InRun
           /\ \A p : IsNext(p)' = IsNext(p)
           /\ ToLoad' = ToLoad
           /\ UNCHANGED <<pc, processList, isLoaded, runningProcess>>
<1>1. UNCHANGED <<state, priority, isLoaded, isBlocked, readyQueue, runningProcess, pc,
                  processList, flags, waking>>
  BY DEF vars, pcbVars
<1>2. Terminating' = Terminating /\ Current' = Current /\ InRun' = InRun
  BY <1>1 DEF Terminating, Handles, Current, InRun
<1>3. ASSUME NEW p PROVE IsNext(p)' = IsNext(p)
  BY <1>1 DEF IsNext, OnlyIdleRemains, Runnable
<1>4. ToLoad' = ToLoad
  BY <1>1, <1>2 DEF ToLoad, HighestBlocked, BlockedOnMemory, Killed
<1> QED
  BY <1>1, <1>2, <1>3, <1>4

\* A call that is under way is for a page its caller may ask for; a load is for
\* a page of the program's code, which is nobody else's.
LEMMA PendingCalls ==
    ASSUME TypeOK, Memory!PagingTypeOK, PageInv, CodeInv, LoadedInv, CallsInv, MemoryStep
    PROVE  /\ access.pid \in Procs /\ stage[access.pid] # "gone"
           /\ access.page \in CodeOf(access.pid) \cup DataPages
           /\ Caller
           /\ access.kind = "load" => /\ access.pid \in Users
                                      /\ access.page \in ProgramCode(access.pid)
                                      /\ ~Memory!Illegal
<1>1. access.status = "pending" /\ Holds(access.pid) /\ access.pid \in Procs
  BY CallEffect, HoldersType DEF PageInv
<1>2. Caller /\ access.page \in CodeOf(access.pid) \cup DataPages
  BY <1>1 DEF CallsInv
<1>3. ASSUME access.kind = "load"
      PROVE  /\ access.pid \in Users
             /\ access.page \in ProgramCode(access.pid)
             /\ ~Memory!Illegal
  <2>1. access.pid \in Users
    BY <1>1, <1>2, <1>3 DEF Caller, ToLoad
  <2>2. access.page \in ProgramCode(access.pid)
    BY <1>1, <1>3 DEF CallsInv
  <2> QED
    BY <2>1, <2>2 DEF CodeInv, Memory!Illegal
<1> QED
  BY <1>1, <1>2, <1>3 DEF Holds

\* How the answer comes about; a load may go on to the next page instead.
LEMMA AnswerEffect ==
    ASSUME MemoryStep
    PROVE  \/ access' = access
           \/ Memory!Illegal /\ access'.status = "illegal"
           \/ Memory!Block /\ access'.status = "blocked"
           \/ Memory!Fatal /\ access'.status = "fatal"
           \/ /\ Memory!Hit /\ access'.status = "granted"
              /\ access.kind = "load" => stage' = [stage EXCEPT ![access.pid] = "loaded"]
           \/ /\ Memory!Hit /\ Memory!LoadGoesOn
              /\ access' = [access EXCEPT !.page = @ + 1]
<1>1. CASE Memory!Illegal \/ Memory!Block \/ Memory!Fatal
  BY <1>1 DEF Memory!Illegal, Memory!Block, Memory!Fatal, Memory!Answer
<1>2. CASE Memory!Hit
  BY <1>2 DEF Memory!Hit, Memory!Answer
<1>3. CASE \/ \E v \in DOMAIN pageTable : Memory!Evict(v)
           \/ \E f \in freePages : Memory!MapMissing(f) \/ Memory!SwapIn(f)
  BY <1>3 DEF Memory!Evict, Memory!MapMissing, Memory!SwapIn
<1> QED
  BY <1>1, <1>2, <1>3 DEF MemoryStep

\* What the system's steps preserve together; LifeStep and PageStep add the rest.
LoadsInv == CodeInv /\ LoadedInv /\ CallsInv

\* A step of getaddress.
LEMMA CallKeeps ==
    ASSUME TypeOK, Memory!PagingTypeOK, PageInv, LoadsInv, SeparatePrograms, MemoryStep
    PROVE  LoadsInv'
<1>0. /\ CodeInv /\ LoadedInv /\ CallsInv
      /\ stage \in [Procs -> Stages] /\ Users \subseteq Procs
  BY ProcsFacts DEF LoadsInv, PageInv
<1>1. /\ UNCHANGED vars /\ access.status = "pending"
      /\ access'.pid = access.pid /\ access'.kind = access.kind
      /\ \A v \in DOMAIN pageTable : v \in DOMAIN pageTable' /\ pageTable'[v].pid = pageTable[v].pid
      /\ \A v \in DOMAIN pageTable' \ DOMAIN pageTable :
            v = access.page /\ pageTable'[v].pid = access.pid
  BY CallEffect
<1>2. /\ Caller /\ access.pid \in Procs /\ stage[access.pid] # "gone"
      /\ access.page \in CodeOf(access.pid) \cup DataPages
      /\ access.kind = "load" => /\ access.pid \in Users
                                 /\ access.page \in ProgramCode(access.pid)
                                 /\ ~Memory!Illegal
  BY <1>0, PendingCalls
<1>3. \/ stage' = stage
      \/ /\ access.kind = "load" /\ stage' = [stage EXCEPT ![access.pid] = "loaded"]
         /\ Memory!Owns(access.pid, access.page)
  BY <1>2, CallStages DEF Memory!Hit
<1>4. \A p, v : Memory!Owns(p, v) => Memory!Owns(p, v)'
  BY <1>1 DEF Memory!Owns, Memory!Mapped
<1>5. CodeInv'
  <2>1. ASSUME NEW p \in Users, NEW v \in ProgramCode(p), Memory!Mapped(v)'
        PROVE  Memory!Owns(p, v)'
    <3>1. CASE v \in DOMAIN pageTable
      BY <1>0, <1>4, <3>1 DEF CodeInv, Memory!Mapped
    <3>2. CASE v \notin DOMAIN pageTable
      <4>1. v = access.page /\ pageTable'[v].pid = access.pid
        BY <1>1, <2>1, <3>2 DEF Memory!Mapped
      <4>2. p = access.pid
        BY <1>2, <4>1, CodeApart
      <4> QED
        BY <2>1, <4>1, <4>2 DEF Memory!Owns, Memory!Mapped
    <3> QED
      BY <3>1, <3>2
  <2>2. ASSUME NEW p \in Procs, stage'[p] = "loaded"
        PROVE  \E v \in CodeOf(p) : Memory!Owns(p, v)'
    <3>1. CASE stage[p] = "loaded"
      BY <1>0, <1>4, <3>1 DEF CodeInv
    <3>2. CASE stage[p] # "loaded"
      <4>1. p = access.pid /\ access.kind = "load" /\ Memory!Owns(p, access.page)
        BY <1>0, <1>3, <2>2, <3>2
      <4>2. access.page \in CodeOf(p)
        BY <1>2, <4>1, NAssumption DEF CodeOf, Users, Idle
      <4> QED
        BY <1>4, <4>1, <4>2
    <3> QED
      BY <3>1, <3>2
  <2> QED
    BY <2>1, <2>2 DEF CodeInv
<1>6. \A p \in Procs :
          /\ stage'[p] # "refused"
          /\ stage'[p] = "gone" <=> stage[p] = "gone"
          /\ stage[p] = "loaded" => stage'[p] = "loaded"
  BY <1>0, <1>2, <1>3 DEF LoadedInv
<1>7. Freed' <=> Freed
  BY <1>1, <1>6, KernelStands, CurrentType DEF Freed
<1>8. LoadedInv'
  <2>1. \A p \in Procs : isLoaded[p] => stage'[p] \in {"loaded", "gone"}
    BY <1>0, <1>6 DEF LoadedInv
  <2> QED
    BY <1>0, <1>1, <1>6, <1>7, <2>1, KernelStands, CurrentType DEF LoadedInv
<1>9. CallsInv'
  <2>1. Caller'
    <3>1. pc # "crashed"
      BY <1>1, <1>2 DEF Caller
    <3> QED
      BY <1>1, <1>2, <1>7, <3>1, KernelStands DEF Caller
  <2>2. ASSUME access'.status = "pending"
        PROVE  /\ access'.page \in CodeOf(access.pid) \cup DataPages
               /\ access.kind = "load" => access'.page \in ProgramCode(access.pid)
    <3>1. CASE access' = access
      BY <1>2, <3>1
    <3>2. CASE access' # access
      <4>1. Memory!LoadGoesOn /\ access' = [access EXCEPT !.page = @ + 1]
        BY <2>2, <3>2, AnswerEffect
      <4>2. access \in Memory!Accesses
        BY DEF Memory!PagingTypeOK
      <4>3. access'.page = access.page + 1 /\ access.kind = "load"
        BY <4>1, <4>2 DEF Memory!Accesses, Memory!LoadGoesOn
      <4>4. access'.page \in ProgramCode(access.pid)
        BY <1>2, <4>1, <4>3, NextCodePage DEF Memory!LoadGoesOn
      <4> QED
        BY <1>2, <4>3, <4>4, NAssumption DEF CodeOf, Users, Idle
    <3> QED
      BY <3>1, <3>2
  <2>3. ASSUME access.kind = "load"
        PROVE  /\ access'.status # "illegal"
               /\ access'.status = "granted" => stage'[access.pid] = "loaded"
    <3>1. CASE access'.status = "pending"
      BY <3>1
    <3>2. CASE access'.status # "pending"
      <4>1. access' # access /\ access' # [access EXCEPT !.page = @ + 1]
        <5>1. access \in Memory!Accesses
          BY DEF Memory!PagingTypeOK
        <5> QED
          BY <1>1, <3>2, <5>1 DEF Memory!Accesses
      <4> QED
        BY <1>0, <1>2, <2>3, <4>1, AnswerEffect
    <3> QED
      BY <3>1, <3>2
  <2>4. /\ (CodeOf(access.pid))' = CodeOf(access.pid)
        /\ (ProgramCode(access.pid))' = ProgramCode(access.pid)
    BY <1>1 DEF CodeOf, ProgramCode
  <2> QED
    BY <1>1, <2>1, <2>2, <2>3, <2>4 DEF CallsInv
<1> QED
  BY <1>5, <1>8, <1>9 DEF LoadsInv

\* The beginning of a load.
LEMMA LoadKeeps ==
    ASSUME TypeOK, LoadsInv, SeparatePrograms, NEW p \in Users, BeginLoad(p) \/ LoadUnblocked(p)
    PROVE  LoadsInv'
<1>0. CodeInv /\ LoadedInv /\ CallsInv
  BY DEF LoadsInv
<1>1. /\ Memory!StartLoad(p) /\ UNCHANGED vars /\ access.status = "none"
      /\ \/ IsNext(p) /\ ~isLoaded[p]
         \/ Freed /\ p \in ToLoad
  BY DEF BeginLoad, LoadUnblocked, NoCall, Freed
<1>2. /\ DOMAIN pageTable' = DOMAIN pageTable \cup Memory!LoaderPages(p)
      /\ \A v \in DOMAIN pageTable : pageTable'[v] = pageTable[v]
      /\ \A v \in DOMAIN pageTable' \ DOMAIN pageTable : pageTable'[v].pid = p
      /\ access'.status = "pending" /\ access'.kind = "load" /\ access'.pid = p
      /\ access'.page = Memory!StartPage(p)
      /\ UNCHANGED <<freePages, stage>>
  BY <1>1, LoaderEffect
<1>3. Memory!StartPage(p) \in ProgramCode(p) /\ CodeOf(p) = ProgramCode(p)
  BY CodeIsOwn, NAssumption DEF CodeOf, Users, Idle
<1>4. Freed' <=> Freed
  BY <1>1, <1>2, KernelStands DEF Freed
<1>5. CodeInv'
  <2>1. ASSUME NEW q \in Users, NEW v \in ProgramCode(q), Memory!Mapped(v)'
        PROVE  Memory!Owns(q, v)'
    <3>1. CASE v \in DOMAIN pageTable
      BY <1>0, <1>2, <3>1 DEF CodeInv, Memory!Owns, Memory!Mapped
    <3>2. CASE v \notin DOMAIN pageTable
      BY <1>2, <2>1, <3>2, LoaderStaysOff DEF Memory!Owns, Memory!Mapped
    <3> QED
      BY <3>1, <3>2
  <2>2. ASSUME NEW q \in Procs, stage'[q] = "loaded"
        PROVE  \E v \in CodeOf(q) : Memory!Owns(q, v)'
    BY <1>0, <1>2, <2>2 DEF CodeInv, Memory!Owns, Memory!Mapped
  <2> QED
    BY <2>1, <2>2 DEF CodeInv
<1>6. LoadedInv'
  BY <1>0, <1>1, <1>2, <1>4, KernelStands DEF LoadedInv
<1>7. CallsInv'
  <2>1. Caller'
    <3>1. CASE IsNext(p) /\ ~isLoaded[p]
      <4>1. pc = "dispatch" /\ IsNext(p)' /\ ~isLoaded'[p] /\ pc' = pc
        BY <1>1, <3>1, KernelStands DEF IsNext
      <4> QED
        BY <1>2, <3>1, <4>1 DEF Caller, IsNext
    <3>2. CASE Freed /\ p \in ToLoad
      BY <1>1, <1>2, <1>4, <3>2, KernelStands DEF Caller, Freed, Terminating, Handles
    <3> QED
      BY <1>1, <3>1, <3>2
  <2>2. /\ (CodeOf(access.pid))' = CodeOf(p)
        /\ (ProgramCode(access.pid))' = ProgramCode(p)
    BY <1>2 DEF CodeOf, ProgramCode
  <2> QED
    BY <1>2, <1>3, <2>1, <2>2 DEF CallsInv
<1> QED
  BY <1>5, <1>6, <1>7 DEF LoadsInv

\* An access of an instruction begins.
LEMMA RequestKeeps ==
    ASSUME TypeOK, LoadsInv, NEW p \in Procs, Asks(p)
    PROVE  LoadsInv'
<1>0. CodeInv /\ LoadedInv /\ CallsInv
  BY DEF LoadsInv
<1>1. /\ access'.status = "pending" /\ access'.kind # "load" /\ access'.pid = p
      /\ access'.page \in CodeOf(p) \cup DataPages
      /\ pc = "execute" /\ runningProcess = p
      /\ UNCHANGED <<vars, pageTable, freePages, stage>>
  BY RequestEffect DEF Running
<1>2. ~Freed /\ ~Freed'
  BY <1>1, KernelStands DEF Freed, Terminating, Handles
<1>3. CodeInv'
  BY <1>0, <1>1 DEF CodeInv, Memory!Owns, Memory!Mapped
<1>4. LoadedInv'
  BY <1>0, <1>1, <1>2, KernelStands DEF LoadedInv
<1>5. CallsInv'
  <2>1. Caller'
    BY <1>1, KernelStands DEF Caller
  <2>2. (CodeOf(access.pid))' = CodeOf(p)
    BY <1>1 DEF CodeOf, ProgramCode
  <2> QED
    BY <1>1, <2>1, <2>2 DEF CallsInv
<1> QED
  BY <1>3, <1>4, <1>5 DEF LoadsInv

\* A store without translation, or a shared region mapped.
LEMMA DirectKeeps ==
    ASSUME TypeOK, Memory!PagingTypeOK, LoadsInv, SeparatePrograms, NEW p \in Procs, Direct(p)
    PROVE  LoadsInv'
<1>0. CodeInv /\ LoadedInv /\ CallsInv
  BY DEF LoadsInv
<1>1. /\ access.status = "granted" /\ pc = "execute"
      /\ UNCHANGED <<vars, freePages, access, stage>>
      /\ DOMAIN pageTable \subseteq DOMAIN pageTable'
      /\ \A v \in DOMAIN pageTable' \ SharedPages :
            v \in DOMAIN pageTable /\ pageTable'[v].pid = pageTable[v].pid
  BY DirectEffect DEF Running
<1>2. ~Freed /\ ~Freed'
  BY <1>1, KernelStands DEF Freed, Terminating, Handles
<1>3. CodeInv'
  <2>1. ASSUME NEW q \in Procs, NEW v \in CodeOf(q)
        PROVE  /\ Memory!Mapped(v)' => Memory!Mapped(v)
               /\ Memory!Owns(q, v) => Memory!Owns(q, v)'
    BY <1>1, CodeUnshared DEF Memory!Mapped, Memory!Owns
  <2>2. \A q \in Users : q \in Procs /\ CodeOf(q) = ProgramCode(q)
    BY NAssumption DEF Procs, CodeOf, Users, Idle
  <2>3. ASSUME NEW q \in Users, NEW v \in ProgramCode(q), Memory!Mapped(v)'
        PROVE  Memory!Owns(q, v)'
    BY <1>0, <2>1, <2>2, <2>3 DEF CodeInv
  <2>4. ASSUME NEW q \in Procs, stage'[q] = "loaded"
        PROVE  \E v \in CodeOf(q) : Memory!Owns(q, v)'
    BY <1>0, <1>1, <2>1, <2>4 DEF CodeInv
  <2> QED
    BY <2>3, <2>4 DEF CodeInv
<1>4. LoadedInv'
  BY <1>0, <1>1, <1>2, KernelStands DEF LoadedInv
<1>5. CallsInv'
  BY <1>0, <1>1, KernelStands DEF CallsInv, Caller
<1> QED
  BY <1>3, <1>4, <1>5 DEF LoadsInv

\* The pages of the process whose termination is handled become free.
LEMMA FreesKeeps ==
    ASSUME TypeOK, PageInv, LoadsInv, FreePages
    PROVE  LoadsInv'
<1>0. /\ CodeInv /\ LoadedInv /\ CallsInv
      /\ stage \in [Procs -> Stages] /\ Users \subseteq Procs
  BY ProcsFacts DEF LoadsInv, PageInv
<1>1. PICK c \in Procs : c = Current
  BY CurrentType
<1>2. /\ Terminating /\ stage[c] # "gone"
      /\ access' = access /\ UNCHANGED vars
      /\ stage' = [stage EXCEPT ![c] = "gone"]
      /\ \A v : v \in DOMAIN pageTable' <=> v \in DOMAIN pageTable /\ pageTable[v].pid # c
      /\ \A v \in DOMAIN pageTable' : pageTable'[v] = pageTable[v]
  BY <1>1, FreesEffect
<1>3. /\ ~Freed /\ pc = "cycleEnd" /\ InRun /\ Freed' /\ Current' = c
  BY <1>0, <1>1, <1>2, KernelStands DEF Freed, Terminating, Handles, InRun
<1>4. access.status = "none"
  BY <1>0, <1>3 DEF CallsInv, Caller
<1>5. CodeInv'
  <2>1. ASSUME NEW p \in Users, NEW v \in ProgramCode(p), Memory!Mapped(v)'
        PROVE  Memory!Owns(p, v)'
    BY <1>0, <1>2, <2>1 DEF CodeInv, Memory!Owns, Memory!Mapped
  <2>2. ASSUME NEW p \in Procs, stage'[p] = "loaded"
        PROVE  \E v \in CodeOf(p) : Memory!Owns(p, v)'
    BY <1>0, <1>2, <2>2 DEF CodeInv, Memory!Owns, Memory!Mapped
  <2> QED
    BY <2>1, <2>2 DEF CodeInv
<1>6. LoadedInv'
  <2>1. \A p \in Procs : /\ stage'[p] # "refused"
                         /\ isLoaded[p] => stage'[p] \in {"loaded", "gone"}
                         /\ stage'[p] = "gone" => p \notin processList \/ p = c
    BY <1>0, <1>2, <1>3 DEF LoadedInv
  <2> QED
    BY <1>0, <1>2, <1>3, <2>1, KernelStands DEF LoadedInv
<1>7. CallsInv'
  BY <1>2, <1>4 DEF CallsInv
<1> QED
  BY <1>5, <1>6, <1>7 DEF LoadsInv

\* A step of the kernel.
LEMMA MoveKeeps ==
    ASSUME TypeOK, LifeInv, PageInv, LoadsInv, KernelMoves
    PROVE  LoadsInv' /\ ~Freed'
<1>0. /\ CodeInv /\ LoadedInv /\ CallsInv
      /\ isLoaded \in [Procs -> BOOLEAN] /\ Idle \in Procs
  BY ProcsFacts DEF LoadsInv, TypeOK
<1>1. UNCHANGED <<pageTable, freePages, stage>>
  BY MemoryRests
<1>2. InRun' => stage[Current'] = "loaded"
  BY <1>0, RunsWhatIsLoaded
<1>3. ~Freed'
  BY <1>1, <1>2 DEF Freed, Terminating, Handles, InRun
<1>4. CodeInv'
  BY <1>0, <1>1 DEF CodeInv, Memory!Owns, Memory!Mapped
<1>5. LoadedInv'
  <2>1. \A p \in Procs : isLoaded'[p] => stage'[p] \in {"loaded", "gone"}
    BY <1>0, <1>1, LoadedGrows DEF LoadedInv
  <2>2. isLoaded'[Idle]
    BY <1>0, LoadedGrows DEF LoadedInv
  <2>3. ASSUME NEW p \in Procs, stage'[p] = "gone" PROVE p \notin processList'
    <3>1. pc # "boot" /\ processList' \subseteq processList
      BY <1>0, <1>1, <2>3, NobodyEnters DEF LoadedInv
    <3>2. CASE p \notin processList
      BY <3>1, <3>2
    <3>3. CASE Freed /\ p = Current
      BY <3>3, FreedThenTerminated DEF Terminated, HandleTerminated
    <3> QED
      BY <1>0, <1>1, <2>3, <3>2, <3>3 DEF LoadedInv
  <2> QED
    BY <1>0, <1>1, <1>2, <2>1, <2>2, <2>3, NobodyEnters DEF LoadedInv
<1>6. CallsInv'
  BY HowItCrashes DEF CallsInv, Caller
<1> QED
  BY <1>3, <1>4, <1>5, <1>6 DEF LoadsInv

\* Every step of the system keeps what separate programs rest on.
LEMMA LoadsStep ==
    ASSUME TypeOK, Memory!PagingTypeOK, LifeInv, PageInv, LoadsInv, SeparatePrograms,
           [SystemNext]_systemVars
    PROVE  LoadsInv'
<1>1. CASE Ended \/ UNCHANGED systemVars
  <2>1. UNCHANGED <<vars, pageTable, freePages, access, stage>>
    BY <1>1 DEF Ended, systemVars, memoryVars
  <2>2. Freed' = Freed
    BY <2>1, KernelStands DEF Freed
  <2> QED
    BY <2>1, <2>2, KernelStands
       DEF LoadsInv, CodeInv, LoadedInv, CallsInv, Caller, CodeOf, ProgramCode,
           Memory!Owns, Memory!Mapped
<1> QED
  BY <1>1, CallKeeps, LoadKeeps, RequestKeeps, DirectKeeps, FreesKeeps, MoveKeeps
     DEF SystemNext, KernelMoves, Asks

\* At the start nothing is loaded but the idle process.
LEMMA LoadsInit ==
    ASSUME SystemInit, SeparatePrograms
    PROVE  LoadsInv
<1>1. /\ pageTable = [v \in {Memory!IdlePage} |-> Memory!PageEntry(Memory!IdleFrame, TRUE, FALSE, Idle)]
      /\ stage = [p \in Procs |-> IF p = Idle THEN "loaded" ELSE "new"]
      /\ access.status = "none" /\ pc = "boot" /\ isLoaded = [p \in Procs |-> p = Idle]
      /\ Idle \in Procs
  BY ProcsFacts DEF SystemInit, Init, Memory!Init, Memory!NoCall, Memory!Pids, Procs
<1>2. CodeInv
  <2>1. \A p \in Users : Memory!IdlePage \notin ProgramCode(p)
    BY DEF SeparatePrograms, AllCode
  <2> QED
    BY <1>1, <2>1 DEF CodeInv, CodeOf, Memory!Owns, Memory!Mapped, Memory!PageEntry
<1>3. LoadedInv
  BY <1>1 DEF LoadedInv, InRun
<1> QED
  BY <1>1, <1>2, <1>3 DEF LoadsInv, CallsInv

\* The inductive invariant.
THEOREM SystemAlways ==
    ASSUME SeparatePrograms
    PROVE  SystemSpec => []SystemInv
<1>1. SystemInit => LifeInv /\ PageInv /\ LoadsInv
  BY LivesInit, PagesInit, LoadsInit
<1>2. TypeOK /\ Memory!PagingTypeOK /\ LifeInv /\ PageInv /\ LoadsInv /\ [SystemNext]_systemVars
         => LifeInv' /\ PageInv' /\ LoadsInv'
  BY KernelSteps, LifeStep, PageStep, LoadsStep
<1>3. LifeInv /\ PageInv /\ LoadsInv => SystemInv
  BY DEF LoadsInv, SystemInv
<1> QED
  BY <1>1, <1>2, <1>3, SystemTypeCorrect, SystemMemoryIsSafe, PTL DEF SystemSpec

\* Whoever executes has had its program loaded and not yet freed, for every
\* number of programs, pages of code and frames.
THEOREM RunningIsLoaded ==
    ASSUME SeparatePrograms
    PROVE  SystemSpec => []RunsLoaded
<1>1. SystemInv => RunsLoaded
  BY DEF SystemInv, LoadedInv, RunsLoaded, InRun, Freed, Terminating, Handles
<1> QED
  BY <1>1, SystemAlways, PTL

-----------------------------------------------------------------------------
(***************************************************************************)
(* The load that a termination makes.  A program the loader maps whole     *)
(* needs one frame for each page of code that is not in memory, and each   *)
(* page that comes in takes one: what is enough once stays enough.         *)
(***************************************************************************)

\* The loader enters all pages of code.  Where memory has two pages, program 1's
\* second is exchanged for its third and stays unmapped, which costs a frame.
LoaderCovers == \A p \in Users : ProgramCode(p) \subseteq Memory!LoaderPages(p)

\* A load finds its pages mapped, and blocks for want of frames only.
RoomInv ==
    /\ access.status = "pending" /\ access.kind = "load" =>
          \A v \in ProgramCode(access.pid) : Memory!Mapped(v)
    /\ Freed /\ access.status = "blocked" => ~HasRoom(access.pid)

\* Finite sets of numbers.
LEMMA BoundedIsFinite ==
    ASSUME NEW n \in Int, NEW S, S \subseteq 0..n
    PROVE  IsFiniteSet(S)
<1>1. IsFiniteSet(0..n)
  BY FS_Interval
<1> QED
  BY <1>1, FS_Subset

LEMMA RoomTypes ==
    ASSUME Memory!PagingTypeOK, NEW p \in Users
    PROVE  IsFiniteSet(StillToLoad(p)) /\ IsFiniteSet(freePages)
<1>1. StillToLoad(p) \subseteq 0..(Memory!StartPage(p) + CodePages)
  <2>1. (p - 1) * ProgramPages \in Nat /\ CodePages \in Nat
    BY NAssumption, SystemAssumption DEF Users
  <2> QED
    BY <2>1 DEF StillToLoad, ProgramCode, Memory!StartPage
<1>2. Memory!StartPage(p) + CodePages \in Int /\ Memory!IdleFrame \in Int
  BY NAssumption, SystemAssumption DEF Users, Memory!StartPage, Memory!IdleFrame
<1>3. freePages \subseteq 0..Memory!IdleFrame
  BY DEF Memory!PagingTypeOK, Memory!Frames
<1> QED
  BY <1>1, <1>2, <1>3, BoundedIsFinite

\* Without a free frame there is no room for a page that is not in memory.
LEMMA NoRoom ==
    ASSUME Memory!PagingTypeOK, NEW p \in Users, NEW v \in ProgramCode(p),
           ~Memory!Resident(v), freePages = {}
    PROVE  ~HasRoom(p)
<1>1. IsFiniteSet(StillToLoad(p)) /\ StillToLoad(p) # {}
  BY RoomTypes DEF StillToLoad
<1>2. Cardinality(StillToLoad(p)) \in Nat \ {0} /\ Cardinality(freePages) = 0
  BY <1>1, FS_EmptySet, FS_CardinalityType
<1> QED
  BY <1>2 DEF HasRoom

\* A page comes in: one page fewer to load, one frame fewer.
LEMMA RoomShrinks ==
    ASSUME Memory!PagingTypeOK, NEW p \in Users, NEW f \in freePages, Memory!SwapIn(f),
           access.page \in ProgramCode(p), HasRoom(p)
    PROVE  HasRoom(p)'
<1>1. ~Memory!Resident(access.page)
  BY DEF Memory!SwapIn, Memory!NeedsFrame, Memory!Mapped, Memory!Resident
<1>2. \A v : Memory!Resident(v)' <=> Memory!Resident(v) \/ v = access.page
  BY <1>1 DEF Memory!SwapIn, Memory!Entered, Memory!PageEntry, Memory!Mapped, Memory!Resident
<1>3. StillToLoad(p)' = StillToLoad(p) \ {access.page}
  BY <1>2 DEF StillToLoad, ProgramCode
<1>4. access.page \in StillToLoad(p)
  BY <1>1 DEF StillToLoad
<1>5. freePages' = freePages \ {f}
  BY DEF Memory!SwapIn, Memory!Remaining
<1>6. /\ Cardinality(StillToLoad(p)') = Cardinality(StillToLoad(p)) - 1
      /\ Cardinality(freePages') = Cardinality(freePages) - 1
      /\ Cardinality(StillToLoad(p)) \in Nat /\ Cardinality(freePages) \in Nat
  BY <1>3, <1>4, <1>5, RoomTypes, FS_RemoveElement, FS_CardinalityType
<1> QED
  BY <1>6 DEF HasRoom

\* Steps that keep the pages in memory and the free frames.
LEMMA RoomKept ==
    ASSUME NEW p, freePages' = freePages, \A v : Memory!Resident(v)' <=> Memory!Resident(v)
    PROVE  HasRoom(p)' <=> HasRoom(p)
BY DEF HasRoom, StillToLoad, ProgramCode

\* Steps of getaddress for a load that has room.
LEMMA CallKeepsRoom ==
    ASSUME Memory!PagingTypeOK, MemoryStep, NEW p \in Users, access.page \in ProgramCode(p),
           Memory!Mapped(access.page), HasRoom(p)
    PROVE  HasRoom(p)'
<1>1. CASE Memory!Illegal \/ Memory!Block \/ Memory!Fatal
  BY <1>1, RoomKept DEF Memory!Illegal, Memory!Block, Memory!Fatal, Memory!Resident, Memory!Mapped
<1>2. CASE Memory!Hit
  <2>1. \A v \in DOMAIN pageTable : pageTable[v] \in Memory!Entries
    BY DEF Memory!PagingTypeOK
  <2>2. \A v : Memory!Resident(v)' <=> Memory!Resident(v)
    BY <1>2, <2>1 DEF Memory!Hit, Memory!Stores, Memory!Resident, Memory!Mapped, Memory!Entries
  <2> QED
    BY <1>2, <2>2, RoomKept DEF Memory!Hit
<1>3. ASSUME NEW v \in DOMAIN pageTable, Memory!Evict(v) PROVE FALSE
  <2>1. freePages = {} /\ ~Memory!Resident(access.page)
    BY <1>3 DEF Memory!Evict, Memory!OutOfFrames, Memory!NeedsFrame, Memory!Resident, Memory!Mapped
  <2> QED
    BY <2>1, NoRoom
<1>4. ASSUME NEW f \in freePages, Memory!MapMissing(f) \/ Memory!SwapIn(f) PROVE HasRoom(p)'
  BY <1>4, RoomShrinks DEF Memory!MapMissing
<1> QED
  BY <1>1, <1>2, <1>3, <1>4 DEF MemoryStep

\* While the pages of the terminated process are free, only its handler goes on:
\* a load begins, getaddress works on it, or the termination ends.
LEMMA HandlerSteps ==
    ASSUME Freed, [SystemNext]_systemVars
    PROVE  \/ MemoryStep
           \/ \E p \in Users : LoadUnblocked(p)
           \/ Terminated
           \/ UNCHANGED systemVars
<1>1. pc = "cycleEnd" /\ stage[Current] = "gone"
  BY DEF Freed, Terminating, Handles
<1>2. ~FreePages /\ ~Ended
  BY <1>1 DEF FreePages, Ended
<1>3. ASSUME NEW p \in Users PROVE ~BeginLoad(p)
  BY <1>1 DEF BeginLoad, IsNext
<1>4. ASSUME NEW p \in Procs
      PROVE  ~Fetch(p) /\ ~Direct(p) /\ \A v : ~Use(p, v)
  BY <1>1 DEF Fetch, Direct, Use, GoesOn, Running
<1> QED
  BY <1>2, <1>3, <1>4, FreedThenTerminated DEF SystemNext, KernelMoves

\* The handler's load is for the process it unblocks.
LEMMA HandlersCall ==
    ASSUME TypeOK, LoadsInv, Freed, NEW p \in ToLoad, access.status \notin {"none", "fatal"}
    PROVE  /\ access.pid = p /\ access.kind = "load" /\ access.status # "illegal"
           /\ access.status = "pending" => access.page \in ProgramCode(p)
<1>1. pc = "cycleEnd"
  BY DEF Freed, Terminating, Handles
<1>2. access.pid \in ToLoad /\ access.kind = "load"
  BY <1>1 DEF LoadsInv, CallsInv, Caller
<1>3. access.pid = p
  BY <1>2, OneHighest, ProcsFacts DEF ToLoad
<1> QED
  BY <1>2, <1>3 DEF LoadsInv, CallsInv

\* What unblockProcesses does with a process it has room for.
LEMMA UnblockStep ==
    ASSUME TypeOK, Memory!PagingTypeOK, LoadsInv, RoomInv, Freed,
           [SystemNext]_systemVars, NEW p \in ToLoad, HasRoom(p), access.status # "fatal"
    PROVE  IF pc' = "cycleEnd" THEN HasRoom(p)' ELSE pc' = "dispatch"
<1>0. p \in Users /\ pc = "cycleEnd"
  BY DEF ToLoad, Freed, Terminating, Handles
<1>1. CASE MemoryStep
  <2>1. access.status = "pending" /\ pc' = "cycleEnd"
    BY <1>0, <1>1, CallEffect DEF vars
  <2>2. access.pid = p /\ access.kind = "load" /\ access.page \in ProgramCode(p)
    BY <2>1, HandlersCall
  <2>3. Memory!Mapped(access.page)
    BY <2>1, <2>2 DEF RoomInv
  <2> QED
    BY <1>0, <1>1, <2>1, <2>2, <2>3, CallKeepsRoom
<1>2. ASSUME NEW q \in Users, LoadUnblocked(q)
      PROVE  IF pc' = "cycleEnd" THEN HasRoom(p)' ELSE pc' = "dispatch"
  <2>1. Memory!StartLoad(q) /\ pc' = "cycleEnd"
    BY <1>0, <1>2 DEF LoadUnblocked, vars
  <2>2. \A v : Memory!Resident(v)' <=> Memory!Resident(v)
    BY <2>1 DEF Memory!StartLoad, Memory!MappedByLoader, Memory!PageEntry, Memory!Resident,
                Memory!Mapped
  <2> QED
    BY <2>1, <2>2, RoomKept DEF Memory!StartLoad
<1>3. CASE Terminated
  <2>1. access.status \notin {"blocked", "illegal"}
    BY HandlersCall DEF RoomInv
  <2> QED
    BY <1>3, <2>1 DEF Terminated, Answered, Dead
<1>4. CASE UNCHANGED systemVars
  <2>1. UNCHANGED <<pc, pageTable, freePages>>
    BY <1>4 DEF systemVars, vars, memoryVars
  <2> QED
    BY <1>0, <2>1, RoomKept DEF Memory!Resident, Memory!Mapped
<1> QED
  BY <1>1, <1>2, <1>3, <1>4, HandlerSteps

\* Every step of the system keeps the room.
LEMMA RoomStep ==
    ASSUME TypeOK, Memory!PagingTypeOK, LifeInv, PageInv, LoadsInv, RoomInv,
           SeparatePrograms, LoaderCovers, [SystemNext]_systemVars
    PROVE  RoomInv'
<1>1. CASE MemoryStep
  <2>1. /\ access.status = "pending" /\ access'.pid = access.pid /\ access'.kind = access.kind
        /\ DOMAIN pageTable \subseteq DOMAIN pageTable'
    BY <1>1, CallEffect
  <2>2. (ProgramCode(access.pid))' = ProgramCode(access.pid)
    BY <2>1 DEF ProgramCode
  <2>3. ASSUME Freed', access'.status = "blocked" PROVE ~HasRoom(access.pid)'
    <3>1. Memory!Block
      <4>1. access' # [access EXCEPT !.page = @ + 1]
        <5>1. access \in Memory!Accesses
          BY DEF Memory!PagingTypeOK
        <5> QED
          BY <2>1, <2>3, <5>1 DEF Memory!Accesses
      <4> QED
        BY <1>1, <2>1, <2>3, <4>1, AnswerEffect
    <3>2. PICK p : p = access.pid
      OBVIOUS
    <3>3. p \in Users /\ access.page \in ProgramCode(p)
      <4>1. pc = "cycleEnd"
        BY <1>1, <2>3, CallEffect, KernelStands DEF Freed, Terminating, Handles
      <4>2. access.kind = "load"
        BY <1>1, <4>1, PendingCalls DEF LoadsInv, Caller
      <4> QED
        BY <1>1, <3>2, <4>2, PendingCalls DEF LoadsInv
    <3>4. freePages = {} /\ ~Memory!Resident(access.page)
      BY <3>1 DEF Memory!Block, Memory!OutOfFrames, Memory!NeedsFrame, Memory!Resident,
                  Memory!Mapped
    <3>5. ~HasRoom(p)
      BY <3>3, <3>4, NoRoom
    <3>6. HasRoom(p)' <=> HasRoom(p)
      BY <3>1, RoomKept DEF Memory!Block, Memory!Resident, Memory!Mapped
    <3>7. access'.pid = p
      BY <2>1, <3>2
    <3> QED
      BY <3>5, <3>6, <3>7 DEF HasRoom, StillToLoad, ProgramCode
  <2> QED
    BY <2>1, <2>2, <2>3 DEF RoomInv, Memory!Mapped
<1>2. ASSUME NEW p \in Users, BeginLoad(p) \/ LoadUnblocked(p) PROVE RoomInv'
  <2>1. Memory!StartLoad(p)
    BY <1>2 DEF BeginLoad, LoadUnblocked
  <2>2. /\ DOMAIN pageTable' = DOMAIN pageTable \cup Memory!LoaderPages(p)
        /\ access'.status = "pending" /\ access'.pid = p
    BY <2>1, LoaderEffect
  <2>3. (ProgramCode(access.pid))' = ProgramCode(p)
    BY <2>2 DEF ProgramCode
  <2> QED
    BY <2>2, <2>3 DEF RoomInv, LoaderCovers, Memory!Mapped
<1>3. ASSUME NEW p \in Procs, Asks(p) PROVE RoomInv'
  BY <1>3, RequestEffect DEF RoomInv
<1>4. ASSUME NEW p \in Procs, Direct(p) PROVE RoomInv'
  <2>1. access' = access /\ access.status = "granted"
    BY <1>4, DirectEffect
  <2> QED
    BY <2>1 DEF RoomInv
<1>5. CASE FreePages
  <2>1. pc = "cycleEnd" /\ ~Freed /\ access' = access
    BY <1>5, FreesEffect DEF Freed, Terminating, Handles
  <2>2. access.status = "none"
    BY <2>1 DEF LoadsInv, CallsInv, Caller
  <2> QED
    BY <2>1, <2>2 DEF RoomInv
<1>6. CASE KernelMoves
  BY <1>6, MemoryRests, MoveKeeps DEF RoomInv
<1>7. CASE Ended \/ UNCHANGED systemVars
  <2>1. UNCHANGED <<vars, pageTable, freePages, access, stage>>
    BY <1>7 DEF Ended, systemVars, memoryVars
  <2> QED
    BY <2>1, KernelStands DEF RoomInv, Freed, HasRoom, StillToLoad, ProgramCode,
                              Memory!Resident, Memory!Mapped
<1> QED
  BY <1>1, <1>2, <1>3, <1>4, <1>5, <1>6, <1>7 DEF SystemNext, KernelMoves, Asks

\* unblockProcesses, whose exceptions nobody catches, throws only for want of
\* frames: where as many are free as the process has pages of code not in
\* memory, its load goes through, for every number of programs, pages and frames.
THEOREM UnblockIsSafe ==
    ASSUME SeparatePrograms, LoaderCovers
    PROVE  SystemSpec => UnblockNeverThrows
<1>1. SystemInit => RoomInv
  BY DEF SystemInit, Memory!Init, Memory!NoCall, RoomInv
<1>2. SystemInv => LifeInv /\ PageInv /\ LoadsInv
  BY DEF SystemInv, LoadsInv
<1>3. TypeOK /\ Memory!PagingTypeOK /\ SystemInv /\ RoomInv /\ [SystemNext]_systemVars => RoomInv'
  BY <1>2, RoomStep
<1>4. TypeOK /\ Memory!PagingTypeOK /\ SystemInv /\ RoomInv /\ [SystemNext]_systemVars
         => [\A p \in ToLoad :
               Terminating /\ stage[Current] = "gone" /\ HasRoom(p) /\ access.status # "fatal" =>
                  IF pc' = "cycleEnd" THEN HasRoom(p)' ELSE pc' = "dispatch"]_systemVars
  BY <1>2, UnblockStep DEF Freed
<1> QED
  BY <1>1, <1>3, <1>4, SystemAlways, SystemTypeCorrect, SystemMemoryIsSafe, PTL
     DEF SystemSpec, UnblockNeverThrows

-----------------------------------------------------------------------------
(***************************************************************************)
(* Programs of one page of code: the process that has ended leaves them    *)
(* the frame they need.                                                    *)
(***************************************************************************)
OnePageInv ==
    /\ Freed /\ access.status # "fatal" => \A p \in ToLoad : HasRoom(p)
    /\ pc = "crashed" => access.status = "fatal"

LEMMA OnePageCovered ==
    ASSUME SeparatePrograms, CodePages = 1
    PROVE  LoaderCovers
<1>1. ASSUME NEW p \in Users PROVE ProgramCode(p) \subseteq Memory!LoaderPages(p)
  <2>1. /\ p \in Nat /\ 1 <= p /\ ProgramPages \in Nat /\ 3 <= ProgramPages
        /\ 0 \in 0..(PageCount - 1)
    BY NAssumption, SystemAssumption DEF Users, SeparatePrograms
  <2>2. Memory!StartPage(p) \in Nat \ {1, 2}
    <3>1. CASE p = 1
      BY <2>1, <3>1 DEF Memory!StartPage
    <3>2. CASE 1 <= p - 1
      <4>1. 1 * ProgramPages <= (p - 1) * ProgramPages
        BY <2>1, <3>2
      <4> QED
        BY <2>1, <4>1 DEF Memory!StartPage
    <3> QED
      BY <2>1, <3>1, <3>2
  <2>3. ProgramCode(p) = {Memory!StartPage(p) + 0}
    BY DEF ProgramCode, Memory!StartPage
  <2>4. Memory!Exchanged(Memory!StartPage(p) + 0) = Memory!StartPage(p) + 0
    BY <2>2 DEF Memory!Exchanged
  <2> QED
    BY <2>1, <2>3, <2>4 DEF Memory!LoaderPages
<1> QED
  BY <1>1 DEF LoaderCovers

\* The end of a process frees a frame.
LEMMA OneFrame ==
    ASSUME TypeOK, Memory!PagingTypeOK', LoadsInv, FreePages, CodePages = 1, NEW p \in Users
    PROVE  HasRoom(p)'
<1>1. PICK c \in Procs : c = Current
  BY CurrentType
<1>2. InRun /\ ~Freed
  BY FreesEffect DEF Freed, Terminating, Handles, InRun
<1>3. \E v \in DOMAIN pageTable : pageTable[v].pid = c
  BY <1>1, <1>2 DEF LoadsInv, LoadedInv, CodeInv, Memory!Owns, Memory!Mapped
<1>4. freePages' # {}
  BY <1>1, <1>3, FreesEffect
<1>5. IsFiniteSet(freePages')
  <2>1. freePages' \subseteq 0..Memory!IdleFrame /\ Memory!IdleFrame \in Int
    BY SystemAssumption DEF Memory!PagingTypeOK, Memory!Frames, Memory!IdleFrame
  <2> QED
    BY <2>1, BoundedIsFinite
<1>6. Cardinality(freePages') \in Nat \ {0}
  BY <1>4, <1>5, FS_EmptySet, FS_CardinalityType
<1>7. StillToLoad(p)' \subseteq {Memory!StartPage(p) + 0}
  BY DEF StillToLoad, ProgramCode, Memory!StartPage
<1>8. /\ IsFiniteSet({Memory!StartPage(p) + 0}) /\ Cardinality({Memory!StartPage(p) + 0}) = 1
  BY FS_Singleton
<1>9. IsFiniteSet(StillToLoad(p)') /\ Cardinality(StillToLoad(p)') <= 1
  BY <1>7, <1>8, FS_Subset
<1>10. Cardinality(StillToLoad(p)') \in Nat
  BY <1>9, FS_CardinalityType
<1> QED
  BY <1>6, <1>9, <1>10 DEF HasRoom

\* How the program ends otherwise than by returning from start().
LEMMA CrashSteps ==
    ASSUME TypeOK, LoadsInv, [SystemNext]_systemVars, pc # "crashed", pc' = "crashed"
    PROVE  \/ access'.status = "fatal"
           \/ Freed /\ Terminated /\ access.status # "fatal" /\ ToLoad # {}
<1>1. CASE KernelAlone
  BY <1>1 DEF KernelAlone, LoadProcess, DispatchLoaded, DispatchUser, Halt,
              DropTerminated, Dispatches, DispatchIdle, DispatchNobody, RunsIdle, EntersRun,
              NoRunningProcess, FinishExit, Callback, WakeUp, NextCycleOfRun,
              HandlePreemption, HandleSleep, HandleExpired, HandleBlocked, HandleWaiting
<1>2. CASE Terminated
  <2>1. Freed /\ pc = "cycleEnd"
    BY <1>2 DEF Terminated, Freed, Terminating, Handles
  <2>2. CASE Dead
    BY <2>2 DEF Dead, memoryVars
  <2>3. CASE access.status \in {"blocked", "illegal"}
    BY <1>2, <2>1, <2>3 DEF LoadsInv, CallsInv, Caller
  <2> QED
    BY <1>2, <2>2, <2>3 DEF Terminated, Answered
<1>3. ASSUME NEW p \in Users, EndLoad(p) PROVE access'.status = "fatal"
  BY <1>3 DEF EndLoad, Dead, DispatchUser, Dispatches, EntersRun, LoadBlocks, memoryVars
<1>4. ASSUME NEW p \in Procs, Execute(p) PROVE access'.status = "fatal"
  BY <1>4 DEF Execute, Dead, memoryVars, Step, Exit, Sleep, SetPriority, Fault, MemoryBlock,
              Completes, Returns
<1>5. pc' = pc \/ KernelMoves
  BY DEF SystemNext, KernelMoves, MemoryStep, BeginLoad, LoadUnblocked, Fetch, Direct, Use,
         FreePages, Ended, vars, systemVars
<1> QED
  BY <1>1, <1>2, <1>3, <1>4, <1>5 DEF KernelMoves

\* A call that has ended the program stays, and nothing else happens to it.
LEMMA FatalStays ==
    ASSUME TypeOK, Memory!PagingTypeOK, LoadsInv, [SystemNext]_systemVars,
           access.status = "fatal"
    PROVE  access'.status = "fatal"
<1>1. CASE KernelMoves
  BY <1>1 DEF KernelMoves, KernelAlone, Terminated, EndLoad, Execute, Quiet, NoCall, Answered,
              Dead, memoryVars
<1>2. ~MemoryStep
  BY CallEffect
<1>3. ASSUME NEW p \in Users PROVE ~BeginLoad(p) /\ ~LoadUnblocked(p)
  BY DEF BeginLoad, LoadUnblocked, NoCall
<1>4. ASSUME NEW p \in Procs PROVE ~Fetch(p) /\ ~Direct(p) /\ \A v : ~Use(p, v)
  BY DEF Fetch, Direct, Use, GoesOn, NoCall
<1>5. CASE FreePages \/ Ended \/ UNCHANGED systemVars
  BY <1>5, FreesEffect DEF Ended, systemVars, memoryVars
<1> QED
  BY <1>1, <1>2, <1>3, <1>4, <1>5 DEF SystemNext, KernelMoves

LEMMA OnePageStep ==
    ASSUME TypeOK, Memory!PagingTypeOK, Memory!PagingTypeOK', LifeInv, PageInv, LoadsInv,
           RoomInv, OnePageInv, CodePages = 1, [SystemNext]_systemVars
    PROVE  OnePageInv'
<1>1. ASSUME Freed, access.status # "fatal", Freed', NEW p \in ToLoad' PROVE HasRoom(p)'
  <2>1. p \in ToLoad
    <3>1. ~Terminated
      BY <1>1, MoveKeeps DEF KernelMoves
    <3>2. UNCHANGED vars
      BY <1>1, <3>1, HandlerSteps, CallEffect DEF LoadUnblocked, systemVars
    <3> QED
      BY <1>1, <3>2, KernelStands
  <2>2. pc' = "cycleEnd"
    BY <1>1 DEF Freed, Terminating, Handles
  <2> QED
    BY <1>1, <2>1, <2>2, UnblockStep DEF OnePageInv
<1>2. ASSUME ~Freed, Freed', NEW p \in ToLoad' PROVE HasRoom(p)'
  <2>1. FreePages
    <3>1. ~KernelMoves
      BY <1>2, MoveKeeps
    <3>2. ASSUME UNCHANGED <<vars, stage>> PROVE FALSE
      BY <1>2, <3>2, KernelStands DEF Freed
    <3>3. ~MemoryStep
      <4>1. ASSUME MemoryStep PROVE FALSE
        <5>1. UNCHANGED vars /\ stage' # stage
          BY <3>2, <4>1, CallEffect
        <5>2. PICK to \in {"refused", "loaded"} : stage' = [stage EXCEPT ![access.pid] = to]
          BY <4>1, <5>1, CallStages
        <5> QED
          BY <1>2, <5>1, <5>2, KernelStands, CurrentType DEF Freed, PageInv
      <4> QED
        BY <4>1
    <3>4. ASSUME NEW q \in Users PROVE ~BeginLoad(q) /\ ~LoadUnblocked(q)
      BY <3>2, LoaderEffect DEF BeginLoad, LoadUnblocked
    <3>5. ASSUME NEW q \in Procs PROVE ~Asks(q) /\ ~Direct(q)
      BY <3>2, RequestEffect, DirectEffect
    <3>6. ~Ended /\ ~UNCHANGED systemVars
      BY <3>2 DEF Ended, systemVars, memoryVars
    <3> QED
      BY <3>1, <3>3, <3>4, <3>5, <3>6 DEF SystemNext, KernelMoves, Asks
  <2>2. p \in Users
    BY DEF ToLoad
  <2> QED
    BY <2>1, <2>2, OneFrame
<1>3. ASSUME pc' = "crashed" PROVE access'.status = "fatal"
  <2>1. CASE pc = "crashed" \/ access.status = "fatal"
    BY <2>1, FatalStays DEF OnePageInv
  <2>2. CASE pc # "crashed" /\ access.status # "fatal"
    <3>1. ASSUME Freed, NEW p \in ToLoad PROVE FALSE
      <4>1. HasRoom(p)
        BY <2>2, <3>1 DEF OnePageInv
      <4> QED
        BY <1>3, <2>2, <3>1, <4>1, UnblockStep
    <3> QED
      BY <1>3, <2>2, <3>1, CrashSteps
  <2> QED
    BY <2>1, <2>2
<1> QED
  BY <1>1, <1>2, <1>3, FatalStays DEF OnePageInv

\* Programs of one page of code: unblockProcesses always finds the frame its load
\* needs, so nothing but the exit(1) of getaddress ends the program early.
THEOREM OnePageAlwaysLoads ==
    ASSUME SeparatePrograms, CodePages = 1
    PROVE  SystemSpec => [](pc = "crashed" => access.status = "fatal")
<1>0. LoaderCovers
  BY OnePageCovered
<1>1. SystemInit => RoomInv /\ OnePageInv
  BY DEF SystemInit, Init, Memory!Init, Memory!NoCall, RoomInv, OnePageInv, Freed, Terminating,
         Handles
<1>2. SystemInv => LifeInv /\ PageInv /\ LoadsInv
  BY DEF SystemInv, LoadsInv
<1>3. TypeOK /\ Memory!PagingTypeOK /\ Memory!PagingTypeOK' /\ SystemInv /\ RoomInv /\ OnePageInv
         /\ [SystemNext]_systemVars => RoomInv' /\ OnePageInv'
  BY <1>0, <1>2, RoomStep, OnePageStep
<1>4. OnePageInv => (pc = "crashed" => access.status = "fatal")
  BY DEF OnePageInv
<1> QED
  BY <1>1, <1>3, <1>4, SystemAlways, SystemTypeCorrect, SystemMemoryIsSafe, PTL DEF SystemSpec

=============================================================================
