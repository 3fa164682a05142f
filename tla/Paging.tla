-------------------------------- MODULE Paging --------------------------------
(***************************************************************************)
(* The virtual memory (memory.cpp), the loader that fills it               *)
(* (Program::loadIntoMemory) and the instructions that use it.  An address *)
(* is its page number; a page, a physical page ("frame") and a swapped-out *)
(* copy hold one value each, the cell the properties look at.              *)
(*                                                                         *)
(* memory::getaddress is one call of one thread.  Here it is a request in  *)
(* `access` that goes through the steps of the call, each step one branch  *)
(* of the code, until it is answered; nothing else happens meanwhile.      *)
(***************************************************************************)
EXTENDS Integers

CONSTANTS
    Programs,      \* pids of the user programs, 1..n
    Idle,          \* pid of the idle process, 999
    PageCount,     \* memory::pages, the physical pages for programs
    ProgramPages,  \* pages of a program: code, data, heap and stack
    CodePages,     \* how many of them hold instructions
    Touched,       \* pages the programs' instructions lie on or name
    Regions,       \* shared regions they map
    StoreKinds,    \* their stores: "write" within a page, "spill" over its end
    RawFrames,     \* physical pages they store to without translation
    Ending,        \* processes that are terminated
    Values,        \* what a page may hold; 0 is what memory starts with
    Code           \* what a page of code holds

Pids == Programs \cup {Idle}

\* The constructor lays physical memory out: PageCount pages for programs, ten
\* shared regions of 1000 bytes, one page for the idle process.
UserFrames     == 0..(PageCount - 1)

\* Mutant of SharedFrame: the address is not divided by the page size.
AddressNotFrame(r) == 256 * PageCount + 1000 * r

SharedFrame(r) == PageCount + (1000 * r) \div 256
IdleFrame      == PageCount + 40
Frames         == 0..IdleFrame

\* 0xF000, and 0xFF00 + r * PAGE_SIZE.
IdlePage      == 240
SharedPage(r) == 255 + r

ASSUME PagingAssumption ==
    /\ Programs \subseteq 1..31 /\ Idle \in Nat \ (0..31)
    /\ PageCount \in Nat \ {0}
    /\ ProgramPages \in Nat \ {0}
    /\ CodePages \in 1..ProgramPages
    /\ Touched \subseteq Nat
    /\ Regions \subseteq 0..9
    /\ StoreKinds \subseteq {"write", "spill"}
    /\ RawFrames \subseteq Frames
    /\ Ending \subseteq Pids
    /\ Values \subseteq Nat /\ {0, Code} \subseteq Values

VARIABLES
    pageTable,   \* memory::paging_table: the PageEntry of each mapped page
    freePages,   \* memory::freePages
    swapSpace,   \* memory::swapSpace
    mem,         \* memory::mem, by frame
    usedBefore,  \* the order of lastUsedTime: <<u, v>> when u was used before v
    access,      \* the call of getaddress under way, or the answer of the last
    stage        \* "new", "loaded", "refused" if its load was illegal, or "gone"

pagingVars == <<pageTable, freePages, swapSpace, mem, usedBefore, access, stage>>

PageEntry(frame, valid, dirty, pid) ==
    [physicalPage |-> frame, isValid |-> valid, isDirty |-> dirty, pid |-> pid]

-----------------------------------------------------------------------------
Kinds    == {"load", "read"} \cup StoreKinds
Statuses == {"none", "pending", "granted", "blocked", "illegal", "fatal"}

Ask(p, v, kind, x) ==
    [status |-> "pending", pid |-> p, page |-> v, kind |-> kind, value |-> x]

\* The answer to the call: an address, one of the two exceptions, or exit(1).
Answer(result) ==
    [status |-> result, pid |-> access.pid, page |-> 0, kind |-> access.kind, value |-> 0]

Pending == access.status = "pending"

NoCall == [status |-> "none", pid |-> Idle, page |-> 0, kind |-> "read", value |-> 0]

\* No call is under way and the program has not ended: start() halts when only
\* the idle process is left.
Ready ==
    /\ access.status \notin {"pending", "fatal"}
    /\ \E p \in Programs : stage[p] # "gone"

Init ==
    /\ pageTable  = [v \in {IdlePage} |-> PageEntry(IdleFrame, TRUE, FALSE, Idle)]
    /\ freePages  = UserFrames
    /\ swapSpace  = [v \in {} |-> 0]
    /\ mem        = [f \in Frames |-> 0]
    /\ usedBefore = {}
    /\ access     = NoCall
    /\ stage      = [p \in Pids |-> IF p = Idle THEN "loaded" ELSE "new"]

-----------------------------------------------------------------------------
(***************************************************************************)
(* Calls.                                                                  *)
(***************************************************************************)

\* start() runs a process whose load was refused as if it were loaded, and
\* loads it again when it dispatches it again.
MayRun(p)  == stage[p] \in {"loaded", "refused"}
MayLoad(p) == stage[p] \in {"new", "refused"}

\* getaddress(v, p) for process p: a fetch or a get8 ("read"), a store
\* ("write"), or a store whose last bytes lie beyond the page ("spill").
Request(p, v, kind, x) ==
    /\ Ready
    /\ MayRun(p)
    /\ access' = Ask(p, v, kind, x)
    /\ UNCHANGED <<pageTable, freePages, swapSpace, mem, usedBefore, stage>>

StartPage(p) == (p - 1) * ProgramPages

\* The loader exchanges addresses 256 and 512.
Exchanged(v) == IF v = 1 THEN 2 ELSE IF v = 2 THEN 1 ELSE v

LoaderPages(p) == {Exchanged(StartPage(p) + i) : i \in 0..(PageCount - 1)}

\* Mutant of MappedByLoader: the loader does not look whether a page is mapped.
TakenByLoader(p) ==
    [v \in DOMAIN pageTable \cup LoaderPages(p) |->
        IF v \in LoaderPages(p) THEN PageEntry(Exchanged(v) - StartPage(p), FALSE, FALSE, p)
        ELSE pageTable[v]]

\* The loader's first loop: a page that is not mapped gets the physical page of
\* its index, without taking it from freePages.
MappedByLoader(p) ==
    [v \in DOMAIN pageTable \cup LoaderPages(p) |->
        IF v \in DOMAIN pageTable THEN pageTable[v]
        ELSE PageEntry(Exchanged(v) - StartPage(p), FALSE, FALSE, p)]

\* Its second loop asks for one page of code after the other.
StartLoad(p) ==
    /\ Ready
    /\ MayLoad(p)
    /\ pageTable' = MappedByLoader(p)
    /\ access' = Ask(p, StartPage(p), "load", Code)
    /\ UNCHANGED <<freePages, swapSpace, mem, usedBefore, stage>>

-----------------------------------------------------------------------------
(***************************************************************************)
(* The steps of getaddress.                                                *)
(***************************************************************************)
Mapped(v) == v \in DOMAIN pageTable

Owns(p, v) == Mapped(v) /\ pageTable[v].pid = p

\* Both branches that call allocatePage: the page is not mapped, or not valid.
NeedsFrame ==
    /\ Pending
    /\ \/ ~Mapped(access.page)
       \/ Owns(access.pid, access.page) /\ ~pageTable[access.page].isValid

\* "Illegal memory access by process".
Illegal ==
    /\ Pending
    /\ Mapped(access.page) /\ ~Owns(access.pid, access.page)
    /\ access' = Answer("illegal")
    /\ stage' = IF access.kind = "load" THEN [stage EXCEPT ![access.pid] = "refused"] ELSE stage
    /\ UNCHANGED <<pageTable, freePages, swapSpace, mem, usedBefore>>

\* Mutant of OutOfFrames: the operating system is asked before hasFreePage.
AsksTheOsFirst == NeedsFrame /\ access.pid # Idle

\* There is no free page: what follows depends on the operating system.
OutOfFrames == NeedsFrame /\ access.pid # Idle /\ freePages = {}

\* BLOCKED_PAGE_FAULT.
Block ==
    /\ OutOfFrames
    /\ access' = Answer("blocked")
    /\ UNCHANGED <<pageTable, freePages, swapSpace, mem, usedBefore, stage>>

\* Mutant of Evictable: the idle page is a candidate like any other.
AnyValid(v) == Mapped(v) /\ pageTable[v].isValid

Evictable(v) == Mapped(v) /\ pageTable[v].isValid /\ pageTable[v].pid # Idle

\* findLRUPage.
LRUPage(v) == Evictable(v) /\ \A u \in DOMAIN pageTable : <<u, v>> \notin usedBefore

\* exit(1): findLRUPage finds none, or the idle process's page is missing.
Fatal ==
    /\ \/ OutOfFrames /\ \A v \in DOMAIN pageTable : ~Evictable(v)
       \/ NeedsFrame /\ access.pid = Idle
    /\ access' = Answer("fatal")
    /\ UNCHANGED <<pageTable, freePages, swapSpace, mem, usedBefore, stage>>

\* Mutant of Forgotten: a page that comes back has its old time.
NotForgotten(v) == usedBefore

\* The order without page v.
Forgotten(v) == {pair \in usedBefore : v \notin {pair[1], pair[2]}}

\* Mutant of Released: the frame of the victim does not become free.
NotReleased(v) == freePages

Released(v) == freePages \cup {pageTable[v].physicalPage}

\* swapOutPage.
SwapOut(v) ==
    /\ swapSpace' =
          IF pageTable[v].isDirty
          THEN [u \in DOMAIN swapSpace \cup {v} |->
                   IF u = v THEN mem[pageTable[v].physicalPage] ELSE swapSpace[u]]
          ELSE swapSpace
    /\ freePages' = Released(v)
    /\ pageTable' = [pageTable EXCEPT ![v].isValid = FALSE]
    /\ usedBefore' = Forgotten(v)

Evict(v) ==
    /\ OutOfFrames
    /\ LRUPage(v)
    /\ SwapOut(v)
    /\ UNCHANGED <<mem, access, stage>>

\* Mutant of Remaining: allocatePage does not erase the page it returns.
NotErased(f) == freePages

\* allocatePage returns f, the begin() of an unordered set.
Remaining(f) == freePages \ {f}

Entered(v, entry) ==
    [u \in DOMAIN pageTable \cup {v} |-> IF u = v THEN entry ELSE pageTable[u]]

\* mapPage: the entry is not valid yet, and the next step takes another frame.
MapMissing(f) ==
    /\ NeedsFrame /\ access.pid # Idle
    /\ ~Mapped(access.page)
    /\ f \in freePages
    /\ freePages' = Remaining(f)
    /\ pageTable' = Entered(access.page, PageEntry(f, FALSE, FALSE, access.pid))
    /\ UNCHANGED <<swapSpace, mem, usedBefore, access, stage>>

\* The page fault proper.  A page without a copy keeps what the frame held.
SwapIn(f) ==
    /\ NeedsFrame /\ access.pid # Idle
    /\ Mapped(access.page)
    /\ f \in freePages
    /\ freePages' = Remaining(f)
    /\ pageTable' = Entered(access.page, PageEntry(f, TRUE, FALSE, access.pid))
    /\ mem' = IF access.page \in DOMAIN swapSpace
              THEN [mem EXCEPT ![f] = swapSpace[access.page]]
              ELSE mem
    /\ UNCHANGED <<swapSpace, usedBefore, access, stage>>

-----------------------------------------------------------------------------
(***************************************************************************)
(* set8, set16 and set32 take a physical address.  They mark as dirty the  *)
(* page whose virtual number is the number of the frame they write, and    *)
(* run on into the next frame.                                             *)
(***************************************************************************)
Stores(frames, x) ==
    /\ mem' = [f \in Frames |-> IF f \in frames THEN x ELSE mem[f]]
    /\ pageTable' = [v \in DOMAIN pageTable |->
                        IF v \in frames THEN [pageTable[v] EXCEPT !.isDirty = TRUE]
                        ELSE pageTable[v]]

\* A load goes on while there are pages of code left; the last instruction of
\* each page but the last crosses into the next.
LoadGoesOn == access.kind = "load" /\ access.page + 1 < StartPage(access.pid) + CodePages

WrittenFrames ==
    LET f == pageTable[access.page].physicalPage
    IN  IF access.kind = "read" THEN {}
        ELSE {f} \cup {g \in Frames : g = f + 1 /\ (access.kind = "spill" \/ LoadGoesOn)}

\* lastUsedTime = ++systemClock; times matter between candidates only.
UsedLast(v) ==
    IF Evictable(v)
    THEN Forgotten(v) \cup {<<u, v>> : u \in {w \in DOMAIN pageTable \ {v} : Evictable(w)}}
    ELSE usedBefore

\* The page is there: the address is returned and used.
Hit ==
    /\ Pending
    /\ Owns(access.pid, access.page) /\ pageTable[access.page].isValid
    /\ usedBefore' = UsedLast(access.page)
    /\ Stores(WrittenFrames, access.value)
    /\ access' = IF LoadGoesOn THEN [access EXCEPT !.page = @ + 1] ELSE Answer("granted")
    /\ stage' = IF access.kind = "load" /\ ~LoadGoesOn
                THEN [stage EXCEPT ![access.pid] = "loaded"] ELSE stage
    /\ UNCHANGED <<freePages, swapSpace>>

\* The caller takes the address or catches the exception.
Resume ==
    /\ access.status \in {"granted", "blocked", "illegal"}
    /\ access' = NoCall
    /\ UNCHANGED <<pageTable, freePages, swapSpace, mem, usedBefore, stage>>

GetAddress ==
    \/ Illegal \/ Block \/ Fatal \/ Hit
    \/ \E v \in DOMAIN pageTable : Evict(v)
    \/ \E f \in freePages : MapMissing(f) \/ SwapIn(f)

-----------------------------------------------------------------------------
(***************************************************************************)
(* What else changes the memory.                                           *)
(***************************************************************************)

\* MapSharedMem overwrites the entry of the region's page, whosever it was.
MapSharedMem(p, r) ==
    /\ Ready
    /\ MayRun(p)
    /\ pageTable' = Entered(SharedPage(r), PageEntry(SharedFrame(r), FALSE, FALSE, p))
    /\ usedBefore' = Forgotten(SharedPage(r))
    /\ UNCHANGED <<freePages, swapSpace, mem, access, stage>>

\* Pushr, Pushi and Callm store to the address in register 13, Popm and Movmm
\* to one they have read, as if these were physical.
RawStore(p, f, x) ==
    /\ Ready
    /\ MayRun(p)
    /\ Stores({f}, x)
    /\ UNCHANGED <<freePages, swapSpace, usedBefore, access, stage>>

\* Mutant of PagesOf: only the pages in memory are given back.
ValidPagesOf(p) == {v \in DOMAIN pageTable : pageTable[v].pid = p /\ pageTable[v].isValid}

PagesOf(p) == {v \in DOMAIN pageTable : pageTable[v].pid = p}

\* deallocateProcessPages, when p has terminated (the idle process too may be
\* terminated, by a flag another has left raised): the frame of every entry of
\* p becomes free, whether the entry is valid or not.
Deallocate(p) ==
    /\ Ready
    /\ stage[p] # "gone"
    /\ freePages' = freePages \cup {pageTable[v].physicalPage : v \in PagesOf(p)}
    /\ pageTable' = [v \in DOMAIN pageTable \ PagesOf(p) |-> pageTable[v]]
    /\ usedBefore' = {pair \in usedBefore : {pair[1], pair[2]} \cap PagesOf(p) = {}}
    /\ stage' = [stage EXCEPT ![p] = "gone"]
    /\ UNCHANGED <<swapSpace, mem, access>>

\* What a process may do with the memory while it runs.
Uses(p) ==
    \/ StartLoad(p)
    \/ \E v \in Touched : \/ Request(p, v, "read", 0)
                         \/ \E kind \in StoreKinds, x \in Values : Request(p, v, kind, x)
    \/ \E r \in Regions : MapSharedMem(p, r)
    \/ \E f \in RawFrames, x \in Values : RawStore(p, f, x)

\* exit(1) or the end of start() has ended the program.
Ended == ~Pending /\ ~Ready /\ UNCHANGED pagingVars

Next ==
    \/ \E p \in Programs : Uses(p)
    \/ Request(Idle, IdlePage, "read", 0)
    \/ \E p \in Ending : Deallocate(p)
    \/ GetAddress \/ Resume
    \/ Ended

Spec == Init /\ [][Next]_pagingVars

=============================================================================
