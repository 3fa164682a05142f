-------------------------- MODULE PagingProperties --------------------------
(***************************************************************************)
(* What the virtual memory guarantees, and what the repository says of it  *)
(* and it does not do.  PagingProofs proves the guarantees for every       *)
(* number of programs, frames and pages.                                   *)
(***************************************************************************)
EXTENDS Paging

\* Every page a process can come to use.
Pages ==
    {IdlePage} \cup Touched \cup {SharedPage(r) : r \in Regions}
    \cup UNION {LoaderPages(p) \cup {StartPage(p) + i : i \in 0..(CodePages - 1)} : p \in Programs}

Entries == [physicalPage : Frames, isValid : BOOLEAN, isDirty : BOOLEAN, pid : Pids]

Accesses ==
    [status : Statuses, pid : Pids, page : Pages \cup {0}, kind : Kinds, value : Values]

\* The type invariant of the memory.
PagingTypeOK ==
    /\ DOMAIN pageTable \subseteq Pages
    /\ \A v \in DOMAIN pageTable : pageTable[v] \in Entries
    /\ freePages \subseteq Frames
    /\ \A v \in DOMAIN swapSpace : swapSpace[v] \in Values
    /\ mem \in [Frames -> Values]
    /\ usedBefore \subseteq Pages \X Pages
    /\ access \in Accesses
    /\ stage \in [Pids -> {"new", "loaded", "refused", "gone"}]

Resident(v) == Mapped(v) /\ pageTable[v].isValid

Frame(v) == pageTable[v].physicalPage

NobodyGone == \A p \in Pids : stage[p] # "gone"

(***************************************************************************)
(* Until the first process terminates, no frame backs two pages and none   *)
(* that backs a page is in freePages, whatever page faults, evictions and  *)
(* mappings have done: allocatePage, swapOutPage and mapPage agree on who  *)
(* has which frame although no code checks it.                             *)
(***************************************************************************)
FramesUsedOnce ==
    NobodyGone =>
        \A v \in DOMAIN pageTable : Resident(v) =>
            /\ Frame(v) \notin freePages
            /\ \A w \in DOMAIN pageTable \ {v} : Resident(w) => Frame(w) # Frame(v)

(***************************************************************************)
(* When getaddress needs a victim and a page can be one, findLRUPage finds *)
(* exactly one: the times of the pages in memory stay distinct and none is *)
(* left over from before an eviction, a mapping or a termination.          *)
(***************************************************************************)
OneVictim ==
    OutOfFrames /\ (\E v \in DOMAIN pageTable : Evictable(v)) =>
        \E v \in DOMAIN pageTable : \A w \in DOMAIN pageTable : LRUPage(w) <=> w = v

(***************************************************************************)
(* Nothing evicts, remaps or frees the idle process's page, so its fetches *)
(* never reach the exit(1) of getaddress.                                  *)
(***************************************************************************)
IdleResident ==
    stage[Idle] # "gone" =>
        /\ Resident(IdlePage)
        /\ pageTable[IdlePage].pid = Idle
        /\ Frame(IdlePage) = IdleFrame
        /\ IdleFrame \notin freePages
        /\ access.pid = Idle => access.status \notin {"fatal", "illegal", "blocked"}

(***************************************************************************)
(* A physical page is lost only where a page that nobody has mapped is     *)
(* touched (both branches of getaddress allocate) and where MapSharedMem   *)
(* overwrites an entry: eviction, page fault and termination keep every    *)
(* frame either free or behind a page.                                     *)
(***************************************************************************)
Accounted == freePages \cup {Frame(v) : v \in {w \in DOMAIN pageTable : Resident(w)}}

FramesAreKept ==
    [][\/ Accounted \subseteq Accounted'
       \/ Pending /\ ~Mapped(access.page)
       \/ \E p \in Programs, r \in Regions : MapSharedMem(p, r)]_pagingVars

(***************************************************************************)
(* The memory implements PageStore until the first process terminates: a   *)
(* page in memory changes only by its owner's own stores, and no page is   *)
(* taken from its owner but one of a shared region, whatever other         *)
(* processes, loaders, evictions and mappings do.  It takes programs whose *)
(* stores end within their page (StoreKinds without "spill"), whose        *)
(* instructions fit into one page (the loader writes an instruction that   *)
(* crosses a page end into the next frame), and whose stores without       *)
(* translation miss the frames of programs: each of the three breaks it.   *)
(***************************************************************************)
Nobody  == 0
Unknown == -1

Store == INSTANCE PageStore WITH
    Pages     <- Pages,
    Processes <- Pids,
    Values    <- Values,
    Nobody    <- Nobody,
    Unknown   <- Unknown,
    Shared    <- {SharedPage(r) : r \in Regions},
    store     <- [v \in Pages |-> IF NobodyGone /\ Resident(v) THEN mem[Frame(v)] ELSE Unknown],
    holder    <- [v \in Pages |-> IF NobodyGone /\ Mapped(v) THEN pageTable[v].pid ELSE Nobody],
    actor     <- access.pid

StoreSpec == Store!Spec

-----------------------------------------------------------------------------
(***************************************************************************)
(* swapOutPage: "If the page is dirty, writes it to swap space."           *)
(* (src/memory.cpp:457)  What a page holds when it is evicted is what it   *)
(* is given back: its copy on disk or, without one, zeroes.                *)
(***************************************************************************)
OnDisk(v) == IF v \in DOMAIN swapSpace THEN swapSpace[v] ELSE 0

EvictionKeepsData ==
    [][\A v \in DOMAIN pageTable : Evict(v) => OnDisk(v)' = mem[Frame(v)]]_pagingVars

=============================================================================
