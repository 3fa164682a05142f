----------------------------- MODULE PagingProofs -----------------------------
(***************************************************************************)
(* For every number of programs, frames and pages: the type invariant of   *)
(* the memory, frames that back one page at most, the idle process's page  *)
(* that is never taken away, frames that are not lost, a single victim of  *)
(* each eviction, and the refinement of PageStore.                         *)
(***************************************************************************)
EXTENDS PagingProperties, FiniteSetTheorems, WellFoundedInduction, TLAPS

\* The layout of physical memory and of the pages.
LEMMA Layout ==
    /\ UserFrames \subseteq Frames /\ Frames \subseteq Nat
    /\ IdleFrame \in Frames \ UserFrames
    /\ IdlePage \in Pages /\ Touched \subseteq Pages
    /\ Idle \in Pids /\ Idle \notin Programs /\ Programs \subseteq Pids
    /\ 0 \in Values /\ Code \in Values /\ Values \subseteq Nat
    /\ RawFrames \subseteq Frames
    /\ PageCount \in Nat /\ ProgramPages \in Nat /\ CodePages \in Nat \ {0}
BY PagingAssumption DEF UserFrames, Frames, IdleFrame, Pages, Pids

LEMMA RegionLayout ==
    ASSUME NEW r \in Regions
    PROVE  /\ SharedFrame(r) \in Frames \ (UserFrames \cup {IdleFrame})
           /\ SharedPage(r) \in Pages \ {IdlePage}
<1>1. r \in 0..9
  BY PagingAssumption
<1>2. (1000 * r) \div 256 \in 0..39
  BY <1>1
<1>3. PageCount \in Nat \ {0}
  BY PagingAssumption
<1> QED
  BY <1>1, <1>2, <1>3
     DEF SharedFrame, SharedPage, Frames, IdleFrame, UserFrames, IdlePage, Pages

\* The loader's entries name frames of the programs.
LEMMA LoaderLayout ==
    ASSUME NEW p \in Programs
    PROVE  /\ StartPage(p) \in Nat
           /\ LoaderPages(p) \subseteq Pages
           /\ \A v \in LoaderPages(p) : Exchanged(v) - StartPage(p) \in UserFrames
           /\ \A v \in StartPage(p)..(StartPage(p) + CodePages - 1) : v \in Pages
<1>1. StartPage(p) \in Nat
  <2>1. p - 1 \in Nat /\ ProgramPages \in Nat
    BY PagingAssumption
  <2> QED
    BY <2>1 DEF StartPage
<1>2. \A v \in LoaderPages(p) : Exchanged(v) - StartPage(p) \in UserFrames
  <2>1. ASSUME NEW i \in 0..(PageCount - 1)
        PROVE  Exchanged(Exchanged(StartPage(p) + i)) - StartPage(p) = i
    BY <1>1, <2>1 DEF Exchanged
  <2> QED
    BY <2>1 DEF LoaderPages, UserFrames
<1>3. LoaderPages(p) \subseteq Pages
  BY DEF Pages
<1>4. ASSUME NEW v \in StartPage(p)..(StartPage(p) + CodePages - 1) PROVE v \in Pages
  <2>1. v - StartPage(p) \in 0..(CodePages - 1) /\ v = StartPage(p) + (v - StartPage(p))
    BY <1>1, Layout
  <2>2. v \in {StartPage(p) + i : i \in 0..(CodePages - 1)}
    BY <2>1
  <2> QED
    BY <2>2 DEF Pages
<1> QED
  BY <1>1, <1>2, <1>3, <1>4

-----------------------------------------------------------------------------
(***************************************************************************)
(* The answer to a call.                                                   *)
(***************************************************************************)
LEMMA Answers ==
    ASSUME access \in Accesses, NEW result \in Statuses
    PROVE  /\ Answer(result) \in Accesses
           /\ Answer(result).status = result
           /\ Answer(result).pid = access.pid
           /\ Answer(result).kind = access.kind
<1>1. access.pid \in Pids /\ access.kind \in Kinds
  BY DEF Accesses
<1> QED
  BY <1>1, Layout DEF Accesses, Answer

\* A call under way: the loader's is for a page of code of a new process, the
\* idle process's for its own page.
CallInv ==
    Pending =>
        /\ access.page \in Pages
        /\ access.kind = "load" =>
              /\ access.pid \in Programs
              /\ MayLoad(access.pid)
              /\ access.page \in StartPage(access.pid)..(StartPage(access.pid) + CodePages - 1)
        /\ access.pid = Idle => access.page = IdlePage /\ access.kind = "read"

\* What the type invariant says of the page table and of the rest.
TableOK == DOMAIN pageTable \subseteq Pages /\ \A v \in DOMAIN pageTable : pageTable[v] \in Entries

LEMMA EnteredOK ==
    ASSUME TableOK, NEW v \in Pages, NEW entry \in Entries, pageTable' = Entered(v, entry)
    PROVE  TableOK'
BY DEF TableOK, Entered

LEMMA EntryType ==
    ASSUME NEW f \in Frames, NEW valid \in BOOLEAN, NEW dirty \in BOOLEAN, NEW p \in Pids
    PROVE  PageEntry(f, valid, dirty, p) \in Entries
BY DEF PageEntry, Entries

LEMMA StoresType ==
    ASSUME TableOK, NEW frames, NEW x \in Values, mem \in [Frames -> Values], Stores(frames, x)
    PROVE  TableOK' /\ mem' \in [Frames -> Values]
<1>1. ASSUME NEW v \in DOMAIN pageTable PROVE [pageTable[v] EXCEPT !.isDirty = TRUE] \in Entries
  BY DEF TableOK, Entries
<1>2. TableOK'
  BY <1>1 DEF TableOK, Stores
<1>3. mem' \in [Frames -> Values]
  BY DEF Stores
<1> QED
  BY <1>2, <1>3

-----------------------------------------------------------------------------
(***************************************************************************)
(* The type invariant, with what calls under way need, step by step.       *)
(***************************************************************************)
TypeInv == PagingTypeOK /\ CallInv

LEMMA InitType == ASSUME Init PROVE TypeInv
<1>1. TableOK
  BY Layout, EntryType DEF Init, TableOK
<1>2. access \in Accesses
  BY Layout DEF Init, Accesses, Statuses, Kinds, NoCall
<1>3. ~Pending
  BY DEF Init, Pending, NoCall
<1>4. stage \in [Pids -> {"new", "loaded", "refused", "gone"}]
  BY DEF Init
<1> QED
  BY <1>1, <1>2, <1>3, <1>4, Layout DEF Init, TypeInv, PagingTypeOK, CallInv, TableOK

LEMMA RequestType ==
    ASSUME TypeInv, NEW p \in Pids, NEW v \in Pages, NEW kind \in Kinds \ {"load"},
           NEW x \in Values, Request(p, v, kind, x),
           p = Idle => v = IdlePage /\ kind = "read"
    PROVE  TypeInv'
<1>1. access' = [status |-> "pending", pid |-> p, page |-> v, kind |-> kind, value |-> x]
  BY DEF Request, Ask
<1>2. access' \in Accesses
  BY <1>1 DEF Accesses, Statuses
<1>3. CallInv'
  BY <1>1 DEF CallInv
<1> QED
  BY <1>2, <1>3 DEF Request, TypeInv, PagingTypeOK

LEMMA StartLoadType ==
    ASSUME TypeInv, NEW p \in Programs, StartLoad(p)
    PROVE  TypeInv'
<1>1. access' = [status |-> "pending", pid |-> p, page |-> StartPage(p), kind |-> "load",
                 value |-> Code]
  BY DEF StartLoad, Ask
<1>2. StartPage(p) \in StartPage(p)..(StartPage(p) + CodePages - 1)
  BY LoaderLayout, Layout
<1>3. access' \in Accesses
  BY <1>1, <1>2, LoaderLayout, Layout DEF Accesses, Statuses, Kinds
<1>4. CallInv'
  BY <1>1, <1>2, LoaderLayout, Layout DEF CallInv, MayLoad, StartLoad
<1>5. TableOK'
  <2>1. ASSUME NEW v \in LoaderPages(p)
        PROVE  PageEntry(Exchanged(v) - StartPage(p), FALSE, FALSE, p) \in Entries
    BY LoaderLayout, Layout, EntryType
  <2>2. pageTable' = MappedByLoader(p)
    BY DEF StartLoad
  <2>3. DOMAIN pageTable' \subseteq Pages
    BY <2>2, LoaderLayout DEF MappedByLoader, TypeInv, PagingTypeOK
  <2> QED
    BY <2>1, <2>2, <2>3 DEF TableOK, MappedByLoader, TypeInv, PagingTypeOK
<1> QED
  BY <1>3, <1>4, <1>5 DEF StartLoad, TypeInv, PagingTypeOK, TableOK

\* An answer ends the call and changes at most that a process is loaded.
LEMMA AnswerType ==
    ASSUME TypeInv, NEW result \in Statuses \ {"pending"}, access' = Answer(result),
           \/ stage' = stage
           \/ \E to \in {"loaded", "refused"} : stage' = [stage EXCEPT ![access.pid] = to]
    PROVE  /\ access' \in Accesses
           /\ CallInv'
           /\ stage' \in [Pids -> {"new", "loaded", "refused", "gone"}]
<1>1. access \in Accesses /\ stage \in [Pids -> {"new", "loaded", "refused", "gone"}]
  BY DEF TypeInv, PagingTypeOK
<1>2. access' \in Accesses /\ access'.status = result
  BY <1>1, Answers
<1>3. CallInv'
  BY <1>2 DEF CallInv, Pending
<1>4. stage' \in [Pids -> {"new", "loaded", "refused", "gone"}]
  BY <1>1
<1> QED
  BY <1>2, <1>3, <1>4

LEMMA FailType ==
    ASSUME TypeInv, Illegal \/ Block \/ Fatal
    PROVE  TypeInv'
<1>1. CASE Illegal
  BY <1>1, AnswerType DEF Illegal, Statuses, TypeInv, PagingTypeOK
<1>2. CASE Block
  BY <1>2, AnswerType DEF Block, Statuses, TypeInv, PagingTypeOK
<1>3. CASE Fatal
  BY <1>3, AnswerType DEF Fatal, Statuses, TypeInv, PagingTypeOK
<1> QED
  BY <1>1, <1>2, <1>3

LEMMA ResumeType ==
    ASSUME TypeInv, Resume
    PROVE  TypeInv'
<1>1. access' \in Accesses /\ ~Pending'
  BY Layout DEF Resume, NoCall, Accesses, Statuses, Kinds, Pending
<1> QED
  BY <1>1 DEF Resume, TypeInv, PagingTypeOK, CallInv

LEMMA EvictType ==
    ASSUME TypeInv, NEW v \in DOMAIN pageTable, Evict(v)
    PROVE  TypeInv'
<1>1. pageTable[v] \in Entries
  BY DEF TypeInv, PagingTypeOK
<1>2. pageTable[v].physicalPage \in Frames
  BY <1>1 DEF Entries
<1>3. [pageTable[v] EXCEPT !.isValid = FALSE] \in Entries
  BY <1>1 DEF Entries
<1>4. pageTable' = [pageTable EXCEPT ![v] = [pageTable[v] EXCEPT !.isValid = FALSE]]
  BY DEF Evict, SwapOut
<1>5. TableOK'
  BY <1>3, <1>4 DEF TableOK, TypeInv, PagingTypeOK
<1>6. \A u \in DOMAIN swapSpace' : swapSpace'[u] \in Values
  BY <1>2 DEF Evict, SwapOut, TypeInv, PagingTypeOK
<1>7. freePages' \subseteq Frames
  BY <1>2 DEF Evict, SwapOut, Released, TypeInv, PagingTypeOK
<1>8. CallInv'
  BY DEF Evict, TypeInv, CallInv, MayLoad, Pending
<1> QED
  BY <1>5, <1>6, <1>7, <1>8
     DEF Evict, SwapOut, Forgotten, TypeInv, PagingTypeOK, TableOK

LEMMA FaultType ==
    ASSUME TypeInv, NEW f \in freePages, MapMissing(f) \/ SwapIn(f)
    PROVE  TypeInv'
<1>1. f \in Frames /\ access.pid \in Pids /\ access.page \in Pages /\ TableOK
  BY DEF TypeInv, PagingTypeOK, CallInv, MapMissing, SwapIn, NeedsFrame, Accesses, TableOK
<1>2. PICK valid \in BOOLEAN :
         pageTable' = Entered(access.page, PageEntry(f, valid, FALSE, access.pid))
  BY DEF MapMissing, SwapIn
<1>3. TableOK'
  BY <1>1, <1>2, EntryType, EnteredOK
<1>4. mem' \in [Frames -> Values]
  BY DEF MapMissing, SwapIn, TypeInv, PagingTypeOK
<1>5. CallInv'
  BY DEF MapMissing, SwapIn, TypeInv, CallInv, MayLoad, Pending
<1> QED
  BY <1>3, <1>4, <1>5 DEF MapMissing, SwapIn, Remaining, TypeInv, PagingTypeOK, TableOK

LEMMA HitType ==
    ASSUME TypeInv, Hit
    PROVE  TypeInv'
<1>1. access \in Accesses /\ access.page \in Pages /\ TableOK /\ access.value \in Values
      /\ mem \in [Frames -> Values]
  BY DEF TypeInv, PagingTypeOK, CallInv, Hit, Accesses, TableOK
<1>2. TableOK' /\ mem' \in [Frames -> Values]
  BY <1>1, StoresType DEF Hit
<1>3. usedBefore' \subseteq Pages \X Pages
  BY <1>1 DEF Hit, UsedLast, Forgotten, TypeInv, PagingTypeOK
<1>4. /\ access' \in Accesses
      /\ CallInv'
      /\ stage' \in [Pids -> {"new", "loaded", "refused", "gone"}]
  <2>1. CASE LoadGoesOn
    <3>1. /\ access.pid \in Programs /\ MayLoad(access.pid)
          /\ access.page + 1 \in StartPage(access.pid)..(StartPage(access.pid) + CodePages - 1)
      <4>1. access.pid \in Programs /\ MayLoad(access.pid)
            /\ access.page \in StartPage(access.pid)..(StartPage(access.pid) + CodePages - 1)
        BY <2>1 DEF LoadGoesOn, Hit, TypeInv, CallInv
      <4>2. StartPage(access.pid) \in Nat /\ CodePages \in Nat
        BY <4>1, LoaderLayout, Layout
      <4> QED
        BY <2>1, <4>1, <4>2 DEF LoadGoesOn
    <3>2. access' = [access EXCEPT !.page = access.page + 1] /\ stage' = stage
      BY <2>1 DEF Hit
    <3>3. access.page + 1 \in Pages
      BY <3>1, LoaderLayout
    <3>4. access' \in Accesses /\ access'.page = access.page + 1 /\ access'.pid = access.pid
      BY <1>1, <3>2, <3>3 DEF Accesses
    <3>5. CallInv'
      BY <3>1, <3>2, <3>3, <3>4, Layout DEF CallInv, MayLoad
    <3> QED
      BY <3>2, <3>4, <3>5 DEF TypeInv, PagingTypeOK
  <2>2. CASE ~LoadGoesOn
    BY <2>2, AnswerType DEF Hit, Statuses
  <2> QED
    BY <2>1, <2>2
<1> QED
  BY <1>2, <1>3, <1>4 DEF Hit, TypeInv, PagingTypeOK, TableOK

LEMMA MapSharedType ==
    ASSUME TypeInv, NEW p \in Programs, NEW r \in Regions, MapSharedMem(p, r)
    PROVE  TypeInv'
<1>1. TableOK /\ PageEntry(SharedFrame(r), FALSE, FALSE, p) \in Entries
  BY Layout, RegionLayout, EntryType DEF TypeInv, PagingTypeOK, TableOK
<1>2. TableOK'
  BY <1>1, EnteredOK, RegionLayout DEF MapSharedMem
<1>3. CallInv'
  BY DEF MapSharedMem, TypeInv, CallInv, MayLoad, Pending
<1> QED
  BY <1>2, <1>3 DEF MapSharedMem, Forgotten, TypeInv, PagingTypeOK, TableOK

LEMMA RawStoreType ==
    ASSUME TypeInv, NEW p \in Programs, NEW f \in RawFrames, NEW x \in Values, RawStore(p, f, x)
    PROVE  TypeInv'
<1>1. TableOK /\ mem \in [Frames -> Values]
  BY DEF TypeInv, PagingTypeOK, TableOK
<1>2. TableOK' /\ mem' \in [Frames -> Values]
  BY <1>1, StoresType DEF RawStore
<1>3. CallInv'
  BY DEF RawStore, TypeInv, CallInv, MayLoad, Pending
<1> QED
  BY <1>2, <1>3 DEF RawStore, TypeInv, PagingTypeOK, TableOK

LEMMA DeallocateType ==
    ASSUME TypeInv, NEW p \in Pids, Deallocate(p)
    PROVE  TypeInv'
<1> DEFINE own == PagesOf(p)
<1>1. pageTable' = [v \in DOMAIN pageTable \ own |-> pageTable[v]]
  BY DEF Deallocate
<1>2. TableOK'
  BY <1>1 DEF TableOK, TypeInv, PagingTypeOK
<1>3. freePages' \subseteq Frames
  <2>1. \A v \in DOMAIN pageTable : pageTable[v].physicalPage \in Frames
    BY DEF TypeInv, PagingTypeOK, Entries
  <2> QED
    BY <2>1 DEF Deallocate, PagesOf, TypeInv, PagingTypeOK
<1>4. ~Pending /\ ~Pending'
  BY DEF Deallocate, Ready, Pending
<1>5. usedBefore' \subseteq Pages \X Pages
  BY DEF Deallocate, TypeInv, PagingTypeOK
<1>6. stage' \in [Pids -> {"new", "loaded", "refused", "gone"}]
  BY Layout DEF Deallocate, TypeInv, PagingTypeOK
<1> QED
  BY <1>2, <1>3, <1>4, <1>5, <1>6 DEF Deallocate, TypeInv, PagingTypeOK, TableOK, CallInv

\* The cases of a step.
LEMMA Steps ==
    ASSUME Next
    PROVE  \/ \E p \in Programs : StartLoad(p)
           \/ \E p \in Pids : Deallocate(p)
           \/ \E p \in Pids, v \in Pages, kind \in Kinds \ {"load"}, x \in Values :
                 /\ Request(p, v, kind, x)
                 /\ p = Idle => v = IdlePage /\ kind = "read"
           \/ \E p \in Programs, r \in Regions : MapSharedMem(p, r)
           \/ \E p \in Programs, f \in RawFrames, x \in Values : RawStore(p, f, x)
           \/ Illegal \/ Block \/ Fatal \/ Hit \/ Resume
           \/ \E v \in DOMAIN pageTable : Evict(v)
           \/ \E f \in freePages : MapMissing(f) \/ SwapIn(f)
           \/ UNCHANGED pagingVars
<1>1. ASSUME NEW p \in Programs, NEW v \in Touched, Request(p, v, "read", 0)
      PROVE  \E q \in Pids, u \in Pages, kind \in Kinds \ {"load"}, x \in Values :
                 Request(q, u, kind, x) /\ (q = Idle => u = IdlePage /\ kind = "read")
  <2>1. "read" \in Kinds \ {"load"} /\ p \in Pids /\ v \in Pages /\ 0 \in Values /\ p # Idle
    BY Layout DEF Kinds
  <2> QED
    BY <1>1, <2>1
<1>2. ASSUME NEW p \in Programs, NEW v \in Touched, NEW kind \in StoreKinds, NEW x \in Values,
             Request(p, v, kind, x)
      PROVE  \E q \in Pids, u \in Pages, k \in Kinds \ {"load"}, y \in Values :
                 Request(q, u, k, y) /\ (q = Idle => u = IdlePage /\ k = "read")
  <2>1. kind \in Kinds \ {"load"} /\ p \in Pids /\ v \in Pages /\ p # Idle
    BY Layout, PagingAssumption DEF Kinds
  <2> QED
    BY <1>2, <2>1
<1>3. ASSUME Request(Idle, IdlePage, "read", 0)
      PROVE  \E q \in Pids, u \in Pages, kind \in Kinds \ {"load"}, x \in Values :
                 Request(q, u, kind, x) /\ (q = Idle => u = IdlePage /\ kind = "read")
  <2>1. "read" \in Kinds \ {"load"} /\ Idle \in Pids /\ IdlePage \in Pages /\ 0 \in Values
    BY Layout DEF Kinds
  <2> QED
    BY <1>3, <2>1
<1> QED
  BY <1>1, <1>2, <1>3, PagingAssumption DEF Next, Uses, GetAddress, Ended

LEMMA TypeStep == TypeInv /\ [Next]_pagingVars => TypeInv'
<1>1. ASSUME TypeInv, UNCHANGED pagingVars PROVE TypeInv'
  BY <1>1 DEF pagingVars, TypeInv, PagingTypeOK, CallInv, MayLoad, Pending
<1> QED
  BY <1>1, Steps, RequestType, StartLoadType, DeallocateType, MapSharedType, RawStoreType,
     FailType, ResumeType, HitType, EvictType, FaultType

\* Every reachable state of the memory is well typed.
THEOREM PagingTypeCorrect == Spec => []PagingTypeOK
<1>1. Init => TypeInv
  BY InitType
<1> QED
  BY <1>1, TypeStep, PTL DEF Spec, TypeInv

-----------------------------------------------------------------------------
(***************************************************************************)
(* What a step leaves of the page table.                                   *)
(***************************************************************************)
SameEntry(v) ==
    /\ Mapped(v)' <=> Mapped(v)
    /\ Mapped(v) => /\ pageTable'[v].physicalPage = pageTable[v].physicalPage
                    /\ pageTable'[v].isValid = pageTable[v].isValid
                    /\ pageTable'[v].pid = pageTable[v].pid

LEMMA EnteredEffect ==
    ASSUME NEW v, NEW f, NEW valid, NEW dirty, NEW p,
           pageTable' = Entered(v, PageEntry(f, valid, dirty, p))
    PROVE  /\ Mapped(v)'
           /\ pageTable'[v].physicalPage = f
           /\ pageTable'[v].isValid = valid
           /\ pageTable'[v].pid = p
           /\ \A u : u # v => SameEntry(u)
<1>1. pageTable'[v] = PageEntry(f, valid, dirty, p)
  BY DEF Entered
<1>2. \A u : u # v => SameEntry(u)
  BY DEF Entered, Mapped, SameEntry
<1> QED
  BY <1>1, <1>2 DEF Entered, Mapped, PageEntry

LEMMA StoresEffect ==
    ASSUME TypeInv, NEW frames, NEW x, Stores(frames, x)
    PROVE  /\ \A v : SameEntry(v)
           /\ \A f \in Frames : f \notin frames => mem'[f] = mem[f]
           /\ \A f \in Frames : f \in frames => mem'[f] = x
<1>1. ASSUME NEW v \in DOMAIN pageTable
      PROVE  /\ [pageTable[v] EXCEPT !.isDirty = TRUE].physicalPage = pageTable[v].physicalPage
             /\ [pageTable[v] EXCEPT !.isDirty = TRUE].isValid = pageTable[v].isValid
             /\ [pageTable[v] EXCEPT !.isDirty = TRUE].pid = pageTable[v].pid
  BY DEF TypeInv, PagingTypeOK, Entries
<1>2. DOMAIN pageTable' = DOMAIN pageTable
  BY DEF Stores
<1>3. ASSUME NEW v \in DOMAIN pageTable
      PROVE  /\ pageTable'[v].physicalPage = pageTable[v].physicalPage
             /\ pageTable'[v].isValid = pageTable[v].isValid
             /\ pageTable'[v].pid = pageTable[v].pid
  BY <1>1 DEF Stores
<1>4. \A v : SameEntry(v)
  BY <1>2, <1>3 DEF SameEntry, Mapped
<1> QED
  BY <1>4 DEF Stores

LEMMA EvictEffect ==
    ASSUME TypeInv, NEW v \in DOMAIN pageTable, Evict(v)
    PROVE  /\ \A u : u # v => SameEntry(u)
           /\ Mapped(v)' /\ ~pageTable'[v].isValid
           /\ pageTable'[v].physicalPage = pageTable[v].physicalPage
           /\ pageTable'[v].pid = pageTable[v].pid
<1>1. pageTable[v] \in Entries
  BY DEF TypeInv, PagingTypeOK
<1>2. pageTable' = [pageTable EXCEPT ![v] = [pageTable[v] EXCEPT !.isValid = FALSE]]
  BY DEF Evict, SwapOut
<1>3. /\ ~[pageTable[v] EXCEPT !.isValid = FALSE].isValid
      /\ [pageTable[v] EXCEPT !.isValid = FALSE].physicalPage = pageTable[v].physicalPage
      /\ [pageTable[v] EXCEPT !.isValid = FALSE].pid = pageTable[v].pid
  BY <1>1 DEF Entries
<1>4. /\ DOMAIN pageTable' = DOMAIN pageTable
      /\ pageTable'[v] = [pageTable[v] EXCEPT !.isValid = FALSE]
      /\ \A u \in DOMAIN pageTable : u # v => pageTable'[u] = pageTable[u]
  BY <1>2
<1> QED
  BY <1>3, <1>4 DEF SameEntry, Mapped

LEMMA LoadEffect ==
    ASSUME NEW p \in Programs, StartLoad(p)
    PROVE  /\ \A v : Mapped(v) => SameEntry(v)
           /\ \A v : Mapped(v)' /\ ~Mapped(v) =>
                 /\ ~pageTable'[v].isValid
                 /\ pageTable'[v].physicalPage \in UserFrames
<1>1. /\ DOMAIN pageTable' = DOMAIN pageTable \cup LoaderPages(p)
      /\ \A v \in DOMAIN pageTable : pageTable'[v] = pageTable[v]
      /\ \A v \in LoaderPages(p) \ DOMAIN pageTable :
            pageTable'[v] = PageEntry(Exchanged(v) - StartPage(p), FALSE, FALSE, p)
  BY DEF StartLoad, MappedByLoader
<1>2. \A v \in LoaderPages(p) \ DOMAIN pageTable :
         /\ ~pageTable'[v].isValid
         /\ pageTable'[v].physicalPage \in UserFrames
  BY <1>1, LoaderLayout DEF PageEntry
<1> QED
  BY <1>1, <1>2 DEF SameEntry, Mapped

\* A process that is gone stays so: only a new one becomes loaded.
LEMMA GoneForGood ==
    ASSUME TypeInv, [Next]_pagingVars, NEW p \in Pids, stage[p] = "gone"
    PROVE  stage'[p] = "gone"
<1> USE DEF TypeInv, PagingTypeOK
<1>1. CASE Illegal
  BY <1>1 DEF Illegal, CallInv, MayLoad
<1>2. CASE Hit
  BY <1>2 DEF Hit, LoadGoesOn, CallInv, MayLoad
<1>3. ASSUME NEW q \in Pids, Deallocate(q) PROVE stage'[p] = "gone"
  BY <1>3 DEF Deallocate
<1> QED
  BY <1>1, <1>2, <1>3, Steps
     DEF StartLoad, Request, MapSharedMem, RawStore, Block, Fatal, Resume, Evict, MapMissing,
         SwapIn, pagingVars

-----------------------------------------------------------------------------
(***************************************************************************)
(* The idle process's page.  No other page is ever given its frame.        *)
(***************************************************************************)
IdleTable ==
    /\ IdlePage \in DOMAIN pageTable
    /\ pageTable[IdlePage].isValid
    /\ pageTable[IdlePage].pid = Idle
    /\ pageTable[IdlePage].physicalPage = IdleFrame
    /\ IdleFrame \notin freePages
    /\ \A v \in DOMAIN pageTable : v # IdlePage => pageTable[v].physicalPage # IdleFrame

IdleServed == access.pid = Idle => access.status \notin {"fatal", "illegal", "blocked"}

IdleInv == stage[Idle] # "gone" => IdleTable /\ IdleServed

LEMMA IdleParts == IdleInv => IdleResident
BY DEF IdleInv, IdleTable, IdleServed, IdleResident, Resident, Mapped, Frame

\* Nothing happens to the idle page when its entry stays and the others' frames
\* stay or come from the programs'.
LEMMA IdleTableKept ==
    ASSUME IdleTable, SameEntry(IdlePage), IdleFrame \notin freePages',
           \A v \in DOMAIN pageTable' : v # IdlePage =>
               SameEntry(v) \/ pageTable'[v].physicalPage # IdleFrame
    PROVE  IdleTable'
BY DEF IdleTable, SameEntry, Mapped

LEMMA IdleTableStep ==
    ASSUME TypeInv, IdleTable, [Next]_pagingVars, stage'[Idle] # "gone"
    PROVE  IdleTable'
<1>1. ASSUME UNCHANGED <<pageTable, freePages>> PROVE IdleTable'
  BY <1>1 DEF IdleTable
<1>2. ASSUME NEW p \in Programs, StartLoad(p) PROVE IdleTable'
  <2>1. IdlePage \in DOMAIN pageTable /\ IdleFrame \notin freePages'
    BY <1>2 DEF IdleTable, StartLoad
  <2> QED
    BY <1>2, <2>1, LoadEffect, Layout, IdleTableKept DEF Mapped
<1>3. ASSUME NEW p \in Programs, NEW r \in Regions, MapSharedMem(p, r) PROVE IdleTable'
  <2>1. IdleFrame \notin freePages'
    BY <1>3 DEF IdleTable, MapSharedMem
  <2>2. \A v : v # SharedPage(r) => SameEntry(v)
    BY <1>3, EnteredEffect DEF MapSharedMem
  <2>3. pageTable'[SharedPage(r)].physicalPage # IdleFrame
    BY <1>3, EnteredEffect, RegionLayout DEF MapSharedMem
  <2> QED
    BY <2>1, <2>2, <2>3, RegionLayout, IdleTableKept
<1>4. ASSUME \A v : SameEntry(v), freePages' = freePages PROVE IdleTable'
  BY <1>4, IdleTableKept DEF IdleTable
<1>5. ASSUME NEW p, NEW f, NEW x, RawStore(p, f, x) PROVE IdleTable'
  BY <1>4, <1>5, StoresEffect DEF RawStore
<1>6. CASE Hit
  BY <1>4, <1>6, StoresEffect DEF Hit
<1>7. ASSUME NEW v \in DOMAIN pageTable, Evict(v) PROVE IdleTable'
  <2>1. v # IdlePage
    BY <1>7 DEF IdleTable, Evict, LRUPage, Evictable
  <2>2. IdleFrame \notin freePages'
    BY <1>7, <2>1 DEF IdleTable, Evict, SwapOut, Released
  <2>3. pageTable'[v].physicalPage # IdleFrame
    BY <1>7, <2>1, EvictEffect DEF IdleTable
  <2> QED
    BY <1>7, <2>1, <2>2, <2>3, EvictEffect, IdleTableKept
<1>8. ASSUME NEW f \in freePages, MapMissing(f) \/ SwapIn(f) PROVE IdleTable'
  <2>1. access.page # IdlePage
    BY <1>8 DEF IdleTable, MapMissing, SwapIn, NeedsFrame, Owns, Mapped
  <2>2. f # IdleFrame /\ IdleFrame \notin freePages'
    BY <1>8 DEF IdleTable, MapMissing, SwapIn, Remaining
  <2>3. \A u : u # access.page => SameEntry(u)
    BY <1>8, EnteredEffect DEF MapMissing, SwapIn
  <2>4. pageTable'[access.page].physicalPage = f
    BY <1>8, EnteredEffect DEF MapMissing, SwapIn
  <2> QED
    BY <2>1, <2>2, <2>3, <2>4, IdleTableKept
<1>9. ASSUME NEW p \in Pids, Deallocate(p) PROVE IdleTable'
  <2> DEFINE own == PagesOf(p)
  <2>1. p # Idle
    BY <1>9 DEF Deallocate, TypeInv, PagingTypeOK
  <2>2. IdlePage \notin own /\ own \subseteq DOMAIN pageTable
    BY <2>1 DEF IdleTable, PagesOf
  <2>3. /\ DOMAIN pageTable' = DOMAIN pageTable \ own
        /\ \A v \in DOMAIN pageTable \ own : pageTable'[v] = pageTable[v]
        /\ freePages' = freePages \cup {pageTable[v].physicalPage : v \in own}
    BY <1>9 DEF Deallocate
  <2> QED
    BY <2>2, <2>3 DEF IdleTable
<1> QED
  BY <1>1, <1>2, <1>3, <1>5, <1>6, <1>7, <1>8, <1>9, Steps
     DEF Request, Illegal, Block, Fatal, Resume, pagingVars

LEMMA IdleServedStep ==
    ASSUME TypeInv, IdleTable, IdleServed, [Next]_pagingVars
    PROVE  IdleServed'
<1>1. access \in Accesses
  BY DEF TypeInv, PagingTypeOK
<1>2. ASSUME access' = access PROVE IdleServed'
  BY <1>2 DEF IdleServed
<1>3. ASSUME NEW p, NEW v, NEW kind, NEW x, access' = Ask(p, v, kind, x) PROVE IdleServed'
  BY <1>3 DEF Ask, IdleServed
<1>4. ASSUME access.pid # Idle, NEW result \in Statuses, access' = Answer(result) PROVE IdleServed'
  BY <1>1, <1>4, Answers DEF IdleServed
<1>5. ASSUME Pending, access.pid = Idle
      PROVE  access.page = IdlePage /\ Owns(Idle, IdlePage) /\ ~NeedsFrame
  BY <1>5 DEF TypeInv, CallInv, IdleTable, Owns, NeedsFrame, Mapped
<1>6. CASE Illegal \/ Block \/ Fatal
  <2>1. access.pid # Idle
    BY <1>5, <1>6 DEF Illegal, Block, Fatal, OutOfFrames, NeedsFrame
  <2> QED
    BY <1>4, <1>6, <2>1 DEF Illegal, Block, Fatal, Statuses
<1>7. CASE Hit
  <2>1. CASE LoadGoesOn
    <3>1. access' = [access EXCEPT !.page = access.page + 1]
      BY <1>7, <2>1 DEF Hit
    <3>2. access'.pid = access.pid /\ access'.status = access.status
      BY <1>1, <3>1 DEF Accesses
    <3> QED
      BY <3>2 DEF IdleServed
  <2>2. CASE ~LoadGoesOn
    <3>1. access' = Answer("granted")
      BY <1>7, <2>2 DEF Hit
    <3>2. access'.status = "granted"
      BY <1>1, <3>1, Answers DEF Statuses
    <3> QED
      BY <3>2 DEF IdleServed
  <2> QED
    BY <2>1, <2>2
<1>8. CASE Resume
  BY <1>8 DEF Resume, NoCall, IdleServed
<1> QED
  BY <1>2, <1>3, <1>6, <1>7, <1>8, Steps
     DEF StartLoad, Request, MapSharedMem, RawStore, Evict, MapMissing, SwapIn, Deallocate, pagingVars

LEMMA IdleStep ==
    ASSUME TypeInv, IdleInv, [Next]_pagingVars
    PROVE  IdleInv'
<1>1. SUFFICES ASSUME stage'[Idle] # "gone" PROVE IdleTable' /\ IdleServed'
  BY DEF IdleInv
<1>2. stage[Idle] # "gone"
  BY <1>1, GoneForGood, Layout
<1> QED
  BY <1>1, <1>2, IdleTableStep, IdleServedStep DEF IdleInv

-----------------------------------------------------------------------------
(***************************************************************************)
(* Frames.  Pages live in frames of the programs, or the idle process's;   *)
(* free frames are frames of the programs.                                 *)
(***************************************************************************)
FramesInPlace ==
    NobodyGone =>
        /\ freePages \subseteq UserFrames
        /\ \A v \in DOMAIN pageTable : Resident(v) => Frame(v) \in UserFrames \cup {IdleFrame}

FrameInv == FramesInPlace /\ FramesUsedOnce

\* No page but those that were resident is.
LEMMA NoNewPage ==
    ASSUME FrameInv, NobodyGone,
           freePages' \subseteq freePages,
           \A v \in DOMAIN pageTable' : pageTable'[v].isValid => SameEntry(v)
    PROVE  FrameInv'
<1> USE DEF FrameInv, FramesInPlace, FramesUsedOnce, Resident, Frame
<1>1. ASSUME NEW v \in DOMAIN pageTable', pageTable'[v].isValid
      PROVE  /\ v \in DOMAIN pageTable /\ Resident(v)
             /\ pageTable'[v].physicalPage = pageTable[v].physicalPage
  BY <1>1 DEF SameEntry, Mapped
<1> QED
  BY <1>1 DEF Mapped

LEMMA FrameStep ==
    ASSUME TypeInv, IdleInv, FrameInv, [Next]_pagingVars
    PROVE  FrameInv'
<1>1. CASE ~NobodyGone'
  BY <1>1 DEF FrameInv, FramesInPlace, FramesUsedOnce
<1>2. CASE NobodyGone'
  <2>1. NobodyGone
    BY <1>2, GoneForGood DEF NobodyGone
  <2>2. ASSUME UNCHANGED <<freePages, pageTable>> PROVE FrameInv'
    BY <2>1, <2>2, NoNewPage DEF SameEntry, Mapped
  <2>3. ASSUME NEW p \in Programs, StartLoad(p) PROVE FrameInv'
    BY <2>1, <2>3, LoadEffect, NoNewPage DEF StartLoad, Mapped
  <2>4. ASSUME NEW p \in Programs, NEW r \in Regions, MapSharedMem(p, r) PROVE FrameInv'
    <3>1. \A v : v # SharedPage(r) => SameEntry(v)
      BY <2>4, EnteredEffect DEF MapSharedMem
    <3>2. ~pageTable'[SharedPage(r)].isValid
      BY <2>4, EnteredEffect DEF MapSharedMem
    <3> QED
      BY <2>1, <2>4, <3>1, <3>2, NoNewPage DEF MapSharedMem
  <2>5. ASSUME NEW p \in Programs, NEW f, NEW x, RawStore(p, f, x) PROVE FrameInv'
    BY <2>1, <2>5, StoresEffect, NoNewPage DEF RawStore
  <2>6. CASE Hit
    BY <2>1, <2>6, StoresEffect, NoNewPage DEF Hit
  <2>7. ASSUME NEW v \in DOMAIN pageTable, Evict(v) PROVE FrameInv'
    <3>1. v \in DOMAIN pageTable /\ pageTable[v].isValid /\ v # IdlePage
      BY <2>1, <2>7, Layout DEF NobodyGone, IdleInv, Evict, LRUPage, Evictable, IdleTable
    <3>2. Frame(v) \in UserFrames
      BY <2>1, <3>1, Layout
         DEF NobodyGone, IdleInv, IdleTable, FrameInv, FramesInPlace, Resident, Mapped, Frame
    <3>3. freePages' = freePages \cup {Frame(v)}
      BY <2>7 DEF Evict, SwapOut, Released, Frame
    <3>4. ASSUME NEW u \in DOMAIN pageTable', pageTable'[u].isValid
          PROVE  /\ u \in DOMAIN pageTable /\ pageTable[u].isValid /\ u # v
                 /\ pageTable'[u].physicalPage = pageTable[u].physicalPage
      BY <2>7, <3>4, EvictEffect DEF SameEntry, Mapped
    <3> QED
      BY <2>1, <3>1, <3>2, <3>3, <3>4
         DEF FrameInv, FramesInPlace, FramesUsedOnce, Resident, Frame, Mapped
  <2>8. ASSUME NEW f \in freePages, MapMissing(f) PROVE FrameInv'
    <3>1. \A u : u # access.page => SameEntry(u)
      BY <2>8, EnteredEffect DEF MapMissing
    <3>2. ~pageTable'[access.page].isValid
      BY <2>8, EnteredEffect DEF MapMissing
    <3>3. freePages' \subseteq freePages
      BY <2>8 DEF MapMissing, Remaining
    <3> QED
      BY <2>1, <3>1, <3>2, <3>3, NoNewPage
  <2>9. ASSUME NEW f \in freePages, SwapIn(f) PROVE FrameInv'
    <3>1. \A u : u # access.page => SameEntry(u)
      BY <2>9, EnteredEffect DEF SwapIn
    <3>2. Mapped(access.page)' /\ pageTable'[access.page].physicalPage = f
      BY <2>9, EnteredEffect DEF SwapIn
    <3>3. freePages' = freePages \ {f} /\ f \in UserFrames
      BY <2>1, <2>9 DEF SwapIn, Remaining, FrameInv, FramesInPlace
    <3>4. ASSUME NEW u \in DOMAIN pageTable', u # access.page, pageTable'[u].isValid
          PROVE  /\ u \in DOMAIN pageTable /\ pageTable[u].isValid
                 /\ pageTable'[u].physicalPage = pageTable[u].physicalPage
                 /\ pageTable[u].physicalPage # f
      <4>1. u \in DOMAIN pageTable /\ pageTable[u].isValid
            /\ pageTable'[u].physicalPage = pageTable[u].physicalPage
        BY <3>1, <3>4 DEF SameEntry, Mapped
      <4> QED
        BY <2>1, <2>9, <4>1 DEF FrameInv, FramesUsedOnce, Resident, Mapped, Frame
    <3> QED
      BY <2>1, <3>2, <3>3, <3>4 
         DEF FrameInv, FramesInPlace, FramesUsedOnce, Resident, Frame, Mapped
  <2>10. ASSUME NEW p \in Pids, Deallocate(p) PROVE FALSE
    <3>1. p \in Pids /\ stage'[p] = "gone"
      BY <2>10, Layout DEF Deallocate, TypeInv, PagingTypeOK
    <3> QED
      BY <1>2, <3>1 DEF NobodyGone
  <2> QED
    BY <2>2, <2>3, <2>4, <2>5, <2>6, <2>7, <2>8, <2>9, <2>10, Steps
       DEF Request, Illegal, Block, Fatal, Resume, pagingVars
<1> QED
  BY <1>1, <1>2

PagingInv == TypeInv /\ IdleInv /\ FrameInv

LEMMA PagingAlways == Spec => []PagingInv
<1>1. Init => PagingInv
  <2>1. ASSUME Init PROVE IdleInv
    <3>1. IdleTable /\ IdleServed
      BY <2>1, Layout DEF Init, IdleTable, IdleServed, PageEntry, NoCall
    <3> QED
      BY <3>1 DEF IdleInv
  <2>2. ASSUME Init PROVE FrameInv
    <3>1. /\ DOMAIN pageTable = {IdlePage}
          /\ pageTable[IdlePage].physicalPage = IdleFrame
          /\ freePages = UserFrames
      BY <2>2 DEF Init, PageEntry
    <3> QED
      BY <3>1, Layout DEF FrameInv, FramesInPlace, FramesUsedOnce, Resident, Frame
  <2> QED
    BY <2>1, <2>2, InitType DEF PagingInv
<1>2. PagingInv /\ [Next]_pagingVars => PagingInv'
  BY TypeStep, IdleStep, FrameStep DEF PagingInv
<1> QED
  BY <1>1, <1>2, PTL DEF Spec

\* Until the first termination no frame backs two pages and no free frame
\* backs one.
THEOREM FramesBackOnePage == Spec => []FramesUsedOnce
BY PagingAlways, PTL DEF PagingInv, FrameInv

\* Nothing takes the idle process's page away, so its fetches are answered.
THEOREM IdlePageStays == Spec => []IdleResident
BY PagingAlways, IdleParts, PTL DEF PagingInv

-----------------------------------------------------------------------------
(***************************************************************************)
(* Frames are not lost.                                                    *)
(***************************************************************************)
LEMMA AccountedKept ==
    ASSUME freePages \subseteq Accounted',
           \A v \in DOMAIN pageTable :
               pageTable[v].isValid => pageTable[v].physicalPage \in Accounted'
    PROVE  Accounted \subseteq Accounted'
BY DEF Accounted, Resident, Frame, Mapped

LEMMA AccountedBy ==
    /\ freePages' \subseteq Accounted'
    /\ \A v \in DOMAIN pageTable' :
          pageTable'[v].isValid => pageTable'[v].physicalPage \in Accounted'
BY DEF Accounted, Resident, Frame, Mapped

LEMMA KeptStep ==
    ASSUME TypeInv, [Next]_pagingVars
    PROVE  \/ Accounted \subseteq Accounted'
           \/ Pending /\ ~Mapped(access.page)
           \/ \E p \in Programs, r \in Regions : MapSharedMem(p, r)
<1>1. ASSUME freePages \subseteq freePages', \A v : Mapped(v) => SameEntry(v)
      PROVE  Accounted \subseteq Accounted'
  BY <1>1, AccountedKept, AccountedBy DEF SameEntry, Mapped
<1>2. ASSUME NEW p \in Programs, StartLoad(p) PROVE Accounted \subseteq Accounted'
  BY <1>1, <1>2, LoadEffect DEF StartLoad
<1>3. ASSUME NEW p, NEW f, NEW x, RawStore(p, f, x) PROVE Accounted \subseteq Accounted'
  BY <1>1, <1>3, StoresEffect DEF RawStore
<1>4. ASSUME Hit PROVE Accounted \subseteq Accounted'
  BY <1>1, <1>4, StoresEffect DEF Hit
<1>5. ASSUME NEW v \in DOMAIN pageTable, Evict(v) PROVE Accounted \subseteq Accounted'
  <2>1. freePages' = freePages \cup {pageTable[v].physicalPage}
    BY <1>5 DEF Evict, SwapOut, Released
  <2>2. \A u : u # v => SameEntry(u)
    BY <1>5, EvictEffect
  <2> QED
    BY <2>1, <2>2, AccountedKept, AccountedBy DEF SameEntry, Mapped
<1>6. ASSUME NEW f \in freePages, SwapIn(f) PROVE Accounted \subseteq Accounted'
  <2>1. freePages' = freePages \ {f}
    BY <1>6 DEF SwapIn, Remaining
  <2>2. /\ access.page \in DOMAIN pageTable' /\ pageTable'[access.page].isValid
        /\ pageTable'[access.page].physicalPage = f
    BY <1>6, EnteredEffect DEF SwapIn, Mapped
  <2>3. \A u : u # access.page => SameEntry(u)
    BY <1>6, EnteredEffect DEF SwapIn
  <2>4. ~pageTable[access.page].isValid
    BY <1>6 DEF SwapIn, NeedsFrame
  <2> QED
    BY <2>1, <2>2, <2>3, <2>4, AccountedKept, AccountedBy DEF SameEntry, Mapped
<1>7. ASSUME NEW p \in Pids, Deallocate(p) PROVE Accounted \subseteq Accounted'
  <2> DEFINE own == PagesOf(p)
  <2>1. /\ DOMAIN pageTable' = DOMAIN pageTable \ own
        /\ \A v \in DOMAIN pageTable \ own : pageTable'[v] = pageTable[v]
        /\ freePages' = freePages \cup {pageTable[v].physicalPage : v \in own}
    BY <1>7 DEF Deallocate
  <2> QED
    BY <2>1, AccountedKept, AccountedBy
<1>8. ASSUME UNCHANGED <<pageTable, freePages>> PROVE Accounted \subseteq Accounted'
  BY <1>8 DEF Accounted, Resident, Frame, Mapped
<1> QED
  BY <1>2, <1>3, <1>4, <1>5, <1>6, <1>7, <1>8, Steps
     DEF MapMissing, NeedsFrame, Request, Illegal, Block, Fatal, Resume, pagingVars

\* Eviction, page faults and termination keep every frame free or in use.
THEOREM NoFrameLost == Spec => FramesAreKept
<1>1. TypeInv /\ [Next]_pagingVars
         => [\/ Accounted \subseteq Accounted'
             \/ Pending /\ ~Mapped(access.page)
             \/ \E p \in Programs, r \in Regions : MapSharedMem(p, r)]_pagingVars
  BY KeptStep
<1>2. PagingInv => TypeInv
  BY DEF PagingInv
<1> QED
  BY <1>1, <1>2, PagingAlways, PTL DEF Spec, FramesAreKept

-----------------------------------------------------------------------------
(***************************************************************************)
(* The order of use.  It is a strict order on the candidates for eviction, *)
(* and any two of them are ordered, except that the page a call has just   *)
(* brought in is not used before the call returns its address.             *)
(***************************************************************************)
Candidates == {v \in DOMAIN pageTable : Evictable(v)}

\* The page of the call under way, which its process has.
Fresh(v) == Pending /\ v = access.page /\ Owns(access.pid, v)

Bounded == \E n \in Nat : DOMAIN pageTable \subseteq 0..n

StrictOrder ==
    /\ usedBefore \subseteq Candidates \X Candidates
    /\ \A u \in Candidates : <<u, u>> \notin usedBefore
    /\ \A u, v, w \in Candidates :
          <<u, v>> \in usedBefore /\ <<v, w>> \in usedBefore => <<u, w>> \in usedBefore

Ordered ==
    \A u, v \in Candidates :
        \/ u = v \/ Fresh(u) \/ Fresh(v)
        \/ <<u, v>> \in usedBefore \/ <<v, u>> \in usedBefore

OrderInv == Bounded /\ StrictOrder /\ Ordered

\* A strict order on a finite set has a least element.
LEMMA LeastOf ==
    ASSUME NEW S, IsFiniteSet(S), S # {}, NEW R,
           \A u \in S : <<u, u>> \notin R,
           \A u, v, w \in S : <<u, v>> \in R /\ <<v, w>> \in R => <<u, w>> \in R
    PROVE  \E v \in S : \A u \in S : <<u, v>> \notin R
<1> DEFINE Below(v) == {u \in S : <<u, v>> \in R}
           Belows == {Below(v) : v \in S}
<1>1. Belows \subseteq FiniteSubsetsOf(S) /\ Belows # {}
  <2>1. \A v \in S : Below(v) \in SUBSET S
    OBVIOUS
  <2>2. \A v \in S : IsFiniteSet(Below(v))
    BY <2>1, FS_Subset
  <2>3. \A v \in S : Below(v) \in FiniteSubsetsOf(S)
    BY <2>1, <2>2, Zenon DEF FiniteSubsetsOf
  <2>4. \A v \in S : Below(v) \in Belows
    OBVIOUS
  <2> HIDE DEF Below
  <2> QED
    BY <2>3, <2>4
<1>2. PICK m \in Belows : \A b \in Belows : <<b, m>> \notin StrictSubsetOrdering(S)
  BY <1>1, FS_StrictSubsetOrderingWellFounded, WFMin
<1>3. PICK v \in S : m = Below(v)
  OBVIOUS
<1>4. ASSUME NEW u \in S, <<u, v>> \in R PROVE FALSE
  <2>1. Below(u) \subseteq Below(v) /\ u \in Below(v) /\ u \notin Below(u)
    BY <1>4
  <2>2. Below(u) \in Belows /\ Below(u) \subseteq S /\ Below(v) \subseteq S
    OBVIOUS
  <2>3. <<Below(u), Below(v)>> \in StrictSubsetOrdering(S)
    BY <2>1, <2>2 DEF StrictSubsetOrdering
  <2> QED
    BY <1>2, <1>3, <2>2, <2>3
<1> QED
  BY <1>4

\* A call that needs a frame has no page yet.
LEMMA NotFresh ==
    ASSUME NeedsFrame \/ Illegal \/ ~Pending, NEW v \in Candidates
    PROVE  ~Fresh(v)
BY DEF NeedsFrame, Illegal, Fresh, Candidates, Evictable, Owns

\* While the candidates and their order stay, so does the invariant.
LEMMA SameOrder ==
    ASSUME OrderInv, Bounded', Candidates' = Candidates, usedBefore' = usedBefore,
           \A v \in Candidates : Fresh(v) => Fresh(v)'
    PROVE  OrderInv'
<1>1. StrictOrder'
  BY DEF OrderInv, StrictOrder
<1>2. Ordered'
  BY DEF OrderInv, Ordered
<1> QED
  BY <1>1, <1>2 DEF OrderInv

\* The three parts of a strict order.
LEMMA StrictOrderNext ==
    ASSUME usedBefore' \subseteq Candidates' \X Candidates',
           \A u \in Candidates' : <<u, u>> \notin usedBefore',
           \A u, v, w \in Candidates' :
               <<u, v>> \in usedBefore' /\ <<v, w>> \in usedBefore' => <<u, w>> \in usedBefore'
    PROVE  StrictOrder'
BY DEF StrictOrder

\* Candidates fall away, and their pairs with them.
LEMMA FewerCandidates ==
    ASSUME OrderInv, Bounded', NEW S, Candidates' = Candidates \ S,
           usedBefore' = {pair \in usedBefore : {pair[1], pair[2]} \cap S = {}},
           \A v \in Candidates' : ~Fresh(v)
    PROVE  OrderInv'
<1>1. \A u, v \in Candidates' : <<u, v>> \in usedBefore' <=> <<u, v>> \in usedBefore
  OBVIOUS
<1>2. usedBefore' \subseteq Candidates' \X Candidates'
  <2>1. ASSUME NEW pair \in usedBefore, {pair[1], pair[2]} \cap S = {}
        PROVE  pair \in Candidates' \X Candidates'
    <3>1. pair \in Candidates \X Candidates
      BY DEF OrderInv, StrictOrder
    <3>2. pair = <<pair[1], pair[2]>> /\ pair[1] \in Candidates /\ pair[2] \in Candidates
      BY <3>1
    <3>3. pair[1] \in Candidates' /\ pair[2] \in Candidates'
      BY <2>1, <3>2
    <3> QED
      BY <3>2, <3>3
  <2> QED
    BY <2>1
<1>3. Candidates' \subseteq Candidates
  OBVIOUS
<1>4. StrictOrder'
  <2>1. \A u \in Candidates' : <<u, u>> \notin usedBefore'
    BY <1>1, <1>3 DEF OrderInv, StrictOrder
  <2>2. ASSUME NEW u \in Candidates', NEW v \in Candidates', NEW w \in Candidates',
               <<u, v>> \in usedBefore', <<v, w>> \in usedBefore'
        PROVE  <<u, w>> \in usedBefore'
    <3>1. <<u, v>> \in usedBefore /\ <<v, w>> \in usedBefore
      BY <1>1, <2>2
    <3>2. <<u, w>> \in usedBefore
      BY <1>3, <3>1 DEF OrderInv, StrictOrder
    <3> QED
      BY <1>1, <3>2
  <2> QED
    BY <1>2, <2>1, <2>2, StrictOrderNext
<1>5. Ordered'
  BY <1>1, <1>3 DEF OrderInv, Ordered
<1> QED
  BY <1>4, <1>5 DEF OrderInv

\* Page tables stay bounded.
LEMMA BoundedKept ==
    ASSUME Bounded, NEW v \in Nat, DOMAIN pageTable' \subseteq DOMAIN pageTable \cup {v}
    PROVE  Bounded'
<1>1. PICK n \in Nat : DOMAIN pageTable \subseteq 0..n
  BY DEF Bounded
<1>2. DOMAIN pageTable' \subseteq 0..(n + v)
  BY <1>1
<1> QED
  BY <1>2 DEF Bounded

LEMMA LoadBounded ==
    ASSUME Bounded, NEW p \in Programs, StartLoad(p)
    PROVE  Bounded'
<1>1. PICK n \in Nat : DOMAIN pageTable \subseteq 0..n
  BY DEF Bounded
<1>2. StartPage(p) \in Nat /\ PageCount \in Nat
  BY LoaderLayout, Layout
<1>3. ASSUME NEW v \in LoaderPages(p) PROVE v \in 0..(n + StartPage(p) + PageCount + 2)
  <2>1. PICK i \in 0..(PageCount - 1) : v = Exchanged(StartPage(p) + i)
    BY DEF LoaderPages
  <2> QED
    BY <1>2, <2>1 DEF Exchanged
<1>4. DOMAIN pageTable' = DOMAIN pageTable \cup LoaderPages(p)
  BY DEF StartLoad, MappedByLoader
<1>5. DOMAIN pageTable' \subseteq 0..(n + StartPage(p) + PageCount + 2)
  BY <1>1, <1>2, <1>3, <1>4
<1>6. n + StartPage(p) + PageCount + 2 \in Nat
  BY <1>2
<1> QED
  BY <1>5, <1>6 DEF Bounded

LEMMA PagesAreNumbers == Pages \subseteq Nat
<1>1. ASSUME NEW p \in Programs PROVE LoaderPages(p) \subseteq Nat
  <2>1. StartPage(p) \in Nat
    BY LoaderLayout
  <2> QED
    BY <2>1, Layout DEF LoaderPages, Exchanged
<1>2. ASSUME NEW p \in Programs, NEW i \in 0..(CodePages - 1) PROVE StartPage(p) + i \in Nat
  BY LoaderLayout
<1>3. \A r \in Regions : SharedPage(r) \in Nat
  BY PagingAssumption DEF SharedPage
<1>4. ASSUME NEW p \in Programs
      PROVE  LoaderPages(p) \cup {StartPage(p) + i : i \in 0..(CodePages - 1)} \subseteq Nat
  BY <1>1, <1>2
<1>5. {IdlePage} \cup Touched \cup {SharedPage(r) : r \in Regions} \subseteq Nat
  <2>1. {IdlePage} \cup Touched \subseteq Nat
    BY PagingAssumption DEF IdlePage
  <2>2. {SharedPage(r) : r \in Regions} \subseteq Nat
    BY <1>3
  <2> QED
    BY <2>1, <2>2
<1> QED
  BY <1>4, <1>5 DEF Pages

\* What a table of the same entries has of candidates.
LEMMA SameCandidates ==
    ASSUME NEW S, \A v : v \notin S => SameEntry(v) \/ (~Evictable(v) /\ ~Evictable(v)'),
           \A v \in S : ~Evictable(v)'
    PROVE  Candidates' = Candidates \ S
<1>1. \A v : v \notin S => (Evictable(v)' <=> Evictable(v))
  BY DEF SameEntry, Evictable, Mapped
<1>2. \A v : v \in Candidates <=> Evictable(v)
  BY DEF Candidates, Evictable, Mapped
<1>3. \A v : v \in Candidates' <=> Evictable(v)'
  BY DEF Candidates, Evictable, Mapped
<1> QED
  BY <1>1, <1>2, <1>3

\* What Stores, Evict and Entered leave of who is a candidate.
LEMMA HitOrder ==
    ASSUME TypeInv, OrderInv, Hit
    PROVE  OrderInv'
<1>1. PICK v : v = access.page
  OBVIOUS
<1>2. Owns(access.pid, v) /\ pageTable[v].isValid /\ Pending
  BY <1>1 DEF Hit
<1>3. Candidates' = Candidates
  <2>1. \A u : SameEntry(u)
    BY StoresEffect DEF Hit
  <2>2. Candidates' = Candidates \ {}
    BY <2>1, SameCandidates
  <2> QED
    BY <2>2
<1>4. Bounded'
  BY DEF OrderInv, Bounded, Hit, Stores
<1>5. CASE ~Evictable(v)
  <2>1. v \notin Candidates
    BY <1>5 DEF Candidates
  <2>2. \A u \in Candidates : ~Fresh(u)
    BY <1>1, <2>1 DEF Fresh
  <2>3. usedBefore' = usedBefore
    BY <1>1, <1>5 DEF Hit, UsedLast
  <2> QED
    BY <1>3, <1>4, <2>2, <2>3, SameOrder
<1>6. CASE Evictable(v)
  <2>1. v \in Candidates
    BY <1>6 DEF Candidates, Evictable, Mapped
  <2>2. usedBefore' = Forgotten(v) \cup {<<u, v>> : u \in Candidates \ {v}}
    <3>1. {w \in DOMAIN pageTable \ {v} : Evictable(w)} = Candidates \ {v}
      BY DEF Candidates
    <3> QED
      BY <1>1, <1>6, <3>1 DEF Hit, UsedLast
  <2>3. \A a, b : <<a, b>> \in usedBefore' <=>
            \/ <<a, b>> \in usedBefore /\ a # v /\ b # v
            \/ a \in Candidates \ {v} /\ b = v
    BY <2>2 DEF Forgotten
  <2>4. usedBefore' \subseteq Candidates \X Candidates
    BY <2>1, <2>2 DEF OrderInv, StrictOrder, Forgotten
  <2>5. \A u \in Candidates : <<u, u>> \notin usedBefore'
    BY <2>3 DEF OrderInv, StrictOrder
  <2>6. ASSUME NEW a \in Candidates, NEW b \in Candidates, NEW c \in Candidates,
               <<a, b>> \in usedBefore', <<b, c>> \in usedBefore'
        PROVE  <<a, c>> \in usedBefore'
    <3>1. b # v /\ a # v /\ <<a, b>> \in usedBefore
      BY <2>3, <2>6
    <3>2. CASE c = v
      BY <2>3, <3>1, <3>2
    <3>3. CASE c # v
      <4>1. <<b, c>> \in usedBefore
        BY <2>3, <2>6, <3>3
      <4>2. <<a, c>> \in usedBefore
        BY <3>1, <4>1 DEF OrderInv, StrictOrder
      <4> QED
        BY <2>3, <3>1, <3>3, <4>2
    <3> QED
      BY <3>2, <3>3
  <2>7. StrictOrder'
    BY <1>3, <2>4, <2>5, <2>6 DEF StrictOrder
  <2>8. ASSUME NEW a \in Candidates, NEW b \in Candidates, a # b
        PROVE  <<a, b>> \in usedBefore' \/ <<b, a>> \in usedBefore'
    <3>1. CASE a = v \/ b = v
      BY <2>3, <2>8, <3>1
    <3>2. CASE a # v /\ b # v
      <4>1. ~Fresh(a) /\ ~Fresh(b)
        BY <1>1, <3>2 DEF Fresh
      <4>2. <<a, b>> \in usedBefore \/ <<b, a>> \in usedBefore
        BY <2>8, <4>1 DEF OrderInv, Ordered
      <4> QED
        BY <2>3, <3>2, <4>2
    <3> QED
      BY <3>1, <3>2
  <2>9. Ordered'
    BY <1>3, <2>8 DEF Ordered
  <2> QED
    BY <1>4, <2>7, <2>9 DEF OrderInv
<1> QED
  BY <1>5, <1>6

LEMMA SwapInOrder ==
    ASSUME TypeInv, OrderInv, NEW f \in freePages, SwapIn(f)
    PROVE  OrderInv'
<1>1. PICK v : v = access.page
  OBVIOUS
<1>2. /\ v \in DOMAIN pageTable /\ ~Evictable(v) /\ Pending /\ access.pid # Idle
      /\ access' = access /\ usedBefore' = usedBefore
  BY <1>1 DEF SwapIn, NeedsFrame, Mapped, Evictable
<1>3. /\ Mapped(v)' /\ pageTable'[v].isValid /\ pageTable'[v].pid = access.pid
      /\ \A u : u # v => SameEntry(u)
  <2>1. pageTable' = Entered(v, PageEntry(f, TRUE, FALSE, access.pid))
    BY <1>1 DEF SwapIn
  <2>2. pageTable'[v].isValid = TRUE
    BY <2>1, EnteredEffect
  <2> QED
    BY <2>1, <2>2, EnteredEffect
<1>4. Candidates' = Candidates \cup {v}
  <2>1. \A u : Evictable(u)' <=> Evictable(u) \/ u = v
    BY <1>2, <1>3 DEF SameEntry, Evictable, Mapped
  <2>2. \A u : u \in Candidates <=> Evictable(u)
    BY DEF Candidates, Evictable, Mapped
  <2>3. \A u : u \in Candidates' <=> Evictable(u)'
    BY DEF Candidates, Evictable, Mapped
  <2> QED
    BY <2>1, <2>2, <2>3
<1>5. v \notin Candidates /\ Fresh(v)'
  BY <1>1, <1>2, <1>3 DEF Candidates, Fresh, Owns, Pending
<1>6. \A u \in Candidates : ~Fresh(u)
  BY <1>1, <1>5 DEF Fresh
<1>7. Bounded'
  <2>1. DOMAIN pageTable' \subseteq DOMAIN pageTable \cup {v} /\ v \in Nat
    BY <1>1, <1>2, PagesAreNumbers DEF SwapIn, Entered, TypeInv, PagingTypeOK
  <2> QED
    BY <2>1, BoundedKept DEF OrderInv
<1>8. StrictOrder'
  <2>1. \A a, b : <<a, b>> \in usedBefore => a \in Candidates /\ b \in Candidates
    BY DEF OrderInv, StrictOrder
  <2>2. usedBefore' \subseteq Candidates' \X Candidates'
    BY <1>2, <1>4 DEF OrderInv, StrictOrder
  <2>3. \A u \in Candidates' : <<u, u>> \notin usedBefore'
    BY <1>2, <2>1 DEF OrderInv, StrictOrder
  <2>4. ASSUME NEW a, NEW b, NEW c, <<a, b>> \in usedBefore', <<b, c>> \in usedBefore'
        PROVE  <<a, c>> \in usedBefore'
    BY <1>2, <2>1, <2>4 DEF OrderInv, StrictOrder
  <2> QED
    BY <2>2, <2>3, <2>4 DEF StrictOrder
<1>9. Ordered'
  <2>1. ASSUME NEW a \in Candidates', NEW b \in Candidates', a # b, a # v, b # v
        PROVE  <<a, b>> \in usedBefore' \/ <<b, a>> \in usedBefore'
    BY <1>2, <1>4, <1>6, <2>1 DEF OrderInv, Ordered
  <2> QED
    BY <1>5, <2>1 DEF Ordered
<1> QED
  BY <1>7, <1>8, <1>9 DEF OrderInv

LEMMA OrderStep ==
    ASSUME TypeInv, OrderInv, [Next]_pagingVars
    PROVE  OrderInv'
<1>1. ASSUME UNCHANGED <<pageTable, usedBefore>>, \A v \in Candidates : ~Fresh(v)
      PROVE  OrderInv'
  <2>1. Candidates' = Candidates \ {}
    BY <1>1, SameCandidates DEF SameEntry, Mapped
  <2>2. Bounded'
    BY <1>1 DEF OrderInv, Bounded
  <2> QED
    BY <1>1, <2>1, <2>2, SameOrder
<1>2. ASSUME NEW p, NEW v, NEW kind, NEW x, Request(p, v, kind, x) PROVE OrderInv'
  BY <1>1, <1>2, NotFresh DEF Request, Ready, Pending
<1>3. ASSUME NEW p \in Programs, StartLoad(p) PROVE OrderInv'
  <2>1. \A v : SameEntry(v) \/ (~Evictable(v) /\ ~Evictable(v)')
    BY <1>3, LoadEffect DEF Evictable, Mapped, SameEntry
  <2>2. Candidates' = Candidates \ {}
    BY <2>1, SameCandidates
  <2>3. \A v \in Candidates : ~Fresh(v)
    BY <1>3, NotFresh DEF StartLoad, Ready, Pending
  <2> QED
    BY <1>3, <2>2, <2>3, SameOrder, LoadBounded DEF StartLoad, OrderInv
<1>4. CASE Illegal \/ Block \/ Fatal \/ Resume
  BY <1>1, <1>4, NotFresh DEF Illegal, Block, Fatal, OutOfFrames, Resume, Pending
<1>5. ASSUME NEW v \in DOMAIN pageTable, Evict(v) PROVE OrderInv'
  <2>1. Candidates' = Candidates \ {v}
    BY <1>5, EvictEffect, SameCandidates DEF Evictable
  <2>2. usedBefore' = {pair \in usedBefore : {pair[1], pair[2]} \cap {v} = {}}
    BY <1>5 DEF Evict, SwapOut, Forgotten
  <2>3. Bounded'
    BY <1>5 DEF OrderInv, Bounded, Evict, SwapOut
  <2>4. \A u \in Candidates : ~Fresh(u)
    BY <1>5, NotFresh DEF Evict, OutOfFrames
  <2> QED
    BY <2>1, <2>2, <2>3, <2>4, FewerCandidates
<1>6. ASSUME NEW f \in freePages, MapMissing(f) PROVE OrderInv'
  <2>1. PICK v : v = access.page
    OBVIOUS
  <2>2. /\ \A u : u # v => SameEntry(u)
        /\ ~pageTable'[v].isValid /\ ~Mapped(v)
    BY <1>6, <2>1, EnteredEffect DEF MapMissing
  <2>3. Candidates' = Candidates \ {}
    BY <2>2, SameCandidates DEF Evictable
  <2>4. \A u \in Candidates : ~Fresh(u)
    BY <1>6, NotFresh DEF MapMissing
  <2>5. Bounded'
    <3>1. DOMAIN pageTable' \subseteq DOMAIN pageTable \cup {v} /\ v \in Nat
      BY <1>6, <2>1, PagesAreNumbers DEF MapMissing, NeedsFrame, Entered, TypeInv, CallInv
    <3> QED
      BY <3>1, BoundedKept DEF OrderInv
  <2> QED
    BY <1>6, <2>3, <2>4, <2>5, SameOrder DEF MapMissing
<1>7. ASSUME NEW p \in Programs, NEW r \in Regions, MapSharedMem(p, r) PROVE OrderInv'
  <2>1. PICK v : v = SharedPage(r)
    OBVIOUS
  <2>2. /\ \A u : u # v => SameEntry(u)
        /\ ~pageTable'[v].isValid
    BY <1>7, <2>1, EnteredEffect DEF MapSharedMem
  <2>3. Candidates' = Candidates \ {v}
    BY <2>2, SameCandidates DEF Evictable
  <2>4. usedBefore' = {pair \in usedBefore : {pair[1], pair[2]} \cap {v} = {}}
    BY <1>7, <2>1 DEF MapSharedMem, Forgotten
  <2>5. \A u \in Candidates : ~Fresh(u)
    BY <1>7, NotFresh DEF MapSharedMem, Ready, Pending
  <2>6. Bounded'
    <3>1. DOMAIN pageTable' \subseteq DOMAIN pageTable \cup {v} /\ v \in Nat
      BY <1>7, <2>1, RegionLayout, PagesAreNumbers DEF MapSharedMem, Entered
    <3> QED
      BY <3>1, BoundedKept DEF OrderInv
  <2> QED
    BY <2>3, <2>4, <2>5, <2>6, FewerCandidates
<1>8. ASSUME NEW p, NEW f, NEW x, RawStore(p, f, x) PROVE OrderInv'
  <2>1. Candidates' = Candidates \ {}
    BY <1>8, StoresEffect, SameCandidates DEF RawStore
  <2>2. \A v \in Candidates : ~Fresh(v)
    BY <1>8, NotFresh DEF RawStore, Ready, Pending
  <2>3. Bounded'
    BY <1>8 DEF OrderInv, Bounded, RawStore, Stores
  <2> QED
    BY <1>8, <2>1, <2>2, <2>3, SameOrder DEF RawStore
<1>9. ASSUME NEW p \in Pids, Deallocate(p) PROVE OrderInv'
  <2> DEFINE own == PagesOf(p)
  <2>1. /\ DOMAIN pageTable' = DOMAIN pageTable \ own
        /\ \A v \in DOMAIN pageTable \ own : pageTable'[v] = pageTable[v]
        /\ usedBefore' = {pair \in usedBefore : {pair[1], pair[2]} \cap own = {}}
    BY <1>9 DEF Deallocate
  <2> HIDE DEF own
  <2>2. Candidates' = Candidates \ own
    <3>1. \A v : v \notin own => SameEntry(v)
      BY <2>1 DEF SameEntry, Mapped
    <3>2. \A v \in own : ~Evictable(v)'
      BY <2>1 DEF Evictable, Mapped
    <3> QED
      BY <3>1, <3>2, SameCandidates
  <2>3. \A v \in Candidates : ~Fresh(v)
    BY <1>9, NotFresh DEF Deallocate, Ready, Pending
  <2>4. Bounded'
    BY <2>1 DEF OrderInv, Bounded
  <2> QED
    BY <2>1, <2>2, <2>3, <2>4, FewerCandidates
<1>10. CASE UNCHANGED pagingVars
  <2>1. Candidates' = Candidates \ {}
    BY <1>10, SameCandidates DEF pagingVars, SameEntry, Mapped
  <2>2. Bounded'
    BY <1>10 DEF OrderInv, Bounded, pagingVars
  <2>3. \A v : Fresh(v) => Fresh(v)'
    BY <1>10 DEF pagingVars, Fresh, Pending, Owns, Mapped
  <2> QED
    BY <1>10, <2>1, <2>2, <2>3, SameOrder DEF pagingVars
<1> QED
  BY <1>2, <1>3, <1>4, <1>5, <1>6, <1>7, <1>8, <1>9, <1>10, HitOrder, SwapInOrder, Steps

LEMMA OneLeast ==
    ASSUME OrderInv, OutOfFrames, \E v \in DOMAIN pageTable : Evictable(v)
    PROVE  \E v \in DOMAIN pageTable : \A w \in DOMAIN pageTable : LRUPage(w) <=> w = v
<1>1. IsFiniteSet(Candidates) /\ Candidates # {}
  <2>1. PICK n \in Nat : DOMAIN pageTable \subseteq 0..n
    BY DEF OrderInv, Bounded
  <2>2. Candidates \in SUBSET (0..n)
    BY <2>1 DEF Candidates
  <2>3. IsFiniteSet(0..n)
    BY FS_Interval
  <2> QED
    BY <2>2, <2>3, FS_Subset DEF Candidates
<1>2. PICK v \in Candidates : \A u \in Candidates : <<u, v>> \notin usedBefore
  <2>1. /\ \A u \in Candidates : <<u, u>> \notin usedBefore
        /\ \A u, v, w \in Candidates :
              <<u, v>> \in usedBefore /\ <<v, w>> \in usedBefore => <<u, w>> \in usedBefore
    BY DEF OrderInv, StrictOrder
  <2> QED
    BY <1>1, <2>1, LeastOf
<1>3. \A u, w : <<u, w>> \in usedBefore => u \in Candidates
  BY DEF OrderInv, StrictOrder
<1>4. v \in DOMAIN pageTable /\ LRUPage(v)
  BY <1>2, <1>3 DEF Candidates, LRUPage
<1>5. ASSUME NEW w \in DOMAIN pageTable, LRUPage(w) PROVE w = v
  <2>1. w \in Candidates /\ ~Fresh(v) /\ ~Fresh(w)
    BY <1>5, NotFresh DEF LRUPage, Candidates, OutOfFrames
  <2>2. <<v, w>> \notin usedBefore
    BY <1>4, <1>5 DEF LRUPage
  <2> QED
    BY <1>2, <2>1, <2>2 DEF OrderInv, Ordered
<1> QED
  BY <1>4, <1>5

\* Each eviction has exactly one victim: the page whose use lies furthest back.
THEOREM VictimIsUnique == Spec => []OneVictim
<1>1. Init => OrderInv
  <2>1. ASSUME Init PROVE Bounded
    BY <2>1 DEF Init, Bounded, IdlePage
  <2>2. ASSUME Init PROVE Candidates = {}
    BY <2>2 DEF Init, Candidates, Evictable, PageEntry
  <2> QED
    BY <2>1, <2>2 DEF Init, OrderInv, StrictOrder, Ordered
<1>2. PagingInv /\ OrderInv /\ [Next]_pagingVars => OrderInv'
  BY OrderStep DEF PagingInv
<1>3. OrderInv => OneVictim
  BY OneLeast DEF OneVictim
<1> QED
  BY <1>1, <1>2, <1>3, PagingAlways, PTL DEF Spec

-----------------------------------------------------------------------------
(***************************************************************************)
(* The refinement.  A step of the memory is a step of PageStore: a hit of  *)
(* a store writes, a swap-in recalls, the rest forgets pages or changes    *)
(* who uses the memory.                                                    *)
(***************************************************************************)
StoreOf(v)  == IF NobodyGone /\ Resident(v) THEN mem[Frame(v)] ELSE Unknown
HolderOf(v) == IF NobodyGone /\ Mapped(v) THEN pageTable[v].pid ELSE Nobody

\* Stores without translation miss the programs' frames, none runs over the end
\* of its page, and a program's instructions fit into one page.
StoresStay ==
    /\ "spill" \notin StoreKinds
    /\ CodePages = 1
    /\ RawFrames \cap (UserFrames \cup {IdleFrame}) = {}

\* What Forget may do with a page.
Keeps(v) == StoreOf(v)' = StoreOf(v) /\ HolderOf(v)' = HolderOf(v)

Loses(v) ==
    /\ StoreOf(v)' = Unknown
    /\ \/ HolderOf(v)' = HolderOf(v)
       \/ HolderOf(v) = Nobody /\ HolderOf(v)' = access'.pid
       \/ v \in {SharedPage(r) : r \in Regions}

LEMMA StoreTypes ==
    ASSUME TypeInv'
    PROVE  /\ access'.pid \in Pids
           /\ \A v \in Pages : StoreOf(v)' \in Values \cup {Unknown}
           /\ \A v \in Pages : HolderOf(v)' \in Pids \cup {Nobody}
BY DEF StoreOf, HolderOf, TypeInv, PagingTypeOK, Accesses, Entries, Resident, Frame, Mapped

LEMMA Forgets ==
    ASSUME TypeInv', \A v \in Pages : Keeps(v) \/ Loses(v)
    PROVE  Store!Next
<1> DEFINE store  == [v \in Pages |-> StoreOf(v)]
           holder == [v \in Pages |-> HolderOf(v)]
<1>1. /\ access'.pid \in Pids
      /\ store' \in [Pages -> Values \cup {Unknown}]
      /\ holder' \in [Pages -> Pids \cup {Nobody}]
  <2>1. /\ access'.pid \in Pids
        /\ \A v \in Pages : StoreOf(v)' \in Values \cup {Unknown}
        /\ \A v \in Pages : HolderOf(v)' \in Pids \cup {Nobody}
    BY StoreTypes
  <2> QED
    BY <2>1
<1>2. \A v \in Pages : /\ store[v] = StoreOf(v) /\ store'[v] = StoreOf(v)'
                        /\ holder[v] = HolderOf(v) /\ holder'[v] = HolderOf(v)'
  OBVIOUS
<1>3. \A v \in Pages : Store!Keeps(v) \/ Store!Loses(v)
  BY <1>2 DEF Store!Keeps, Store!Loses, Keeps, Loses, StoreOf, HolderOf
<1>4. Store!Forget
  BY <1>1, <1>3 DEF Store!Forget, StoreOf, HolderOf
<1> QED
  BY <1>4 DEF Store!Next

\* From the first termination on nothing is promised.
LEMMA GivesUp ==
    ASSUME TypeInv', ~NobodyGone'
    PROVE  Store!Next
<1>1. access'.pid \in Pids
  BY StoreTypes
<1>2. Store!GiveUp
  BY <1>1 DEF Store!GiveUp
<1> QED
  BY <1>2 DEF Store!Next

\* Until a termination, the page table keeps a page in store when it keeps its
\* entry and the frame.
LEMMA KeptPage ==
    ASSUME NobodyGone, NobodyGone', NEW v, SameEntry(v),
           Resident(v) => mem'[pageTable[v].physicalPage] = mem[pageTable[v].physicalPage]
    PROVE  StoreOf(v)' = StoreOf(v) /\ HolderOf(v)' = HolderOf(v) /\ Keeps(v)
BY DEF Keeps, StoreOf, HolderOf, SameEntry, Resident, Frame, Mapped

LEMMA GoneOrNot == ASSUME TypeInv, [Next]_pagingVars, NobodyGone' PROVE NobodyGone
BY GoneForGood DEF NobodyGone

\* One page of the actor changes: a write, or a recall when it was unknown.
LEMMA Changes ==
    ASSUME NEW v \in Pages, HolderOf(v) = access.pid, access'.pid = access.pid,
           NEW x \in Values, StoreOf(v)' = x,
           \A u \in Pages : u # v => StoreOf(u)' = StoreOf(u),
           \A u \in Pages : HolderOf(u)' = HolderOf(u)
    PROVE  Store!Next
<1> DEFINE store  == [u \in Pages |-> StoreOf(u)]
           holder == [u \in Pages |-> HolderOf(u)]
<1>1. store' = [store EXCEPT ![v] = x]
  OBVIOUS
<1>2. holder' = holder
  OBVIOUS
<1>3. store[v] = StoreOf(v) /\ holder[v] = access.pid
  OBVIOUS
<1>4. CASE StoreOf(v) # Unknown
  <2>1. Store!Write
    BY <1>1, <1>2, <1>3, <1>4 DEF Store!Write, StoreOf, HolderOf
  <2> QED
    BY <2>1 DEF Store!Next
<1>5. CASE StoreOf(v) = Unknown
  <2>1. Store!Recall
    BY <1>1, <1>2, <1>3, <1>5 DEF Store!Recall, StoreOf, HolderOf
  <2> QED
    BY <2>1 DEF Store!Next
<1> QED
  BY <1>4, <1>5

LEMMA HitImplements ==
    ASSUME StoresStay, PagingInv, TypeInv', NobodyGone, NobodyGone', Hit
    PROVE  Store!Next
<1>1. PICK v, f : v = access.page /\ f = pageTable[v].physicalPage
  OBVIOUS
<1>2. /\ v \in Pages /\ Mapped(v) /\ pageTable[v].isValid /\ pageTable[v].pid = access.pid
      /\ access \in Accesses /\ mem \in [Frames -> Values] /\ f \in Frames
  BY <1>1 DEF PagingInv, TypeInv, PagingTypeOK, CallInv, Hit, Owns, Mapped, Entries
<1>3. ~LoadGoesOn /\ access.kind # "spill"
  <2>1. ASSUME access.kind = "load"
        PROVE ~(access.page + 1 < StartPage(access.pid) + CodePages)
    <3>1. /\ access.pid \in Programs
          /\ access.page \in StartPage(access.pid)..(StartPage(access.pid) + CodePages - 1)
      BY <2>1 DEF PagingInv, TypeInv, CallInv, Hit
    <3>2. StartPage(access.pid) \in Nat /\ CodePages = 1
      BY <3>1, LoaderLayout DEF StoresStay
    <3> QED
      BY <3>1, <3>2
  <2>2. access.kind \in Kinds
    BY <1>2 DEF Accesses
  <2> QED
    BY <2>1, <2>2 DEF LoadGoesOn, Kinds, StoresStay
<1>4. /\ \A u : SameEntry(u)
      /\ \A g \in Frames : g \notin WrittenFrames => mem'[g] = mem[g]
      /\ \A g \in Frames : g \in WrittenFrames => mem'[g] = access.value
  BY StoresEffect DEF PagingInv, Hit
<1>5. access'.pid = access.pid
  BY <1>2, <1>3, Answers DEF Hit, Statuses
<1>6. ASSUME NEW u \in Pages, Resident(u)
      PROVE  pageTable[u].physicalPage \in Frames /\ (u # v => pageTable[u].physicalPage # f)
  BY <1>1, <1>2, <1>6
     DEF PagingInv, FrameInv, FramesUsedOnce, TypeInv, PagingTypeOK, Resident, Mapped, Frame,
         Entries
<1>7. CASE WrittenFrames = {}
  BY <1>4, <1>6, <1>7, KeptPage, Forgets
<1>8. CASE WrittenFrames = {f}
  <2>1. \A u \in Pages : u # v => StoreOf(u)' = StoreOf(u) /\ HolderOf(u)' = HolderOf(u)
    BY <1>4, <1>6, <1>8, KeptPage
  <2>2. StoreOf(v)' = access.value
    BY <1>1, <1>2, <1>4, <1>8 DEF SameEntry, StoreOf, Resident, Frame, Mapped
  <2>3. HolderOf(v)' = HolderOf(v) /\ HolderOf(v) = access.pid
    BY <1>1, <1>2, <1>4 DEF SameEntry, HolderOf, Mapped
  <2>4. access.value \in Values
    BY <1>2 DEF Accesses
  <2> QED
    BY <1>2, <1>5, <2>1, <2>2, <2>3, <2>4, Changes
<1>9. WrittenFrames = {} \/ WrittenFrames = {f}
  BY <1>1, <1>3 DEF WrittenFrames
<1> QED
  BY <1>7, <1>8, <1>9

LEMMA SwapInImplements ==
    ASSUME PagingInv, TypeInv', NobodyGone, NobodyGone', NEW f \in freePages, SwapIn(f)
    PROVE  Store!Next
<1>1. PICK v : v = access.page
  OBVIOUS
<1>2. /\ v \in Pages /\ Mapped(v) /\ pageTable[v].pid = access.pid
      /\ mem \in [Frames -> Values] /\ mem' \in [Frames -> Values] /\ f \in Frames
  BY <1>1 DEF PagingInv, TypeInv, PagingTypeOK, CallInv, SwapIn, NeedsFrame, Owns
<1>3. /\ Mapped(v)' /\ pageTable'[v].physicalPage = f /\ pageTable'[v].isValid
      /\ pageTable'[v].pid = access.pid
      /\ \A u : u # v => SameEntry(u)
  <2>1. pageTable' = Entered(v, PageEntry(f, TRUE, FALSE, access.pid))
    BY <1>1 DEF SwapIn
  <2>2. pageTable'[v].isValid = TRUE
    BY <2>1, EnteredEffect
  <2> QED
    BY <2>1, <2>2, EnteredEffect
<1>4. \A g \in Frames : g # f => mem'[g] = mem[g]
  BY <1>2 DEF SwapIn
<1>5. ASSUME NEW u \in Pages, u # v
      PROVE  StoreOf(u)' = StoreOf(u) /\ HolderOf(u)' = HolderOf(u)
  <2>1. ASSUME Resident(u) PROVE pageTable[u].physicalPage \in Frames \ {f}
    BY <2>1 DEF PagingInv, FrameInv, FramesUsedOnce, TypeInv, PagingTypeOK, Resident, Mapped,
                Frame, Entries
  <2> QED
    BY <1>3, <1>4, <1>5, <2>1, KeptPage
<1>6. StoreOf(v)' = mem'[f] /\ mem'[f] \in Values
  BY <1>2, <1>3 DEF StoreOf, Resident, Frame, Mapped
<1>7. HolderOf(v)' = HolderOf(v) /\ HolderOf(v) = access.pid
  BY <1>2, <1>3 DEF HolderOf, Mapped
<1>8. access'.pid = access.pid
  BY DEF SwapIn
<1> QED
  BY <1>2, <1>5, <1>6, <1>7, <1>8, Changes

\* Each step of the memory is a step of PageStore, or changes nothing of it.
LEMMA StoreStep ==
    ASSUME StoresStay, PagingInv, TypeInv', [Next]_pagingVars
    PROVE  [Store!Next]_Store!storeVars
<1>1. CASE ~NobodyGone'
  BY <1>1, GivesUp
<1>2. CASE NobodyGone'
  <2>1. NobodyGone
    BY <1>2, GoneOrNot DEF PagingInv
  <2>2. ASSUME \A v : SameEntry(v), UNCHANGED mem PROVE Store!Next
    BY <1>2, <2>1, <2>2, KeptPage, Forgets
  <2>3. ASSUME UNCHANGED <<pageTable, mem>> PROVE Store!Next
    BY <2>2, <2>3 DEF SameEntry, Mapped
  <2>4. ASSUME NEW v, \A u : u # v => SameEntry(u), Mapped(v)', ~pageTable'[v].isValid,
               \/ HolderOf(v)' = HolderOf(v)
               \/ ~Mapped(v) /\ pageTable'[v].pid = access'.pid
               \/ v \in {SharedPage(r) : r \in Regions},
               UNCHANGED mem
        PROVE  Store!Next
    <3>1. Loses(v)
      BY <1>2, <2>1, <2>4 DEF Loses, StoreOf, HolderOf, Resident, Mapped
    <3> QED
      BY <1>2, <2>1, <2>4, <3>1, KeptPage, Forgets
  <2>5. ASSUME NEW p \in Programs, StartLoad(p) PROVE Store!Next
    <3>1. ASSUME NEW v \in Pages
          PROVE  Keeps(v) \/ Loses(v)
      <4>1. CASE Mapped(v)
        BY <1>2, <2>1, <2>5, <4>1, LoadEffect, KeptPage DEF StartLoad
      <4>2. CASE ~Mapped(v)
        <5>1. StoreOf(v)' = Unknown
          BY <2>5, <4>2, LoadEffect DEF StoreOf, Resident
        <5>2. access'.pid = p /\ (v \in DOMAIN pageTable' => pageTable'[v].pid = p)
          BY <2>5, <4>2 DEF StartLoad, Ask, MappedByLoader, PageEntry, Mapped
        <5>3. HolderOf(v) = Nobody /\ HolderOf(v)' \in {Nobody, access'.pid}
          BY <4>2, <5>2 DEF HolderOf, Mapped
        <5> QED
          BY <5>1, <5>3 DEF Loses
      <4> QED
        BY <4>1, <4>2
    <3> QED
      BY <3>1, Forgets
  <2>6. ASSUME NEW p \in Programs, NEW r \in Regions, MapSharedMem(p, r) PROVE Store!Next
    <3>1. SharedPage(r) \in {SharedPage(q) : q \in Regions}
      OBVIOUS
    <3> QED
      BY <2>4, <2>6, <3>1, EnteredEffect DEF MapSharedMem
  <2>7. ASSUME NEW p \in Programs, NEW f \in RawFrames, NEW x \in Values, RawStore(p, f, x)
        PROVE  Store!Next
    <3>1. /\ \A v : SameEntry(v)
          /\ \A g \in Frames : g # f => mem'[g] = mem[g]
      BY <2>7, StoresEffect DEF PagingInv, RawStore
    <3>2. ASSUME NEW v \in Pages, Resident(v) PROVE pageTable[v].physicalPage \in Frames \ {f}
      <4>1. pageTable[v].physicalPage \in UserFrames \cup {IdleFrame}
        BY <2>1, <3>2 DEF PagingInv, FrameInv, FramesInPlace, Resident, Mapped, Frame
      <4> QED
        BY <4>1, Layout DEF StoresStay
    <3> QED
      BY <1>2, <2>1, <3>1, <3>2, KeptPage, Forgets
  <2>8. CASE Hit
    BY <1>2, <2>1, <2>8, HitImplements
  <2>9. ASSUME NEW v \in DOMAIN pageTable, Evict(v) PROVE Store!Next
    <3>1. HolderOf(v)' = HolderOf(v)
      BY <1>2, <2>1, <2>9, EvictEffect DEF HolderOf, Mapped, PagingInv
    <3> QED
      BY <2>4, <2>9, <3>1, EvictEffect DEF Evict, PagingInv
  <2>10. ASSUME NEW f \in freePages, MapMissing(f) PROVE Store!Next
    <3>1. /\ pageTable' = Entered(access.page, PageEntry(f, FALSE, FALSE, access.pid))
          /\ access' = access
      BY <2>10 DEF MapMissing
    <3>2. pageTable'[access.page].pid = access'.pid
      BY <3>1, EnteredEffect
    <3> QED
      BY <2>4, <2>10, <3>2, EnteredEffect DEF MapMissing
  <2>11. ASSUME NEW f \in freePages, SwapIn(f) PROVE Store!Next
    BY <1>2, <2>1, <2>11, SwapInImplements
  <2>12. ASSUME NEW p \in Pids, Deallocate(p) PROVE FALSE
    <3>1. p \in Pids /\ stage'[p] = "gone"
      BY <2>12, Layout DEF Deallocate, PagingInv, TypeInv, PagingTypeOK
    <3> QED
      BY <1>2, <3>1 DEF NobodyGone
  <2> QED
    BY <2>3, <2>5, <2>6, <2>7, <2>8, <2>9, <2>10, <2>11, <2>12, Steps
       DEF Request, Illegal, Block, Fatal, Resume, pagingVars
<1> QED
  BY <1>1, <1>2

\* The memory implements PageStore, for programs whose stores stay in their
\* pages.
THEOREM PagingImplementsStore ==
    ASSUME StoresStay
    PROVE  Spec => StoreSpec
<1>1. Init => Store!Init
  <2>1. ASSUME Init PROVE Store!Init
    <3>1. TypeInv
      BY <2>1, InitType
    <3>2. /\ access.pid \in Pids
          /\ \A v \in Pages : StoreOf(v) \in Values \cup {Unknown}
          /\ \A v \in Pages : HolderOf(v) \in Pids \cup {Nobody}
      BY <3>1 DEF StoreOf, HolderOf, TypeInv, PagingTypeOK, Accesses, Entries, Resident, Frame,
                  Mapped
    <3> QED
      BY <3>2 DEF Store!Init, StoreOf, HolderOf
  <2> QED
    BY <2>1
<1>2. PagingInv /\ PagingInv' /\ [Next]_pagingVars => [Store!Next]_Store!storeVars
  BY StoreStep DEF PagingInv
<1> QED
  BY <1>1, <1>2, PagingAlways, PTL DEF Spec, StoreSpec, Store!Spec

=============================================================================
