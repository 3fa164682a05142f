----------------------------- MODULE HeapLoops -----------------------------
(***************************************************************************)
(* push and pop of the ready queue step by step, as the loops of libstdc++ *)
(* (bits/stl_heap.h) perform them.  A call opens a hole in the vector and  *)
(* moves it: push_heap upwards from the end, pop_heap downwards from the   *)
(* front to a leaf and upwards again; then the last element of the vector  *)
(* fills the hole.  ReadyQueue says in one step what comes out.            *)
(*                                                                         *)
(* The queue may hold a process twice, and a priority may change while its *)
(* process is queued, as both can in the kernel; nothing changes during a  *)
(* call, for there is one thread.                                          *)
(***************************************************************************)
EXTENDS ReadyQueue, SequencesExt

CONSTANTS
    Procs,       \* the processes
    Priorities,  \* their priorities
    MaxLen       \* bound on the length of the queue

VARIABLES
    queue,       \* the vector
    priority,    \* the current priority of each process
    loop,        \* where the call is: "push", "adjust" (down), "settle" (up), or "none"
    hole,        \* the position of the hole; 0 between the calls
    before       \* the vector as the call found it (push_back has appended its element)

heapVars == <<queue, priority, loop, hole, before>>

\* __value: both calls take the last element out of the vector.
value == before[Len(before)]

-----------------------------------------------------------------------------
Init ==
    /\ queue = <<>> /\ before = <<>>
    /\ priority \in [Procs -> Priorities]
    /\ loop = "none" /\ hole = 0

StartPush(p) ==
    /\ loop = "none" /\ Len(queue) < MaxLen
    /\ queue' = Append(queue, p) /\ before' = queue'
    /\ loop' = "push" /\ hole' = Len(queue')
    /\ UNCHANGED priority

\* A queue of one element has nothing to adjust.
PopOnly ==
    /\ loop = "none" /\ Len(queue) = 1
    /\ queue' = <<>>
    /\ UNCHANGED <<priority, loop, hole, before>>

StartPop ==
    /\ loop = "none" /\ Len(queue) > 1
    /\ before' = queue /\ queue' = Front(queue)
    /\ loop' = "adjust" /\ hole' = 1
    /\ UNCHANGED priority

MoveHole(to) ==
    /\ queue' = [queue EXCEPT ![hole] = queue[to]] /\ hole' = to
    /\ UNCHANGED <<priority, before>>

\* __adjust_heap, the loop: while the hole has two children.
Descend ==
    LET left == 2 * hole
        right == left + 1
    IN  /\ loop = "adjust" /\ right <= Len(queue)
        /\ MoveHole(IF Below(queue[right], queue[left], priority) THEN left ELSE right)
        /\ UNCHANGED loop

\* __adjust_heap, after the loop: an only child is the last element.
DescendLast ==
    /\ loop = "adjust" /\ 2 * hole = Len(queue)
    /\ MoveHole(2 * hole)
    /\ loop' = "settle"

AtLeaf ==
    /\ loop = "adjust" /\ 2 * hole > Len(queue)
    /\ loop' = "settle"
    /\ UNCHANGED <<queue, priority, hole, before>>

\* __push_heap, which ends both calls: past every parent that orders below.
Passes == hole > 1 /\ Below(queue[hole \div 2], value, priority)

Rise ==
    /\ loop \in {"push", "settle"} /\ Passes
    /\ MoveHole(hole \div 2)
    /\ UNCHANGED loop

Fill ==
    /\ loop \in {"push", "settle"} /\ ~Passes
    /\ queue' = [queue EXCEPT ![hole] = value]
    /\ loop' = "none" /\ hole' = 0 /\ before' = <<>>
    /\ UNCHANGED priority

ChangePriority(p, v) ==
    /\ loop = "none"
    /\ priority' = [priority EXCEPT ![p] = v]
    /\ UNCHANGED <<queue, loop, hole, before>>

Next ==
    \/ \E p \in Procs : StartPush(p)
    \/ PopOnly \/ StartPop
    \/ Descend \/ DescendLast \/ AtLeaf
    \/ Rise \/ Fill
    \/ \E p \in Procs, v \in Priorities : ChangePriority(p, v)

Spec == Init /\ [][Next]_heapVars

-----------------------------------------------------------------------------
(***************************************************************************)
(* Push and Pop of ReadyQueue leave the vector exactly as the loops do,    *)
(* also when a changed priority has spoilt the heap: the order in which    *)
(* the scheduler finds processes of equal or spoilt priority depends on    *)
(* it.                                                                     *)
(***************************************************************************)
SameAsLoops ==
    [][/\ Fill => queue' = IF loop = "push" THEN Push(Front(before), value, priority)
                                            ELSE Pop(before, priority)
       /\ PopOnly => queue' = Pop(queue, priority)]_heapVars

=============================================================================
