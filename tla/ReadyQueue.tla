----------------------------- MODULE ReadyQueue -----------------------------
(***************************************************************************)
(* ProcessScheduler::readyQueue is a std::priority_queue of PCB pointers   *)
(* ordered by ComparePriority: a binary heap kept in a vector, with the    *)
(* highest priority at the front.  This module gives the two operations    *)
(* the scheduler calls, Push and Pop, as libstdc++ performs them on that   *)
(* vector (the README of the repository builds with g++).                  *)
(*                                                                         *)
(* The heap is a sequence q of process ids and prio the function that      *)
(* gives each process its CURRENT priority.  The queue holds pointers, so  *)
(* a priority that changes while its process is queued changes the keys of *)
(* the heap without moving anything: q and prio are separate arguments.    *)
(* Position 1 is the root and the parent of position i is i \div 2.        *)
(*                                                                         *)
(* libstdc++ sifts in loops.  Each loop moves along one path of the tree,  *)
(* and the operators below say for every position of the result where its  *)
(* element comes from; HeapLoops compares them with the loops.             *)
(***************************************************************************)
EXTENDS Integers, Sequences, FiniteSets

\* Mutant of Below: the lowest priority comes first.
Above(p1, p2, prio) == prio[p1] > prio[p2]

\* ComparePriority: p1 orders below p2.
Below(p1, p2, prio) == prio[p1] < prio[p2]

\* The positions from i up to the root.
Path[i \in Nat] == IF i = 0 THEN {} ELSE {i} \cup Path[i \div 2]

-----------------------------------------------------------------------------
(***************************************************************************)
(* push(x): x is appended at position n and rises along Path[n] past every *)
(* parent that orders below it.                                            *)
(***************************************************************************)

\* Mutant of Rises: x passes the one parent above it at most.
RisesOnce(q, x, prio, n, j) == j = n /\ n # 1 /\ Below(q[n \div 2], x, prio)

\* x rises from position j of the path: it passes every parent up to j's.
Rises(q, x, prio, n, j) ==
    /\ j \in Path[n] \ {1}
    /\ \A b \in Path[n] : b >= j => Below(q[b \div 2], x, prio)

Push(q, x, prio) ==
    LET n == Len(q) + 1
        Settles(j) == \/ j = n
                      \/ Rises(q, x, prio, n, 2 * j)
                      \/ Rises(q, x, prio, n, 2 * j + 1)
    IN  [j \in 1..n |-> IF Rises(q, x, prio, n, j) THEN q[j \div 2]
                        ELSE IF Settles(j) THEN x ELSE q[j]]

-----------------------------------------------------------------------------
(***************************************************************************)
(* pop(): the last element v leaves its place, a hole descends from the    *)
(* root to a leaf along the larger children of the m = n - 1 remaining     *)
(* positions, and v rises from that leaf along the same path.              *)
(***************************************************************************)
Top(q) == q[1]

\* Mutant of Preferred: the right sibling is never looked at.
PrefersLeft(q, prio, m, j) == j % 2 = 0

\* Mutant of Preferred: of equal siblings the left one.
PrefersLeftOfEqual(q, prio, m, j) ==
    IF j % 2 = 0 THEN j + 1 > m \/ ~Below(q[j], q[j + 1], prio)
                 ELSE Below(q[j - 1], q[j], prio)

\* The hole prefers j to its sibling; of equal siblings it takes the right.
Preferred(q, prio, m, j) ==
    IF j % 2 = 0 THEN j + 1 > m \/ Below(q[j + 1], q[j], prio)
                 ELSE ~Below(q[j], q[j - 1], prio)

\* The hole's way from the root to a leaf.
Descent(q, prio, m) ==
    {j \in 1..m : \A a \in Path[j] \ {1} : Preferred(q, prio, m, a)}

\* v rises past position j, whose element therefore stays where it was.
Stays(q, prio, m, j) ==
    /\ j # 1
    /\ \A d \in Descent(q, prio, m) : d >= j => Below(q[d], q[m + 1], prio)

Pop(q, prio) ==
    LET m       == Len(q) - 1
        D       == Descent(q, prio, m)
        MovesUp(c) == c \in D /\ ~Stays(q, prio, m, c)
    IN  [j \in 1..m |-> IF j \notin D \/ Stays(q, prio, m, j) THEN q[j]
                        ELSE IF MovesUp(2 * j) THEN q[2 * j]
                        ELSE IF MovesUp(2 * j + 1) THEN q[2 * j + 1]
                        ELSE q[m + 1]]

-----------------------------------------------------------------------------
\* No position orders above its parent: what keeps the root a maximum.
IsHeap(q, prio) ==
    \A i \in 2..Len(q) : ~Below(q[i \div 2], q[i], prio)

\* Where p stands in a queue.
Positions(p, queue) == {i \in 1..Len(queue) : queue[i] = p}

In(p, queue) == Positions(p, queue) # {}

=============================================================================
