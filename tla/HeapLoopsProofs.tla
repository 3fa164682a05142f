-------------------------- MODULE HeapLoopsProofs --------------------------
(***************************************************************************)
(* The loops of the heap compute Push and Pop, for queues of any length    *)
(* and in any order: the loop invariants of push_heap and pop_heap.        *)
(***************************************************************************)
EXTENDS HeapLoops, ReadyQueueProofs

LoopTypeOK ==
    /\ queue \in Seq(Procs) /\ before \in Seq(Procs)
    /\ loop \in {"none", "push", "adjust", "settle"}
    /\ hole \in Nat

(***************************************************************************)
(* push_heap: the hole is on the path of the last position; the elements   *)
(* it has passed order below the new one and are one place down.           *)
(***************************************************************************)
Passed(n, j) == j \in Path[n] /\ j > hole

PushInv ==
    LET n == Len(before)
    IN  loop = "push" =>
            /\ n > 0 /\ Len(queue) = n /\ hole \in Path[n]
            /\ \A j \in 1..n \ {hole} :
                  queue[j] = IF Passed(n, j) THEN before[j \div 2] ELSE before[j]
            /\ \A j \in Path[n] : j > hole => Below(before[j \div 2], value, priority)

(***************************************************************************)
(* pop_heap: the hole is on the way down to a leaf, and above it each      *)
(* element of that way is one place up.  Whatever it leaves on its way     *)
(* back up orders below the last element.                                  *)
(***************************************************************************)
Way == Descent(before, priority, Len(before) - 1)

PopInv ==
    LET m == Len(before) - 1
    IN  loop \in {"adjust", "settle"} =>
            /\ m > 0 /\ Len(queue) = m /\ hole \in Way
            /\ \A c \in Path[hole] \ {1} : queue[c \div 2] = before[c]
            /\ \A j \in (1..m) \ Path[hole] : queue[j] = before[j]
            /\ loop = "settle" =>
                  \A d \in Way : d > hole => Below(before[d], value, priority)

LoopInv == LoopTypeOK /\ PushInv /\ PopInv

-----------------------------------------------------------------------------
\* What stands above a position of a path is on the path.
LEMMA PathClosed ==
    ASSUME NEW n \in Nat, NEW c \in Path[n]
    PROVE  c \in Nat /\ Path[c] \subseteq Path[n]
<1> DEFINE T == {k \in Nat : \A i \in Path[k] : Path[i] \subseteq Path[k]}
<1>1. 0 \in T
  BY PathStep
<1>2. ASSUME NEW k \in Nat \ {0}, k \div 2 \in T
      PROVE  k \in T
  <2>1. Path[k] = {k} \cup Path[k \div 2]
    BY PathStep
  <2> QED
    BY <1>2, <2>1
<1>3. Nat \subseteq T
  BY <1>1, <1>2, PathInduction
<1>4. c \in Nat
  BY PathBounds
<1> QED
  BY <1>3, <1>4

\* The way of the hole: what stands above one of its positions is on it, and
\* it is a path.
LEMMA WayIsPath ==
    ASSUME NEW q, NEW prio, NEW m \in Nat, NEW d \in Descent(q, prio, m)
    PROVE  /\ d \in 1..m
           /\ Path[d] \subseteq Descent(q, prio, m)
           /\ \A c \in Descent(q, prio, m) : c <= d => c \in Path[d]
           /\ \A c \in Descent(q, prio, m) : c < d => c <= d \div 2
<1> DEFINE D == Descent(q, prio, m)
<1>1. d \in 1..m /\ D \subseteq 1..m
  BY DescentStep
<1>2. ASSUME NEW c \in Path[d]
      PROVE  c \in D
  <2>1. c \in 1..m
    BY <1>1, PathBounds
  <2>2. Path[c] \subseteq Path[d]
    BY <1>1, PathClosed
  <2> QED
    BY <2>1, <2>2 DEF Descent
<1>3. \A c \in D : c <= d => c \in Path[d]
  BY DescentChain
<1>4. ASSUME NEW c \in D, c < d
      PROVE  c <= d \div 2
  <2>1. c \in Path[d] /\ d \in Path[d] /\ d \in Nat
    BY <1>1, <1>3, <1>4, PathBounds
  <2> QED
    BY <1>4, <2>1, PathChain
<1> QED
  BY <1>1, <1>2, <1>3, <1>4

\* A move of the hole writes one place of the vector.
LEMMA OnePlace ==
    ASSUME LoopTypeOK, hole \in 1..Len(queue), NEW e \in Procs
    PROVE  LET q == [queue EXCEPT ![hole] = e]
           IN  /\ q \in Seq(Procs) /\ Len(q) = Len(queue)
               /\ q[hole] = e
               /\ \A j \in 1..Len(queue) : j # hole => q[j] = queue[j]
  BY DEF LoopTypeOK

\* __value is one of the processes.
LEMMA ValueType ==
    ASSUME LoopTypeOK, Len(before) > 0
    PROVE  /\ value \in Procs /\ Len(before) \in Nat
           /\ Front(before) = [j \in 1..(Len(before) - 1) |-> before[j]]
           /\ Len(Front(before)) = Len(before) - 1
  BY DEF LoopTypeOK, value, Front

-----------------------------------------------------------------------------
(***************************************************************************)
(* The loops keep their invariants.                                        *)
(***************************************************************************)
LEMMA StartPushInv ==
    ASSUME LoopTypeOK, NEW p \in Procs, StartPush(p)
    PROVE  LoopInv'
<1> DEFINE n == Len(queue) + 1
<1>1. /\ queue' \in Seq(Procs) /\ Len(queue') = n /\ before' = queue'
      /\ n \in Nat \ {0} /\ hole' = n /\ loop' = "push"
  BY DEF StartPush, LoopTypeOK
<1>2. n \in Path[n] /\ Path[n] \subseteq 1..n
  BY <1>1, PathBounds
<1>3. LoopTypeOK' /\ PopInv'
  BY <1>1 DEF LoopTypeOK, PopInv
<1>4. PushInv'
  BY <1>1, <1>2 DEF PushInv, Passed
<1> QED
  BY <1>3, <1>4 DEF LoopInv

LEMMA StartPopInv ==
    ASSUME LoopTypeOK, StartPop
    PROVE  LoopInv'
<1> DEFINE m == Len(queue) - 1
<1>1. /\ queue' \in Seq(Procs) /\ Len(queue') = m /\ before' = queue
      /\ m \in Nat \ {0} /\ hole' = 1 /\ loop' = "adjust"
      /\ \A j \in 1..m : queue'[j] = queue[j]
  BY DEF StartPop, LoopTypeOK, Front
<1>2. 1 \in Descent(queue, priority', m)
  BY <1>1, DescentStep
<1>3. Path[1] = {1}
  BY PathStep, PathBounds
<1>4. LoopTypeOK' /\ PushInv'
  BY <1>1 DEF LoopTypeOK, PushInv
<1>5. PopInv'
  BY <1>1, <1>2, <1>3 DEF PopInv, Way
<1> QED
  BY <1>4, <1>5 DEF LoopInv

\* The hole moves to the child it prefers.
LEMMA DescendTo ==
    ASSUME LoopInv, loop = "adjust", NEW c \in Way, c \in 2..Len(queue), c \div 2 = hole,
           MoveHole(c), loop' \in {"adjust", "settle"},
           loop' = "settle" => 2 * hole >= Len(queue)
    PROVE  LoopInv'
<1> DEFINE m == Len(before) - 1
<1>1. /\ m \in Nat \ {0} /\ Len(queue) = m /\ hole \in Way
      /\ \A a \in Path[hole] \ {1} : queue[a \div 2] = before[a]
      /\ \A j \in (1..m) \ Path[hole] : queue[j] = before[j]
  BY DEF LoopInv, LoopTypeOK, PopInv
<1>2. hole \in 1..m /\ Path[hole] \subseteq 1..hole /\ c \in 1..m /\ c > hole
  BY <1>1, WayIsPath, PathBounds DEF Way
<1>3. Path[c] = {c} \cup Path[hole]
  <2>1. c \in Nat /\ c # 0 /\ c \div 2 = hole
    BY <1>2
  <2>2. Path[c] = IF c = 0 THEN {} ELSE {c} \cup Path[c \div 2]
    BY <2>1, PathStep
  <2> QED
    BY <2>1, <2>2
<1>4. queue[c] = before[c] /\ queue[c] \in Procs
  BY <1>1, <1>2 DEF LoopInv, LoopTypeOK
<1>5. /\ queue' \in Seq(Procs) /\ Len(queue') = m /\ queue'[hole] = before[c]
      /\ \A j \in 1..m : j # hole => queue'[j] = queue[j]
  BY <1>1, <1>2, <1>4, OnePlace DEF MoveHole, LoopInv
<1>6. hole' = c /\ before' = before /\ priority' = priority
  BY DEF MoveHole
<1>7. ASSUME NEW a \in Path[c] \ {1}
      PROVE  queue'[a \div 2] = before[a]
  <2>1. CASE a = c
    BY <1>5, <2>1
  <2>2. CASE a \in Path[hole]
    <3>1. a \in 2..hole /\ a \div 2 \in 1..m /\ a \div 2 # hole
      BY <1>2, <1>7, <2>2
    <3> QED
      BY <1>1, <1>5, <1>7, <2>2, <3>1
  <2> QED
    BY <1>3, <1>7, <2>1, <2>2
<1>8. ASSUME NEW j \in (1..m) \ Path[c]
      PROVE  queue'[j] = before[j]
  <2>1. j # hole
    BY <1>2, <1>3, <1>8, PathBounds
  <2> QED
    BY <1>1, <1>3, <1>5, <1>8, <2>1
<1>9. ASSUME loop' = "settle", NEW d \in Way, d > c
      PROVE  FALSE
  <2>1. d \in 1..m /\ c <= d \div 2
    BY <1>1, <1>9, WayIsPath DEF Way
  <2> QED
    BY <1>1, <1>2, <1>9, <2>1
<1>10. Way' = Way
  BY <1>6 DEF Way
<1>11. LoopTypeOK' /\ PushInv'
  BY <1>2, <1>5, <1>6 DEF LoopTypeOK, LoopInv, PushInv
<1>12. PopInv'
  BY <1>1, <1>5, <1>6, <1>7, <1>8, <1>9, <1>10 DEF PopInv
<1> QED
  BY <1>11, <1>12 DEF LoopInv

\* The children of a position.
LEMMA ChildrenOf ==
    ASSUME NEW h \in Nat \ {0}
    PROVE  /\ 2 * h \in Nat /\ 2 * h >= 2 /\ (2 * h) \div 2 = h /\ (2 * h) % 2 = 0
           /\ (2 * h + 1) \div 2 = h /\ (2 * h + 1) % 2 # 0 /\ (2 * h + 1) - 1 = 2 * h
  OBVIOUS

LEMMA DescendInv ==
    ASSUME LoopInv, Descend \/ DescendLast
    PROVE  LoopInv'
<1> DEFINE m == Len(before) - 1
<1>1. /\ loop = "adjust" /\ m \in Nat \ {0} /\ Len(queue) = m /\ hole \in Way
      /\ \A j \in (1..m) \ Path[hole] : queue[j] = before[j]
  <2>1. loop = "adjust"
    BY DEF Descend, DescendLast
  <2>2. /\ m > 0 /\ Len(queue) = m /\ hole \in Way
        /\ \A j \in (1..m) \ Path[hole] : queue[j] = before[j]
    BY <2>1 DEF LoopInv, PopInv
  <2>3. m \in Int
    BY DEF LoopInv, LoopTypeOK
  <2> QED
    BY <2>1, <2>2, <2>3
<1>2. hole \in 1..m /\ Path[hole] \subseteq 1..hole
  BY <1>1, WayIsPath, PathBounds DEF Way
<1>3. ASSUME NEW c \in 2..m, c \div 2 = hole
      PROVE  queue[c] = before[c] /\ (Preferred(before, priority, m, c) => c \in Way)
  <2>1. c \notin Path[hole]
    BY <1>2, <1>3
  <2> QED
    BY <1>1, <1>3, <2>1, DescentStep DEF Way
<1>4. CASE Descend /\ Below(queue[2 * hole + 1], queue[2 * hole], priority)
  <2>1. /\ 2 * hole \in 2..m /\ (2 * hole) \div 2 = hole /\ (2 * hole) % 2 = 0
        /\ 2 * hole + 1 \in 2..m /\ (2 * hole + 1) \div 2 = hole
    <3>1. 2 * hole + 1 <= m /\ hole \in Nat \ {0}
      BY <1>1, <1>2, <1>4 DEF Descend
    <3> QED
      BY <1>1, <3>1, ChildrenOf
  <2>2. Preferred(before, priority, m, 2 * hole)
    BY <1>3, <1>4, <2>1 DEF Preferred
  <2>3. 2 * hole \in Way
    BY <1>3, <2>1, <2>2
  <2>4. MoveHole(2 * hole) /\ loop' = "adjust"
    BY <1>1, <1>4 DEF Descend
  <2> QED
    BY <1>1, <2>1, <2>3, <2>4, DescendTo
<1>5. CASE Descend /\ ~Below(queue[2 * hole + 1], queue[2 * hole], priority)
  <2>1. /\ 2 * hole \in 2..m /\ (2 * hole) \div 2 = hole /\ (2 * hole + 1) - 1 = 2 * hole
        /\ 2 * hole + 1 \in 2..m /\ (2 * hole + 1) \div 2 = hole /\ (2 * hole + 1) % 2 # 0
    <3>1. 2 * hole + 1 <= m /\ hole \in Nat \ {0}
      BY <1>1, <1>2, <1>5 DEF Descend
    <3> QED
      BY <1>1, <3>1, ChildrenOf
  <2>2. Preferred(before, priority, m, 2 * hole + 1)
    BY <1>3, <1>5, <2>1 DEF Preferred
  <2>3. 2 * hole + 1 \in Way
    BY <1>3, <2>1, <2>2
  <2>4. MoveHole(2 * hole + 1) /\ loop' = "adjust"
    BY <1>1, <1>5 DEF Descend
  <2> QED
    BY <1>1, <2>1, <2>3, <2>4, DescendTo
<1>6. CASE DescendLast
  <2>1. 2 * hole \in 2..m /\ (2 * hole) \div 2 = hole /\ (2 * hole) % 2 = 0 /\ 2 * hole + 1 > m
    BY <1>1, <1>2, <1>6 DEF DescendLast
  <2>2. 2 * hole \in Way
    BY <1>3, <2>1 DEF Preferred
  <2>3. MoveHole(2 * hole) /\ loop' = "settle" /\ 2 * hole >= Len(queue)
    BY <1>1, <1>2, <1>6 DEF DescendLast
  <2> QED
    BY <1>1, <2>1, <2>2, <2>3, DescendTo
<1> QED
  BY <1>4, <1>5, <1>6

LEMMA AtLeafInv ==
    ASSUME LoopInv, AtLeaf
    PROVE  LoopInv'
<1> DEFINE m == Len(before) - 1
<1>1. m \in Nat \ {0} /\ Len(queue) = m /\ hole \in Way /\ 2 * hole > m
  BY DEF LoopInv, LoopTypeOK, PopInv, AtLeaf
<1>2. \A d \in Way : ~(d > hole)
  <2> SUFFICES ASSUME NEW d \in Way, d > hole PROVE FALSE
    OBVIOUS
  <2>1. d \in 1..m /\ hole \in 1..m /\ hole <= d \div 2
    BY <1>1, WayIsPath DEF Way
  <2> QED
    BY <1>1, <2>1
<1> QED
  BY <1>2 DEF AtLeaf, LoopInv, LoopTypeOK, PushInv, PopInv, Passed, Way, value

-----------------------------------------------------------------------------
\* The parent of the hole, when push_heap looks at it.
LEMMA PushParent ==
    ASSUME LoopInv, loop = "push"
    PROVE  /\ Len(before) \in Nat \ {0} /\ Len(queue) = Len(before)
           /\ hole \in 1..Len(before) /\ Path[Len(before)] \subseteq 1..Len(before)
           /\ hole > 1 => /\ hole \div 2 \in 1..(hole - 1) /\ hole \div 2 \in Path[Len(before)]
                          /\ queue[hole \div 2] = before[hole \div 2]
<1> DEFINE n == Len(before)
<1>1. /\ n \in Nat \ {0} /\ Len(queue) = n /\ hole \in Path[n]
      /\ \A j \in (1..n) \ {hole} :
            queue[j] = IF Passed(n, j) THEN before[j \div 2] ELSE before[j]
  BY DEF LoopInv, LoopTypeOK, PushInv
<1>2. Path[n] \subseteq 1..n
  BY <1>1, PathBounds
<1>3. ASSUME hole > 1
      PROVE  /\ hole \div 2 \in 1..(hole - 1) /\ hole \div 2 \in Path[n]
             /\ queue[hole \div 2] = before[hole \div 2]
  <2>1. hole \div 2 \in 1..(hole - 1) /\ hole \div 2 \in (1..n) \ {hole} /\ ~(hole \div 2 > hole)
    BY <1>1, <1>2, <1>3
  <2>2. hole \div 2 \in Path[n]
    BY <1>1, <1>2, <1>3, PathParent
  <2> QED
    BY <1>1, <2>1, <2>2 DEF Passed
<1> QED
  BY <1>1, <1>2, <1>3

\* The parent of the hole, when it goes back up.
LEMMA PopParent ==
    ASSUME LoopInv, loop = "settle"
    PROVE  /\ Len(before) - 1 \in Nat \ {0} /\ Len(queue) = Len(before) - 1
           /\ hole \in 1..Len(queue) /\ Path[hole] \subseteq 1..hole /\ hole \in Path[hole]
           /\ hole > 1 => /\ hole \div 2 \in 1..(hole - 1) /\ hole \div 2 \in Way
                          /\ queue[hole \div 2] = before[hole]
                          /\ Path[hole] = {hole} \cup Path[hole \div 2]
<1> DEFINE m == Len(before) - 1
<1>1. /\ m \in Nat \ {0} /\ Len(queue) = m /\ hole \in Way
      /\ \A c \in Path[hole] \ {1} : queue[c \div 2] = before[c]
  BY DEF LoopInv, LoopTypeOK, PopInv
<1>2. hole \in 1..m /\ Path[hole] \subseteq 1..hole /\ hole \in Path[hole]
  BY <1>1, WayIsPath, PathBounds DEF Way
<1>3. ASSUME hole > 1
      PROVE  /\ hole \div 2 \in 1..(hole - 1) /\ hole \div 2 \in Way
             /\ queue[hole \div 2] = before[hole]
             /\ Path[hole] = {hole} \cup Path[hole \div 2]
  <2>1. hole \div 2 \in 1..(hole - 1) /\ hole \in Path[hole] \ {1} /\ hole \in 2..m /\ hole # 0
    BY <1>2, <1>3
  <2>2. hole \div 2 \in Way
    BY <1>1, <2>1, DescentStep DEF Way
  <2>3. hole \in Nat
    BY <1>2
  <2>4. Path[hole] = IF hole = 0 THEN {} ELSE {hole} \cup Path[hole \div 2]
    BY <2>3, PathStep
  <2> QED
    BY <1>1, <2>1, <2>2, <2>4
<1> QED
  BY <1>1, <1>2, <1>3

LEMMA RisePushInv ==
    ASSUME LoopInv, Rise, loop = "push"
    PROVE  LoopInv'
<1> DEFINE n == Len(before)
           up == hole \div 2
<1>1. /\ n \in Nat \ {0} /\ Len(queue) = n /\ hole \in 1..n /\ hole > 1 /\ hole \in Path[n]
      /\ Path[n] \subseteq 1..n /\ up \in 1..(hole - 1) /\ up \in Path[n]
      /\ queue[up] = before[up]
  BY PushParent DEF Rise, Passes, LoopInv, PushInv
<1>2. /\ \A j \in (1..n) \ {hole} : queue[j] = IF Passed(n, j) THEN before[j \div 2] ELSE before[j]
      /\ \A j \in Path[n] : j > hole => Below(before[j \div 2], value, priority)
  BY DEF LoopInv, PushInv
<1>3. queue[up] \in Procs
  BY <1>1 DEF LoopInv, LoopTypeOK
<1>4. /\ queue' \in Seq(Procs) /\ Len(queue') = n /\ queue'[hole] = before[up]
      /\ \A j \in 1..n : j # hole => queue'[j] = queue[j]
  BY <1>1, <1>3, OnePlace DEF Rise, MoveHole, LoopInv
<1>5. /\ hole' = up /\ before' = before /\ priority' = priority /\ loop' = "push"
      /\ Below(before[up], value, priority)
  BY <1>1 DEF Rise, MoveHole, Passes
<1>6. \A j \in Path[n] : j > up => j = hole \/ j > hole
  <2> SUFFICES ASSUME NEW j \in Path[n], j > up, j < hole PROVE FALSE
    BY <1>1
  <2> QED
    BY <1>1, PathChain
<1>7. ASSUME NEW j \in (1..n) \ {up}
      PROVE  queue'[j] = IF j \in Path[n] /\ j > up THEN before[j \div 2] ELSE before[j]
  <2>1. CASE j = hole
    BY <1>1, <1>4, <2>1
  <2>2. CASE j # hole
    <3>1. queue'[j] = IF j \in Path[n] /\ j > hole THEN before[j \div 2] ELSE before[j]
      BY <1>2, <1>4, <1>7, <2>2 DEF Passed
    <3>2. j \in Path[n] => (j > up <=> j > hole)
      BY <1>1, <1>6, <1>7, <2>2
    <3> QED
      BY <3>1, <3>2
  <2> QED
    BY <2>1, <2>2
<1>8. ASSUME NEW j \in Path[n], j > up
      PROVE  Below(before[j \div 2], value, priority)
  BY <1>2, <1>5, <1>6, <1>8
<1>9. value' = value
  BY <1>5 DEF value
<1>10. LoopTypeOK' /\ PopInv'
  BY <1>1, <1>4, <1>5 DEF LoopTypeOK, LoopInv, PopInv
<1>11. PushInv'
  BY <1>1, <1>4, <1>5, <1>7, <1>8, <1>9 DEF PushInv, Passed
<1> QED
  BY <1>10, <1>11 DEF LoopInv

LEMMA RisePopInv ==
    ASSUME LoopInv, Rise, loop = "settle"
    PROVE  LoopInv'
<1> DEFINE m == Len(before) - 1
           up == hole \div 2
<1>1. /\ m \in Nat \ {0} /\ Len(queue) = m /\ hole \in 1..m /\ hole > 1
      /\ Path[hole] \subseteq 1..hole /\ up \in 1..(hole - 1) /\ up \in Way
      /\ queue[up] = before[hole] /\ Path[hole] = {hole} \cup Path[up]
  BY PopParent DEF Rise, Passes
<1>2. /\ hole \in Way
      /\ \A c \in Path[hole] \ {1} : queue[c \div 2] = before[c]
      /\ \A j \in (1..m) \ Path[hole] : queue[j] = before[j]
      /\ \A d \in Way : d > hole => Below(before[d], value, priority)
  BY DEF LoopInv, PopInv
<1>3. queue[up] \in Procs
  BY <1>1 DEF LoopInv, LoopTypeOK
<1>4. /\ queue' \in Seq(Procs) /\ Len(queue') = m /\ queue'[hole] = before[hole]
      /\ \A j \in 1..m : j # hole => queue'[j] = queue[j]
  BY <1>1, <1>3, OnePlace DEF Rise, MoveHole, LoopInv
<1>5. /\ hole' = up /\ before' = before /\ priority' = priority /\ loop' = "settle"
      /\ Below(before[hole], value, priority)
  BY <1>1 DEF Rise, MoveHole, Passes
<1>6. Path[up] \subseteq 1..up
  BY <1>1, PathBounds
<1>7. ASSUME NEW c \in Path[up] \ {1}
      PROVE  queue'[c \div 2] = before[c]
  <2>1. c \in 2..up /\ c \div 2 \in 1..m /\ c \div 2 # hole
    BY <1>1, <1>6, <1>7
  <2> QED
    BY <1>1, <1>2, <1>4, <1>7, <2>1
<1>8. ASSUME NEW j \in (1..m) \ Path[up]
      PROVE  queue'[j] = before[j]
  BY <1>1, <1>2, <1>4, <1>8
<1>9. ASSUME NEW d \in Way, d > up
      PROVE  Below(before[d], value, priority)
  <2>1. d \in 1..m /\ (d < hole => d <= up)
    BY <1>1, <1>2, <1>9, WayIsPath DEF Way
  <2> QED
    BY <1>1, <1>2, <1>5, <1>9, <2>1
<1>10. Way' = Way /\ value' = value
  BY <1>5 DEF Way, value
<1>11. LoopTypeOK' /\ PushInv'
  BY <1>1, <1>4, <1>5 DEF LoopTypeOK, LoopInv, PushInv
<1>12. PopInv'
  BY <1>1, <1>4, <1>5, <1>7, <1>8, <1>9, <1>10 DEF PopInv
<1> QED
  BY <1>11, <1>12 DEF LoopInv

LEMMA LoopStep ==
    ASSUME LoopInv, [Next]_heapVars
    PROVE  LoopInv'
<1>1. CASE \E p \in Procs : StartPush(p)
  BY <1>1, StartPushInv DEF LoopInv
<1>2. CASE PopOnly
  BY <1>2 DEF PopOnly, LoopInv, LoopTypeOK, PushInv, PopInv
<1>3. CASE StartPop
  BY <1>3, StartPopInv DEF LoopInv
<1>4. CASE Descend \/ DescendLast
  BY <1>4, DescendInv
<1>5. CASE AtLeaf
  BY <1>5, AtLeafInv
<1>6. CASE Rise
  BY <1>6, RisePushInv, RisePopInv DEF Rise
<1>7. CASE Fill
  <2>1. hole \in 1..Len(queue) /\ Len(before) > 0
    BY <1>7, PushParent, PopParent DEF Fill, LoopInv, LoopTypeOK
  <2>2. value \in Procs
    BY <2>1, ValueType DEF LoopInv
  <2>3. queue' \in Seq(Procs)
    BY <1>7, <2>1, <2>2, OnePlace DEF Fill, LoopInv
  <2> QED
    BY <1>7, <2>3 DEF Fill, LoopInv, LoopTypeOK, PushInv, PopInv
<1>8. CASE (\E p \in Procs, v \in Priorities : ChangePriority(p, v)) \/ UNCHANGED heapVars
  <2>1. CASE UNCHANGED heapVars
    BY <2>1 DEF heapVars, LoopInv, LoopTypeOK, PushInv, PopInv, Passed, Way, value
  <2>2. CASE \E p \in Procs, v \in Priorities : ChangePriority(p, v)
    BY <2>2 DEF ChangePriority, LoopInv, LoopTypeOK, PushInv, PopInv
  <2> QED
    BY <1>8, <2>1, <2>2
<1> QED
  BY <1>1, <1>2, <1>3, <1>4, <1>5, <1>6, <1>7, <1>8 DEF Next

-----------------------------------------------------------------------------
(***************************************************************************)
(* When a loop ends, its vector is what ReadyQueue says.                   *)
(***************************************************************************)
LEMMA PushDone ==
    ASSUME LoopInv, loop = "push", ~Passes
    PROVE  [queue EXCEPT ![hole] = value] = Push(Front(before), value, priority)
<1> DEFINE n == Len(before)
           q == Front(before)
           R(j) == Rises(q, value, priority, n, j)
           filled == [queue EXCEPT ![hole] = value]
<1>1. /\ n \in Nat \ {0} /\ Len(queue) = n /\ hole \in 1..n /\ hole \in Path[n]
      /\ Path[n] \subseteq 1..n
      /\ hole > 1 => /\ hole \div 2 \in 1..(hole - 1)
                     /\ ~Below(before[hole \div 2], value, priority)
  BY PushParent DEF LoopInv, PushInv, Passes
<1>2. /\ \A j \in (1..n) \ {hole} : queue[j] = IF Passed(n, j) THEN before[j \div 2] ELSE before[j]
      /\ \A j \in Path[n] : j > hole => Below(before[j \div 2], value, priority)
  BY DEF LoopInv, PushInv
<1>3. /\ value \in Procs /\ Len(q) + 1 = n
      /\ \A j \in 1..(n - 1) : q[j] = before[j]
  BY <1>1, ValueType DEF LoopInv
<1>4. \A j \in 2..n : j \div 2 \in 1..(n - 1)
  BY <1>1
<1>5. ASSUME NEW j \in Path[n], j > hole
      PROVE  R(j)
  <2>1. j \in 2..n
    BY <1>1, <1>5
  <2>2. ASSUME NEW b \in Path[n], b >= j
        PROVE  Below(q[b \div 2], value, priority)
    <3>1. b \in 2..n /\ b > hole
      BY <1>1, <1>5, <2>1, <2>2
    <3> QED
      BY <1>2, <1>3, <1>4, <3>1
  <2> QED
    BY <2>1, <2>2 DEF Rises
<1>6. ASSUME NEW j, R(j)
      PROVE  j \in Path[n] /\ j \in 2..n /\ j > hole
  <2>1. j \in Path[n] /\ j # 1 /\ \A b \in Path[n] : b >= j => Below(q[b \div 2], value, priority)
    BY <1>6 DEF Rises
  <2>2. j \in 2..n
    BY <1>1, <2>1
  <2>3. ~(hole >= j)
    <3> SUFFICES ASSUME hole >= j PROVE FALSE
      OBVIOUS
    <3>1. hole > 1 /\ hole \in 2..n
      BY <1>1, <2>2
    <3>2. Below(q[hole \div 2], value, priority) /\ q[hole \div 2] = before[hole \div 2]
      BY <1>1, <1>3, <1>4, <2>1, <3>1
    <3> QED
      BY <1>1, <3>1, <3>2
  <2> QED
    BY <1>1, <2>1, <2>2, <2>3
<1>7. hole = n \/ R(2 * hole) \/ R(2 * hole + 1)
  <2> SUFFICES ASSUME hole # n PROVE R(2 * hole) \/ R(2 * hole + 1)
    OBVIOUS
  <2>1. PICK c \in Path[n] : c # 1 /\ c \div 2 = hole
    BY <1>1, PathChild
  <2>2. c \in 1..n /\ c > hole /\ (c = 2 * hole \/ c = 2 * hole + 1)
    BY <1>1, <2>1
  <2> QED
    BY <1>5, <2>1, <2>2
<1>8. ASSUME NEW j \in 1..n, j # hole, ~R(j)
      PROVE  ~(j = n \/ R(2 * j) \/ R(2 * j + 1))
  <2>1. j # n
    BY <1>1, <1>5, <1>8, PathBounds
  <2>2. ASSUME NEW c \in {2 * j, 2 * j + 1}, R(c)
        PROVE  FALSE
    <3>1. c \in Path[n] /\ c > hole /\ c # 1 /\ c \div 2 = j
      BY <1>6, <2>2
    <3>2. j \in Path[n] /\ hole <= j
      BY <1>1, <3>1, PathParent, PathChain
    <3> QED
      BY <1>1, <1>5, <1>8, <3>2
  <2> QED
    BY <2>1, <2>2
<1>9. filled \in Seq(Procs) /\ Len(filled) = n /\ filled[hole] = value
      /\ \A j \in 1..n : j # hole => filled[j] = queue[j]
  BY <1>1, <1>3, OnePlace DEF LoopInv
<1>10. ASSUME NEW j \in 1..n
       PROVE  filled[j] = IF R(j) THEN q[j \div 2]
                          ELSE IF j = n \/ R(2 * j) \/ R(2 * j + 1) THEN value ELSE q[j]
  <2>1. CASE j = hole
    <3>1. ~R(j)
      BY <1>1, <1>6, <2>1
    <3> QED
      BY <1>7, <1>9, <2>1, <3>1
  <2>2. CASE j # hole /\ R(j)
    <3>1. j \in Path[n] /\ j > hole /\ j \in 2..n
      BY <1>6, <2>2
    <3>2. filled[j] = before[j \div 2]
      BY <1>2, <1>9, <2>2, <3>1 DEF Passed
    <3>3. q[j \div 2] = before[j \div 2]
      BY <1>3, <1>4, <3>1
    <3> QED
      BY <2>2, <3>2, <3>3
  <2>3. CASE j # hole /\ ~R(j)
    <3>1. ~(j = n \/ R(2 * j) \/ R(2 * j + 1)) /\ ~Passed(n, j)
      BY <1>5, <1>8, <2>3 DEF Passed
    <3>2. j \in 1..(n - 1)
      BY <1>1, <3>1
    <3> QED
      BY <1>2, <1>3, <1>9, <2>3, <3>1, <3>2
  <2> QED
    BY <2>1, <2>2, <2>3
<1>11. Push(q, value, priority)
         = [j \in 1..n |-> IF R(j) THEN q[j \div 2]
                           ELSE IF j = n \/ R(2 * j) \/ R(2 * j + 1) THEN value ELSE q[j]]
  BY <1>3 DEF Push
<1>12. filled = [j \in 1..n |-> filled[j]]
  BY <1>9
<1> QED
  BY <1>10, <1>11, <1>12

LEMMA PopDone ==
    ASSUME LoopInv, loop = "settle", ~Passes
    PROVE  [queue EXCEPT ![hole] = value] = Pop(before, priority)
<1> DEFINE m == Len(before) - 1
           S(j) == Stays(before, priority, m, j)
           Up(c) == c \in Way /\ ~S(c)
           filled == [queue EXCEPT ![hole] = value]
<1>1. /\ m \in Nat \ {0} /\ Len(queue) = m /\ hole \in 1..m
      /\ Path[hole] \subseteq 1..hole /\ hole \in Path[hole]
      /\ hole > 1 => ~Below(before[hole], value, priority)
  BY PopParent DEF Passes
<1>2. /\ hole \in Way
      /\ \A c \in Path[hole] \ {1} : queue[c \div 2] = before[c]
      /\ \A j \in (1..m) \ Path[hole] : queue[j] = before[j]
      /\ \A d \in Way : d > hole => Below(before[d], value, priority)
  BY DEF LoopInv, PopInv
<1>3. value = before[m + 1] /\ value \in Procs
  BY <1>1, ValueType DEF LoopInv, LoopTypeOK, value
<1>4. Way \subseteq 1..m
  BY <1>1, DescentStep DEF Way
<1>5. ASSUME NEW j \in Way
      PROVE  S(j) <=> j > hole
  <2>1. j > hole => S(j)
    BY <1>1, <1>2, <1>3, <1>4 DEF Stays, Way
  <2>2. ASSUME S(j), j <= hole PROVE FALSE
    <3>1. j # 1 /\ (hole >= j => Below(before[hole], before[m + 1], priority))
      BY <1>2, <2>2 DEF Stays, Way
    <3> QED
      BY <1>1, <1>3, <1>4, <2>2, <3>1
  <2> QED
    BY <1>1, <1>4, <2>1, <2>2
<1>6. \A c \in Nat : Up(c) <=> c \in Path[hole]
  BY <1>1, <1>2, <1>4, <1>5, WayIsPath DEF Way
<1>7. filled \in Seq(Procs) /\ Len(filled) = m /\ filled[hole] = value
      /\ \A j \in 1..m : j # hole => filled[j] = queue[j]
  BY <1>1, <1>3, OnePlace DEF LoopInv
<1>8. ASSUME NEW j \in 1..m
      PROVE  filled[j] = IF j \notin Way \/ S(j) THEN before[j]
                         ELSE IF Up(2 * j) THEN before[2 * j]
                         ELSE IF Up(2 * j + 1) THEN before[2 * j + 1]
                         ELSE before[m + 1]
  <2>1. CASE j \notin Way \/ S(j)
    <3>1. j \notin Path[hole] /\ j # hole
      BY <1>1, <1>6, <2>1
    <3> QED
      BY <1>2, <1>7, <2>1, <3>1
  <2>2. CASE j = hole
    <3>1. ~Up(2 * j) /\ ~Up(2 * j + 1) /\ ~S(j)
      BY <1>1, <1>2, <1>5, <1>6, <2>2
    <3> QED
      BY <1>2, <1>3, <1>7, <2>2, <3>1
  <2>3. CASE Up(j) /\ j # hole
    <3>1. j \in Path[hole]
      BY <1>6, <2>3
    <3>2. PICK c \in Path[hole] : c # 1 /\ c \div 2 = j
      BY <1>1, <2>3, <3>1, PathChild
    <3>3. c \in 2..m /\ (c = 2 * j \/ c = 2 * j + 1)
      BY <1>1, <3>2
    <3>4. Up(c)
      BY <1>6, <3>2, <3>3
    <3>5. filled[j] = before[c]
      BY <1>2, <1>7, <2>3, <3>2
    <3>6. c = 2 * j + 1 => ~Up(2 * j)
      <4> SUFFICES ASSUME c = 2 * j + 1, Up(2 * j) PROVE FALSE
        OBVIOUS
      <4>1. 2 * j \in 2..m /\ 2 * j + 1 \in 2..m /\ 2 * j + 1 <= m
        BY <1>1, <3>3
      <4>2. Preferred(before, priority, m, 2 * j) /\ Preferred(before, priority, m, 2 * j + 1)
        BY <1>1, <3>4, <4>1, DescentStep DEF Way
      <4> QED
        BY <1>1, <4>1, <4>2, OnePreferred
    <3> QED
      BY <2>3, <3>3, <3>4, <3>5, <3>6
  <2> QED
    BY <2>1, <2>2, <2>3
<1>9. Pop(before, priority)
        = [j \in 1..m |-> IF j \notin Way \/ S(j) THEN before[j]
                          ELSE IF Up(2 * j) THEN before[2 * j]
                          ELSE IF Up(2 * j + 1) THEN before[2 * j + 1]
                          ELSE before[m + 1]]
  BY DEF Pop, Way
<1>10. filled = [j \in 1..m |-> filled[j]]
  BY <1>7
<1> HIDE DEF filled, Up, S
<1>11. filled = Pop(before, priority)
  BY <1>8, <1>9, <1>10
<1> QED
  BY <1>11 DEF filled

(***************************************************************************)
(* What the scheduler's push and pop do in loops is what Push and Pop say, *)
(* for every number of processes, every priority and queues of any length. *)
(***************************************************************************)
THEOREM LoopsComputePushAndPop == Spec => SameAsLoops
<1>1. Init => LoopInv
  BY DEF Init, LoopInv, LoopTypeOK, PushInv, PopInv
<1>2. LoopInv /\ [Next]_heapVars => LoopInv'
  BY LoopStep
<1>3. LoopInv /\ [Next]_heapVars
        => [/\ Fill => queue' = IF loop = "push" THEN Push(Front(before), value, priority)
                                                 ELSE Pop(before, priority)
            /\ PopOnly => queue' = Pop(queue, priority)]_heapVars
  <2> SUFFICES ASSUME LoopInv
               PROVE  /\ Fill => queue' = IF loop = "push" THEN Push(Front(before), value, priority)
                                                           ELSE Pop(before, priority)
                      /\ PopOnly => queue' = Pop(queue, priority)
    OBVIOUS
  <2>1. Fill => queue' = IF loop = "push" THEN Push(Front(before), value, priority)
                                          ELSE Pop(before, priority)
    BY PushDone, PopDone DEF Fill
  <2>2. PopOnly => queue' = Pop(queue, priority)
    <3> SUFFICES ASSUME PopOnly PROVE <<>> = Pop(queue, priority)
      BY DEF PopOnly
    <3>1. queue \in Seq(Procs) /\ Len(queue) = 1
      BY DEF PopOnly, LoopInv, LoopTypeOK
    <3>2. queue # <<>> /\ Len(queue) - 1 = 0
      BY <3>1
    <3>3. Pop(queue, priority) \in Seq(Procs)
      BY <3>1, <3>2, PopType
    <3>4. DOMAIN Pop(queue, priority) = 1..0
      BY <3>2 DEF Pop
    <3>5. Len(Pop(queue, priority)) = 0
      BY <3>3, <3>4
    <3> QED
      BY <3>3, <3>5
  <2> QED
    BY <2>1, <2>2
<1> QED
  BY <1>1, <1>2, <1>3, PTL DEF Spec, SameAsLoops

=============================================================================
