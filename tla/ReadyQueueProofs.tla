-------------------------- MODULE ReadyQueueProofs --------------------------
(***************************************************************************)
(* What push and pop of the ready queue do, for queues of any length: they *)
(* lose no process and invent none, and they keep a heap a heap.  The      *)
(* proofs go by induction along the paths of the tree, which rests on the  *)
(* least-number principle below.                                           *)
(***************************************************************************)
EXTENDS ReadyQueue, FiniteSetTheorems, WellFoundedInduction, TLAPS

-----------------------------------------------------------------------------
\* Every nonempty set of natural numbers has a least element.
LEMMA LeastNumber ==
    ASSUME NEW T \in SUBSET Nat, T # {}
    PROVE  \E x \in T : \A y \in T : x <= y
<1>1. \A x, y \in Nat : x < y => <<x, y>> \in OpToRel(<, Nat)
  BY Zenon DEF OpToRel
<1>2. PICK x \in T : \A y \in T : <<y, x>> \notin OpToRel(<, Nat)
  BY NatLessThanWellFounded, WFMin
<1>3. \A y \in T : ~(y < x)
  BY <1>1, <1>2, Zenon
<1> QED
  BY <1>3

\* Every nonempty set of numbers up to n has a greatest element.
LEMMA GreatestNumber ==
    ASSUME NEW n \in Nat, NEW T \in SUBSET (0..n), T # {}
    PROVE  \E x \in T : \A y \in T : y <= x
<1> DEFINE Below_n == {n - y : y \in T}
<1>1. Below_n \in SUBSET Nat /\ Below_n # {}
  <2>1. \A y \in T : n - y \in Nat
    OBVIOUS
  <2> QED
    BY <2>1
<1>2. PICK z \in Below_n : \A y \in Below_n : z <= y
  BY <1>1, LeastNumber
<1>3. PICK x \in T : z = n - x
  BY <1>2
<1>4. ASSUME NEW y \in T PROVE y <= x
  <2>1. n - y \in Below_n
    OBVIOUS
  <2>2. n - x <= n - y
    BY <1>2, <1>3, <2>1
  <2> QED
    BY <2>2
<1> QED
  BY <1>4

-----------------------------------------------------------------------------
(***************************************************************************)
(* The recursion that defines Path has a solution.                         *)
(***************************************************************************)
LEMMA PathExists ==
    \E f : f = [i \in Nat |-> IF i = 0 THEN {} ELSE {i} \cup f[i \div 2]]
<1> DEFINE Solves(h, n) == h = [i \in 0..n |-> IF i = 0 THEN {} ELSE {i} \cup h[i \div 2]]
           Solution(n) == CHOOSE h : Solves(h, n)
           f == [i \in Nat |-> Solution(i)[i]]
<1>1. \A i \in Nat \ {0} : i \div 2 \in Nat /\ i \div 2 < i
  OBVIOUS
<1>2. ASSUME NEW n \in Nat, NEW h, Solves(h, n), NEW i \in 0..n
      PROVE  h[i] = IF i = 0 THEN {} ELSE {i} \cup h[i \div 2]
  <2> DEFINE g == [k \in 0..n |-> IF k = 0 THEN {} ELSE {k} \cup h[k \div 2]]
  <2>1. h = g
    BY <1>2
  <2>2. g[i] = IF i = 0 THEN {} ELSE {i} \cup h[i \div 2]
    OBVIOUS
  <2> HIDE DEF g
  <2> QED
    BY <2>1, <2>2
<1>3. \A n \in Nat : \E h : Solves(h, n)
  <2> DEFINE T == {n \in Nat : ~\E h : Solves(h, n)}
  <2> SUFFICES ASSUME T # {} PROVE FALSE
    OBVIOUS
  <2>1. T \in SUBSET Nat
    OBVIOUS
  <2>2. PICK n \in T : \A y \in T : n <= y
    BY <2>1, LeastNumber
  <2>3. CASE n = 0
    <3> DEFINE h0 == [i \in 0..0 |-> {}]
    <3>1. h0 = [i \in 0..0 |-> IF i = 0 THEN {} ELSE {i} \cup h0[i \div 2]]
      OBVIOUS
    <3> HIDE DEF h0
    <3> QED
      BY <2>2, <2>3, <3>1
  <2>4. CASE n # 0
    <3>1. n \in Nat /\ n - 1 \in Nat /\ n - 1 \notin T
      <4>1. n \in Nat
        BY <2>1
      <4>2. n - 1 \in Nat /\ ~(n <= n - 1)
        BY <4>1, <2>4
      <4> HIDE DEF T
      <4> QED
        BY <2>2, <4>1, <4>2
    <3>2. PICK h : Solves(h, n - 1)
      BY <3>1
    <3> DEFINE g == [i \in 0..n |-> IF i = n THEN {n} \cup h[n \div 2] ELSE h[i]]
    <3>3. ASSUME NEW i \in 0..n
          PROVE  g[i] = IF i = 0 THEN {} ELSE {i} \cup g[i \div 2]
      <4>1. CASE i = n
        <5>1. n \div 2 \in 0..n /\ n \div 2 # n
          BY <2>4, <3>1, <1>1
        <5>2. g[n \div 2] = h[n \div 2] /\ g[n] = {n} \cup h[n \div 2]
          BY <5>1, <3>1
        <5> QED
          BY <4>1, <5>2, <2>4
      <4>2. CASE i # n
        <5>1. i \in 0..(n - 1) /\ g[i] = h[i]
          BY <4>2, <3>1
        <5>2. h[i] = IF i = 0 THEN {} ELSE {i} \cup h[i \div 2]
          BY <1>2, <3>1, <3>2, <5>1
        <5>3. i # 0 => i \div 2 \in 0..n /\ i \div 2 # n
          BY <1>1, <5>1, <3>1
        <5>4. i # 0 => g[i \div 2] = h[i \div 2]
          BY <5>3
        <5> QED
          BY <5>1, <5>2, <5>4
      <4> QED
        BY <4>1, <4>2
    <3>4. Solves(g, n)
      <4>1. g = [i \in 0..n |-> g[i]]
        OBVIOUS
      <4> HIDE DEF g
      <4> QED
        BY <3>3, <4>1
    <3> QED
      BY <3>4, <2>2
  <2> QED
    BY <2>3, <2>4
<1>4. ASSUME NEW n \in Nat, NEW m \in Nat, NEW g, NEW h, Solves(g, n), Solves(h, m)
      PROVE  \A i \in Nat : i <= n /\ i <= m => g[i] = h[i]
  <2> DEFINE T == {i \in Nat : i <= n /\ i <= m /\ g[i] # h[i]}
  <2> SUFFICES ASSUME T # {} PROVE FALSE
    OBVIOUS
  <2>1. T \in SUBSET Nat
    OBVIOUS
  <2>2. PICK i \in T : \A y \in T : i <= y
    BY <2>1, LeastNumber
  <2>3. i \in 0..n /\ i \in 0..m /\ g[i] # h[i]
    BY <2>2
  <2>4. /\ g[i] = IF i = 0 THEN {} ELSE {i} \cup g[i \div 2]
        /\ h[i] = IF i = 0 THEN {} ELSE {i} \cup h[i \div 2]
    BY <1>2, <1>4, <2>3
  <2>5. i # 0 /\ i \in Nat
    BY <2>3, <2>4
  <2>6. i \div 2 \in Nat /\ i \div 2 < i
    BY <2>5, <1>1
  <2>7. i \div 2 \notin T
    BY <2>2, <2>5, <2>6
  <2>8. g[i \div 2] = h[i \div 2]
    BY <2>3, <2>6, <2>7
  <2> QED
    BY <2>3, <2>4, <2>8
<1>5. \A n \in Nat : Solves(Solution(n), n)
  BY <1>3
<1>6. ASSUME NEW i \in Nat
      PROVE  f[i] = IF i = 0 THEN {} ELSE {i} \cup f[i \div 2]
  <2>1. f[i] = Solution(i)[i]
    OBVIOUS
  <2>2. Solution(i)[i] = IF i = 0 THEN {} ELSE {i} \cup Solution(i)[i \div 2]
    <3> HIDE DEF Solution, Solves
    <3> QED
      BY <1>2, <1>5
  <2>3. ASSUME i # 0
        PROVE  Solution(i)[i \div 2] = Solution(i \div 2)[i \div 2]
    <3>1. i \div 2 \in Nat /\ i \div 2 <= i /\ i \div 2 <= i \div 2
      BY <2>3, <1>1
    <3> HIDE DEF Solution, Solves
    <3> QED
      BY <1>4, <1>5, <3>1
  <2>4. i # 0 => f[i \div 2] = Solution(i \div 2)[i \div 2]
    BY <1>1
  <2> HIDE DEF Solution, Solves, f
  <2> QED
    BY <2>1, <2>2, <2>3, <2>4
<1>7. f = [i \in Nat |-> f[i]]
  OBVIOUS
<1> HIDE DEF f
<1>8. f = [i \in Nat |-> IF i = 0 THEN {} ELSE {i} \cup f[i \div 2]]
  BY <1>6, <1>7
<1> QED
  BY <1>8

\* How the path of i is made from that of its parent.
LEMMA PathStep ==
    ASSUME NEW i \in Nat
    PROVE  Path[i] = IF i = 0 THEN {} ELSE {i} \cup Path[i \div 2]
<1> DEFINE g == [k \in Nat |-> IF k = 0 THEN {} ELSE {k} \cup Path[k \div 2]]
<1>1. Path = g
  BY PathExists, Zenon DEF Path
<1>2. g[i] = IF i = 0 THEN {} ELSE {i} \cup Path[i \div 2]
  OBVIOUS
<1> HIDE DEF g
<1> QED
  BY <1>1, <1>2

\* Induction along the paths: what holds of 0 and passes from the parent to its
\* children holds of every position.
LEMMA PathInduction ==
    ASSUME NEW T, 0 \in T, \A n \in Nat \ {0} : n \div 2 \in T => n \in T
    PROVE  Nat \subseteq T
<1> DEFINE Missing == {n \in Nat : n \notin T}
<1> SUFFICES ASSUME Missing # {} PROVE FALSE
  OBVIOUS
<1>1. Missing \in SUBSET Nat
  OBVIOUS
<1>2. PICK n \in Missing : \A y \in Missing : n <= y
  BY <1>1, LeastNumber
<1>3. n \in Nat \ {0} /\ n \notin T
  BY <1>2
<1>4. n \div 2 \in Nat /\ ~(n <= n \div 2)
  BY <1>3
<1>5. n \div 2 \in T
  BY <1>2, <1>4
<1> QED
  BY <1>3, <1>5

\* The path of a position starts with it and stays above it.
LEMMA PathBounds ==
    ASSUME NEW n \in Nat
    PROVE  /\ Path[n] \subseteq 1..n
           /\ n # 0 => n \in Path[n]
<1> DEFINE T == {k \in Nat : Path[k] \subseteq 1..k}
<1>1. 0 \in T
  BY PathStep
<1>2. ASSUME NEW k \in Nat \ {0}, k \div 2 \in T
      PROVE  k \in T
  <2>1. Path[k] = {k} \cup Path[k \div 2]
    BY PathStep
  <2>2. k \div 2 <= k
    OBVIOUS
  <2> QED
    BY <1>2, <2>1, <2>2
<1>3. Nat \subseteq T
  BY <1>1, <1>2, PathInduction
<1>4. n # 0 => n \in Path[n]
  BY PathStep
<1> QED
  BY <1>3, <1>4

\* A path goes up to the root.
LEMMA PathParent ==
    ASSUME NEW n \in Nat, NEW j \in Path[n], j # 1
    PROVE  j \div 2 \in Path[n]
<1> DEFINE T == {k \in Nat : \A i \in Path[k] : i # 1 => i \div 2 \in Path[k]}
<1>1. 0 \in T
  BY PathStep
<1>2. ASSUME NEW k \in Nat \ {0}, k \div 2 \in T
      PROVE  k \in T
  <2>1. Path[k] = {k} \cup Path[k \div 2]
    BY PathStep
  <2>2. k # 1 => k \div 2 \in Path[k \div 2]
    <3>1. k # 1 => k \div 2 \in Nat \ {0}
      OBVIOUS
    <3> QED
      BY <3>1, PathBounds
  <2> QED
    BY <1>2, <2>1, <2>2
<1>3. Nat \subseteq T
  BY <1>1, <1>2, PathInduction
<1> QED
  BY <1>3

\* Below every position of a path but its first there is a child on the path.
LEMMA PathChild ==
    ASSUME NEW n \in Nat, NEW j \in Path[n], j # n
    PROVE  \E c \in Path[n] : c # 1 /\ c \div 2 = j
<1> DEFINE T == {k \in Nat : \A i \in Path[k] : i # k => \E c \in Path[k] : c # 1 /\ c \div 2 = i}
<1>1. 0 \in T
  BY PathStep
<1>2. ASSUME NEW k \in Nat \ {0}, k \div 2 \in T
      PROVE  k \in T
  <2>1. Path[k] = {k} \cup Path[k \div 2]
    BY PathStep
  <2>2. k = 1 => Path[k] = {k}
    BY <2>1, PathBounds
  <2> QED
    BY <1>2, <2>1, <2>2
<1>3. Nat \subseteq T
  BY <1>1, <1>2, PathInduction
<1> QED
  BY <1>3

\* Of two positions of a path the smaller is an ancestor of the larger.
LEMMA PathChain ==
    ASSUME NEW n \in Nat, NEW a \in Path[n], NEW b \in Path[n], a < b
    PROVE  a <= b \div 2
<1> DEFINE T == {k \in Nat : \A i, j \in Path[k] : i < j => i <= j \div 2}
<1>1. 0 \in T
  BY PathStep
<1>2. ASSUME NEW k \in Nat \ {0}, k \div 2 \in T
      PROVE  k \in T
  <2>1. Path[k] = {k} \cup Path[k \div 2]
    BY PathStep
  <2>2. k \div 2 \in Nat /\ k \div 2 < k /\ Path[k \div 2] \subseteq 1..(k \div 2)
    BY PathBounds
  <2>3. ASSUME NEW i \in Path[k], NEW j \in Path[k], i < j
        PROVE  i <= j \div 2
    <3>1. CASE j = k
      BY <2>1, <2>2, <2>3, <3>1
    <3>2. CASE j # k
      BY <1>2, <2>1, <2>2, <2>3, <3>2
    <3> QED
      BY <3>1, <3>2
  <2> QED
    BY <2>3
<1>3. Nat \subseteq T
  BY <1>1, <1>2, PathInduction
<1> QED
  BY <1>3

-----------------------------------------------------------------------------
\* Pushing a process keeps the ready queue a sequence of processes.
LEMMA PushType ==
    ASSUME NEW S, NEW q \in Seq(S), NEW x \in S, NEW prio
    PROVE  /\ Push(q, x, prio) \in Seq(S)
           /\ Len(Push(q, x, prio)) = Len(q) + 1
<1> DEFINE n == Len(q) + 1
           Ends(j) == \/ j = n
                         \/ Rises(q, x, prio, n, 2 * j)
                         \/ Rises(q, x, prio, n, 2 * j + 1)
           elem(j) == IF Rises(q, x, prio, n, j) THEN q[j \div 2]
                      ELSE IF Ends(j) THEN x ELSE q[j]
<1>1. Len(q) \in Nat /\ n \in Nat
  OBVIOUS
<1>2. \A j \in 1..n : elem(j) \in S
  <2> SUFFICES ASSUME NEW j \in 1..n PROVE elem(j) \in S
    OBVIOUS
  <2>1. CASE Rises(q, x, prio, n, j)
    <3>1. j # 1
      BY <2>1 DEF Rises
    <3>2. j \div 2 \in 1..Len(q)
      BY <3>1, <1>1
    <3> QED
      BY <2>1, <3>2
  <2>2. CASE ~Rises(q, x, prio, n, j) /\ Ends(j)
    BY <2>2
  <2>3. CASE ~Rises(q, x, prio, n, j) /\ ~Ends(j)
    <3>1. j \in 1..Len(q)
      BY <2>3, <1>1
    <3> QED
      BY <2>3, <3>1
  <2> QED
    BY <2>1, <2>2, <2>3
<1>3. Push(q, x, prio) = [j \in 1..n |-> elem(j)]
  BY DEF Push
<1> HIDE DEF elem
<1> QED
  BY <1>1, <1>2, <1>3

\* Popping keeps it one.
LEMMA PopType ==
    ASSUME NEW S, NEW q \in Seq(S), q # <<>>, NEW prio
    PROVE  Pop(q, prio) \in Seq(S)
<1> DEFINE m == Len(q) - 1
           D == Descent(q, prio, m)
           MovesUp(c) == c \in D /\ ~Stays(q, prio, m, c)
           elem(j) == IF j \notin D \/ Stays(q, prio, m, j) THEN q[j]
                      ELSE IF MovesUp(2 * j) THEN q[2 * j]
                      ELSE IF MovesUp(2 * j + 1) THEN q[2 * j + 1]
                      ELSE q[m + 1]
<1>1. Len(q) \in Nat /\ m \in Nat /\ Len(q) = m + 1
  OBVIOUS
<1>2. D \subseteq 1..m
  BY DEF Descent
<1>3. \A j \in 1..m : elem(j) \in S
  BY <1>1, <1>2
<1>4. Pop(q, prio) = [j \in 1..m |-> elem(j)]
  BY DEF Pop
<1> HIDE DEF elem
<1> QED
  BY <1>1, <1>3, <1>4

\* The front of a nonempty queue is one of its processes.
LEMMA TopType ==
    ASSUME NEW S, NEW q \in Seq(S), q # <<>>
    PROVE  Top(q) \in S
BY DEF Top

-----------------------------------------------------------------------------
(***************************************************************************)
(* push: x rises along the path of the new position.                       *)
(***************************************************************************)

\* Whether x, or the element of the child it pushes down, comes to position j.
Settles(q, x, prio, n, j) ==
    \/ j = n
    \/ Rises(q, x, prio, n, 2 * j)
    \/ Rises(q, x, prio, n, 2 * j + 1)

\* Where the element at position j of the pushed queue was in Append(q, x).
PushSource(q, x, prio, j) ==
    LET n == Len(q) + 1
    IN  IF Rises(q, x, prio, n, j) THEN j \div 2
        ELSE IF Settles(q, x, prio, n, j) THEN n ELSE j

\* Push moves the entries of the longer queue.
LEMMA PushIsMove ==
    ASSUME NEW S, NEW q \in Seq(S), NEW x \in S, NEW prio
    PROVE  /\ Len(Push(q, x, prio)) = Len(q) + 1
           /\ \A j \in 1..(Len(q) + 1) :
                 /\ PushSource(q, x, prio, j) \in 1..(Len(q) + 1)
                 /\ Push(q, x, prio)[j] = Append(q, x)[PushSource(q, x, prio, j)]
<1> DEFINE n == Len(q) + 1
           elem(j) == IF Rises(q, x, prio, n, j) THEN q[j \div 2]
                      ELSE IF Settles(q, x, prio, n, j) THEN x ELSE q[j]
<1>1. Len(q) \in Nat /\ n \in Nat
  OBVIOUS
<1>2. Push(q, x, prio) = [j \in 1..n |-> elem(j)]
  BY DEF Push, Settles
<1>3. Len(Push(q, x, prio)) = n
  <2> HIDE DEF elem
  <2> QED
    BY <1>1, <1>2
<1>4. ASSUME NEW j \in 1..n
      PROVE  /\ PushSource(q, x, prio, j) \in 1..n
             /\ elem(j) = Append(q, x)[PushSource(q, x, prio, j)]
  <2>1. CASE Rises(q, x, prio, n, j)
    <3>1. j # 1
      BY <2>1 DEF Rises
    <3>2. j \div 2 \in 1..Len(q)
      BY <1>1, <3>1
    <3> QED
      BY <2>1, <3>2 DEF PushSource
  <2>2. CASE ~Rises(q, x, prio, n, j) /\ Settles(q, x, prio, n, j)
    BY <2>2, <1>1 DEF PushSource
  <2>3. CASE ~Rises(q, x, prio, n, j) /\ ~Settles(q, x, prio, n, j)
    <3>1. j \in 1..Len(q)
      BY <2>3, <1>1 DEF Settles
    <3> QED
      BY <2>3, <3>1 DEF PushSource
  <2> QED
    BY <2>1, <2>2, <2>3
<1> HIDE DEF elem
<1> QED
  BY <1>2, <1>3, <1>4

\* A position whose child rises is on the path; if it does not rise itself, x
\* stops there.
LEMMA RisesUpwards ==
    ASSUME NEW q, NEW x, NEW prio, NEW n \in Nat, NEW c \in Nat, Rises(q, x, prio, n, c)
    PROVE  /\ c \in Path[n] /\ c \in 2..n /\ c \div 2 \in Path[n]
           /\ \A b \in Path[n] : b >= c => Rises(q, x, prio, n, b)
<1>1. c \in Path[n] /\ c # 1
  BY DEF Rises
<1>2. Path[n] \subseteq 1..n
  BY PathBounds
<1>3. c \div 2 \in Path[n]
  BY <1>1, PathParent
<1>4. ASSUME NEW b \in Path[n], b >= c
      PROVE  Rises(q, x, prio, n, b)
  <2>1. b \in 1..n /\ c \in 2..n
    BY <1>1, <1>2
  <2>2. b # 1
    BY <1>4, <2>1
  <2>3. \A a \in Path[n] : a >= b => a >= c
    BY <1>2, <1>4, <2>1
  <2> QED
    BY <2>2, <2>3 DEF Rises
<1> QED
  BY <1>1, <1>2, <1>3, <1>4

\* No two positions take the same element.
LEMMA PushSourceInjective ==
    ASSUME NEW S, NEW q \in Seq(S), NEW x \in S, NEW prio,
           NEW j \in 1..(Len(q) + 1), NEW k \in 1..(Len(q) + 1),
           PushSource(q, x, prio, j) = PushSource(q, x, prio, k)
    PROVE  j = k
<1> DEFINE n == Len(q) + 1
           R(i) == Rises(q, x, prio, n, i)
           Child(i, c) == c \in Nat /\ R(c) /\ c \div 2 = i
<1>1. n \in Nat /\ n >= 1
  OBVIOUS
<1>2. ASSUME NEW a \in 1..n, NEW b \in 1..n, a < b,
             PushSource(q, x, prio, a) = PushSource(q, x, prio, b)
      PROVE  FALSE
  <2>1. \A i \in 1..n : R(i) => i \in Path[n] /\ i \in 2..n
    BY <1>1, RisesUpwards
  <2>2. \A i \in 1..n : ~R(i) /\ Settles(q, x, prio, n, i) => i = n \/ \E c \in 2..n : R(c) /\ c \div 2 = i
    <3> SUFFICES ASSUME NEW i \in 1..n, ~R(i), Settles(q, x, prio, n, i), i # n
                 PROVE  \E c \in 2..n : R(c) /\ c \div 2 = i
      OBVIOUS
    <3>1. PICK c \in {2 * i, 2 * i + 1} : R(c)
      BY DEF Settles
    <3>2. c \in 2..n
      BY <1>1, <3>1, RisesUpwards
    <3> QED
      BY <3>1, <3>2
  <2>3. CASE R(a) /\ R(b)
    <3>1. a \div 2 = b \div 2
      BY <1>2, <2>3 DEF PushSource
    <3>2. a <= b \div 2
      BY <1>1, <1>2, <2>1, <2>3, PathChain
    <3> QED
      BY <2>1, <2>3, <3>1, <3>2
  <2>4. CASE ~R(a) /\ ~R(b)
    <3>1. CASE ~Settles(q, x, prio, n, a) /\ ~Settles(q, x, prio, n, b)
      BY <1>2, <2>4, <3>1 DEF PushSource
    <3>2. CASE Settles(q, x, prio, n, a) # Settles(q, x, prio, n, b)
      BY <1>2, <2>4, <3>2 DEF PushSource, Settles
    <3>3. CASE Settles(q, x, prio, n, a) /\ Settles(q, x, prio, n, b)
      <4>1. PICK c \in 2..n : R(c) /\ c \div 2 = a
        BY <1>1, <1>2, <2>2, <2>4, <3>3
      <4>2. b \in Path[n]
        <5>1. CASE b = n
          BY <5>1, <1>1, PathBounds
        <5>2. CASE b # n
          <6>1. PICK d \in 2..n : R(d) /\ d \div 2 = b
            BY <2>2, <2>4, <3>3, <5>2
          <6> QED
            BY <1>1, <6>1, RisesUpwards
        <5> QED
          BY <5>1, <5>2
      <4>3. c \in Path[n] /\ ~(b >= c)
        BY <1>1, <2>4, <4>1, <4>2, RisesUpwards
      <4>4. b <= c \div 2
        <5>1. b < c
          BY <4>3
        <5> QED
          BY <1>1, <4>2, <4>3, <5>1, PathChain
      <4> QED
        BY <1>2, <4>1, <4>4
    <3> QED
      BY <3>1, <3>2, <3>3
  <2>5. ASSUME NEW i \in 1..n, NEW l \in 1..n, R(i), ~R(l),
               PushSource(q, x, prio, i) = PushSource(q, x, prio, l)
        PROVE  FALSE
    <3>1. i \in 2..n
      BY <2>1, <2>5
    <3>2. PushSource(q, x, prio, i) = i \div 2 /\ i \div 2 < n
      BY <2>5, <3>1 DEF PushSource
    <3>3. ~Settles(q, x, prio, n, l) /\ l = i \div 2
      BY <2>5, <3>2 DEF PushSource
    <3>4. i = 2 * l \/ i = 2 * l + 1
      BY <3>1, <3>3
    <3> QED
      BY <2>5, <3>3, <3>4 DEF Settles
  <2> QED
    BY <1>2, <2>3, <2>4, <2>5
<1>3. ~(j < k) /\ ~(k < j)
  BY <1>2
<1> QED
  BY <1>3

-----------------------------------------------------------------------------
\* A bijection maps the part of its domain that goes to To one to one to To.
LEMMA BijectionRestricts ==
    ASSUME NEW X, NEW Y, NEW f \in Bijection(X, Y), IsFiniteSet(X),
           NEW From \in SUBSET X, NEW To \in SUBSET Y,
           \A x \in X : x \in From <=> f[x] \in To
    PROVE  Cardinality(To) = Cardinality(From)
<1> DEFINE g == [x \in From |-> f[x]]
<1>1. /\ f \in [X -> Y]
      /\ \A j, k \in X : f[j] = f[k] => j = k
      /\ \A i \in Y : \E j \in X : f[j] = i
  BY DEF Bijection, Injection, Surjection, IsInjective
<1>2. g \in [From -> To]
  BY <1>1
<1>3. \A j, k \in From : g[j] = g[k] => j = k
  BY <1>1
<1>4. \A i \in To : \E j \in From : g[j] = i
  BY <1>1
<1>5. g \in Bijection(From, To)
  BY <1>2, <1>3, <1>4 DEF Bijection, Injection, Surjection, IsInjective
<1>6. IsFiniteSet(From)
  BY FS_Subset
<1> QED
  BY <1>5, <1>6, FS_Bijection DEF ExistsBijection

\* The positions of a process in a queue are finitely many.
LEMMA PositionsFinite ==
    ASSUME NEW S, NEW q \in Seq(S), NEW p
    PROVE  /\ IsFiniteSet(Positions(p, q))
           /\ Cardinality(Positions(p, q)) \in Nat
           /\ In(p, q) <=> Cardinality(Positions(p, q)) # 0
<1>1. Len(q) \in Nat
  OBVIOUS
<1>2. IsFiniteSet(1..Len(q))
  BY <1>1, FS_Interval
<1>3. Positions(p, q) \in SUBSET (1..Len(q))
  BY DEF Positions
<1>4. IsFiniteSet(Positions(p, q))
  BY <1>2, <1>3, FS_Subset
<1> QED
  BY <1>4, FS_CardinalityType, FS_EmptySet DEF In

\* Push adds one copy of x and changes no other number of copies.
LEMMA PushCopies ==
    ASSUME NEW S, NEW q \in Seq(S), NEW x \in S, NEW prio, NEW p
    PROVE  Cardinality(Positions(p, Push(q, x, prio))) =
              Cardinality(Positions(p, q)) + (IF p = x THEN 1 ELSE 0)
<1> DEFINE n == Len(q) + 1
           r == Push(q, x, prio)
           s == Append(q, x)
           f == [j \in 1..n |-> PushSource(q, x, prio, j)]
<1>1. n \in Nat /\ Len(q) \in Nat /\ n \notin 1..Len(q)
  OBVIOUS
<1>2. Len(r) = n /\ \A j \in 1..n : f[j] \in 1..n /\ r[j] = s[f[j]]
  BY PushIsMove
<1>3. f \in [1..n -> 1..n]
  BY <1>2
<1>4. \A j, k \in 1..n : f[j] = f[k] => j = k
  BY PushSourceInjective
<1>5. IsFiniteSet(1..n)
  BY <1>1, FS_Interval
<1> HIDE DEF f
<1>6. f \in Injection(1..n, 1..n)
  BY <1>3, <1>4 DEF Injection, IsInjective
<1>7. f \in Bijection(1..n, 1..n)
  BY <1>5, <1>6, FS_Injection DEF Bijection
<1> HIDE DEF r
<1> DEFINE To == {i \in 1..n : s[i] = p}
<1>8. Cardinality(To) = Cardinality(Positions(p, r))
  <2> DEFINE X == 1..n
             From == Positions(p, r)
  <2>1. From \in SUBSET X /\ To \in SUBSET X
    BY <1>2 DEF Positions
  <2>2. \A j \in X : j \in From <=> f[j] \in To
    BY <1>2 DEF Positions
  <2>3. f \in Bijection(X, X) /\ IsFiniteSet(X)
    BY <1>5, <1>7
  <2> HIDE DEF To, X, From
  <2>4. Cardinality(To) = Cardinality(From)
    BY <2>1, <2>2, <2>3, BijectionRestricts
  <2> QED
    BY <2>4 DEF From
<1>9. To = IF p = x THEN Positions(p, q) \cup {n} ELSE Positions(p, q)
  BY <1>1 DEF Positions
<1>10. n \notin Positions(p, q)
  BY <1>1 DEF Positions
<1> HIDE DEF To
<1>11. Cardinality(To) = Cardinality(Positions(p, q)) + (IF p = x THEN 1 ELSE 0)
  <2>1. CASE p = x
    BY <1>9, <1>10, <2>1, PositionsFinite, FS_AddElement
  <2>2. CASE p # x
    BY <1>9, <2>2, PositionsFinite
  <2> QED
    BY <2>1, <2>2
<1> QED
  BY <1>8, <1>11 DEF r

-----------------------------------------------------------------------------
(***************************************************************************)
(* pop: the hole descends to a leaf and the last element rises from it.    *)
(***************************************************************************)

\* The element at c goes up to the position of its parent.
MovesUp(q, prio, m, c) == c \in Descent(q, prio, m) /\ ~Stays(q, prio, m, c)

\* Where the element at position j of the popped queue was in q.
PopSource(q, prio, j) ==
    LET m == Len(q) - 1
    IN  IF j \notin Descent(q, prio, m) \/ Stays(q, prio, m, j) THEN j
        ELSE IF MovesUp(q, prio, m, 2 * j) THEN 2 * j
        ELSE IF MovesUp(q, prio, m, 2 * j + 1) THEN 2 * j + 1
        ELSE m + 1

\* The hole goes from the root to the preferred child, and only to it.
LEMMA DescentStep ==
    ASSUME NEW q, NEW prio, NEW m \in Nat
    PROVE  /\ Descent(q, prio, m) \subseteq 1..m
           /\ m # 0 => 1 \in Descent(q, prio, m)
           /\ \A c \in 2..m : c \in Descent(q, prio, m)
                 <=> c \div 2 \in Descent(q, prio, m) /\ Preferred(q, prio, m, c)
<1> DEFINE D == Descent(q, prio, m)
<1>1. m # 0 => 1 \in D
  <2>1. Path[1] = {1}
    BY PathStep, PathBounds
  <2> QED
    BY <2>1 DEF Descent
<1>2. ASSUME NEW c \in 2..m
      PROVE  c \in D <=> c \div 2 \in D /\ Preferred(q, prio, m, c)
  <2>1. c \div 2 \in 1..m /\ c # 1 /\ c \in 1..m /\ c \in Nat /\ c # 0
    OBVIOUS
  <2>2. Path[c] = {c} \cup Path[c \div 2]
    <3>1. Path[c] = IF c = 0 THEN {} ELSE {c} \cup Path[c \div 2]
      BY <2>1, PathStep
    <3> QED
      BY <2>1, <3>1
  <2> QED
    BY <2>1, <2>2 DEF Descent
<1> QED
  BY <1>1, <1>2 DEF Descent

\* The hole prefers exactly one of the children.
LEMMA OnePreferred ==
    ASSUME NEW q, NEW prio, NEW m \in Nat, NEW j \in 1..m
    PROVE  /\ 2 * j + 1 <= m => ~(Preferred(q, prio, m, 2 * j) /\ Preferred(q, prio, m, 2 * j + 1))
           /\ 2 * j <= m => \/ Preferred(q, prio, m, 2 * j)
                            \/ 2 * j + 1 <= m /\ Preferred(q, prio, m, 2 * j + 1)
<1>1. (2 * j) % 2 = 0 /\ (2 * j + 1) % 2 # 0 /\ (2 * j + 1) - 1 = 2 * j
  OBVIOUS
<1>2. Preferred(q, prio, m, 2 * j) <=> 2 * j + 1 > m \/ Below(q[2 * j + 1], q[2 * j], prio)
  BY <1>1 DEF Preferred
<1>3. Preferred(q, prio, m, 2 * j + 1) <=> ~Below(q[2 * j + 1], q[2 * j], prio)
  BY <1>1 DEF Preferred
<1> QED
  BY <1>2, <1>3

\* A position above one that does not stay does not stay either.
LEMMA StaysDownwards ==
    ASSUME NEW q, NEW prio, NEW m \in Nat, NEW a \in Nat, NEW b \in Nat,
           a <= b, b # 1, Stays(q, prio, m, a)
    PROVE  Stays(q, prio, m, b)
<1>1. \A d \in Descent(q, prio, m) : d \in Nat
  BY DEF Descent
<1> QED
  BY <1>1 DEF Stays

\* Pop moves the entries behind the front.
LEMMA PopIsMove ==
    ASSUME NEW S, NEW q \in Seq(S), q # <<>>, NEW prio
    PROVE  /\ Len(Pop(q, prio)) = Len(q) - 1
           /\ \A j \in 1..(Len(q) - 1) :
                 /\ PopSource(q, prio, j) \in 2..Len(q)
                 /\ Pop(q, prio)[j] = q[PopSource(q, prio, j)]
<1> DEFINE m == Len(q) - 1
           D == Descent(q, prio, m)
           Up(c) == c \in D /\ ~Stays(q, prio, m, c)
           elem(j) == IF j \notin D \/ Stays(q, prio, m, j) THEN q[j]
                      ELSE IF Up(2 * j) THEN q[2 * j]
                      ELSE IF Up(2 * j + 1) THEN q[2 * j + 1]
                      ELSE q[m + 1]
<1>1. m \in Nat /\ Len(q) = m + 1
  OBVIOUS
<1>2. Pop(q, prio) = [j \in 1..m |-> elem(j)]
  BY DEF Pop
<1>3. Len(Pop(q, prio)) = m
  <2> HIDE DEF elem
  <2> QED
    BY <1>1, <1>2
<1>4. ASSUME NEW j \in 1..m
      PROVE  PopSource(q, prio, j) \in 2..Len(q) /\ elem(j) = q[PopSource(q, prio, j)]
  <2>1. D \subseteq 1..m /\ (m # 0 => 1 \in D)
    BY <1>1, DescentStep
  <2>2. elem(j) = q[PopSource(q, prio, j)]
    BY DEF PopSource, MovesUp
  <2>3. j \notin D \/ Stays(q, prio, m, j) => j # 1
    BY <1>1, <2>1 DEF Stays
  <2>4. PopSource(q, prio, j) \in 2..Len(q)
    BY <1>1, <2>1, <2>3 DEF PopSource, MovesUp
  <2> QED
    BY <2>2, <2>4
<1> HIDE DEF elem
<1> QED
  BY <1>1, <1>2, <1>3, <1>4

\* Every element but the top has a place in the popped queue.
LEMMA PopSourceSurjective ==
    ASSUME NEW S, NEW q \in Seq(S), q # <<>>, NEW prio, NEW i \in 2..Len(q)
    PROVE  \E j \in 1..(Len(q) - 1) : PopSource(q, prio, j) = i
<1> DEFINE m == Len(q) - 1
           D == Descent(q, prio, m)
           Rests(j) == Stays(q, prio, m, j)
<1>1. m \in Nat \ {0} /\ Len(q) = m + 1
  OBVIOUS
<1>2. D \subseteq 1..m /\ 1 \in D
  BY <1>1, DescentStep
<1>3. ASSUME NEW c \in D, ~Rests(c), c # 1
      PROVE  PopSource(q, prio, c \div 2) = c
  <2>1. c \in 2..m /\ c \div 2 \in 1..m /\ c \div 2 <= c
    BY <1>1, <1>2, <1>3
  <2>2. c \div 2 \in D /\ Preferred(q, prio, m, c)
    BY <1>1, <1>3, <2>1, DescentStep
  <2>3. ~Rests(c \div 2)
    BY <1>1, <1>3, <2>1, StaysDownwards
  <2>4. CASE c = 2 * (c \div 2)
    BY <1>3, <2>2, <2>3, <2>4 DEF PopSource, MovesUp
  <2>5. CASE c = 2 * (c \div 2) + 1
    <3>1. ~Preferred(q, prio, m, 2 * (c \div 2))
      BY <1>1, <2>1, <2>2, <2>5, OnePreferred
    <3>2. 2 * (c \div 2) \in 2..m
      BY <2>1, <2>5
    <3>3. 2 * (c \div 2) \notin D
      BY <1>1, <3>1, <3>2, DescentStep
    <3> QED
      BY <1>3, <2>2, <2>3, <2>5, <3>3 DEF PopSource, MovesUp
  <2> QED
    BY <2>1, <2>4, <2>5
<1>4. CASE i = m + 1
  <2> DEFINE T == {j \in D : ~Rests(j)}
  <2>1. T \in SUBSET (0..m) /\ 1 \in T
    BY <1>1, <1>2 DEF Stays
  <2>2. PICK j \in T : \A k \in T : k <= j
    BY <1>1, <2>1, GreatestNumber
  <2>3. j \in 1..m /\ 2 * j \notin T /\ 2 * j + 1 \notin T
    BY <1>2, <2>2
  <2>4. PopSource(q, prio, j) = m + 1
    BY <2>2, <2>3 DEF PopSource, MovesUp
  <2> QED
    BY <1>4, <2>3, <2>4
<1>5. CASE i # m + 1
  <2>1. i \in 2..m
    <3> HIDE DEF m
    <3> QED
      BY <1>1, <1>5
  <2>4. i \div 2 \in 1..m
    BY <2>1
  <2>2. CASE i \notin D \/ Rests(i)
    BY <2>1, <2>2 DEF PopSource
  <2>3. CASE i \in D /\ ~Rests(i)
    BY <1>3, <2>1, <2>3, <2>4
  <2> QED
    BY <2>2, <2>3
<1> QED
  BY <1>4, <1>5

\* Pop takes one copy of the top and changes no other number of copies.
LEMMA PopCopies ==
    ASSUME NEW S, NEW q \in Seq(S), q # <<>>, NEW prio, NEW p
    PROVE  Cardinality(Positions(p, q)) =
              Cardinality(Positions(p, Pop(q, prio))) + (IF p = Top(q) THEN 1 ELSE 0)
<1> DEFINE m == Len(q) - 1
           X == 1..m
           Y == 2..Len(q)
           r == Pop(q, prio)
           f == [j \in X |-> PopSource(q, prio, j)]
           From == Positions(p, r)
           To == Positions(p, q) \ {1}
<1>1. m \in Nat /\ Len(q) = m + 1
  OBVIOUS
<1>2. Len(r) = m /\ \A j \in X : f[j] \in Y /\ r[j] = q[f[j]]
  BY PopIsMove
<1>3. f \in Surjection(X, Y)
  <2>1. f \in [X -> Y]
    BY <1>2
  <2>2. \A i \in Y : \E j \in X : f[j] = i
    BY PopSourceSurjective
  <2> HIDE DEF f, X, Y
  <2> QED
    BY <2>1, <2>2 DEF Surjection
<1>4. IsFiniteSet(X) /\ Cardinality(X) = Cardinality(Y)
  BY <1>1, FS_Interval
<1>5. From \in SUBSET X /\ To \in SUBSET Y
  BY <1>1, <1>2 DEF Positions
<1>6. \A j \in X : j \in From <=> f[j] \in To
  BY <1>1, <1>2 DEF Positions
<1>7. Cardinality(To) = Cardinality(From)
  <2> HIDE DEF X, Y, f, From, To
  <2>1. f \in Bijection(X, Y)
    BY <1>3, <1>4, FS_SurjSameCardinalityImpliesInj DEF Bijection
  <2> QED
    BY <1>4, <1>5, <1>6, <2>1, BijectionRestricts
<1>8. 1 \in Positions(p, q) <=> p = Top(q)
  BY <1>1 DEF Positions, Top
<1>9. Cardinality(Positions(p, q)) = Cardinality(To) + (IF p = Top(q) THEN 1 ELSE 0)
  <2> DEFINE P == Positions(p, q)
  <2>1. IsFiniteSet(P) /\ Cardinality(P) \in Nat /\ To = P \ {1} /\ (1 \in P <=> p = Top(q))
    BY <1>8, PositionsFinite
  <2> HIDE DEF P, To
  <2>2. Cardinality(To) = IF 1 \in P THEN Cardinality(P) - 1 ELSE Cardinality(P)
    BY <2>1, FS_RemoveElement
  <2> QED
    BY <2>1, <2>2 DEF P
<1> QED
  BY <1>7, <1>9

-----------------------------------------------------------------------------
(***************************************************************************)
(* Heap order.  It is stated for a set U of processes that outrank all     *)
(* others: no process outside U is the parent of one in U.  With the       *)
(* processes of at least a given priority as U this is the order of the    *)
(* heap; with the user programs it says what is left of the order when     *)
(* priorities change in the heap.                                          *)
(***************************************************************************)
UpperFirst(q, U) == \A i \in 2..Len(q) : q[i] \in U => q[i \div 2] \in U

Outranks(U, S, prio) == \A a, b \in S : a \notin U /\ b \in U => prio[a] < prio[b]

\* Every process above one of U is in U.
LEMMA UpperPath ==
    ASSUME NEW S, NEW q \in Seq(S), NEW U, UpperFirst(q, U),
           NEW d \in 1..Len(q), q[d] \in U, NEW c \in Path[d]
    PROVE  q[c] \in U
<1> DEFINE T == {i \in Nat : i \in 1..Len(q) /\ q[i] \in U => \A j \in Path[i] : q[j] \in U}
<1>1. 0 \in T
  BY PathStep
<1>2. ASSUME NEW k \in Nat \ {0}, k \div 2 \in T
      PROVE  k \in T
  <2>1. Path[k] = {k} \cup Path[k \div 2]
    BY PathStep
  <2>2. k = 1 => Path[k] = {k}
    BY PathBounds
  <2>3. k \in 2..Len(q) => k \div 2 \in 1..Len(q)
    OBVIOUS
  <2>4. k \in 1..Len(q) /\ k # 1 /\ q[k] \in U => q[k \div 2] \in U /\ k \div 2 \in 1..Len(q)
    BY <2>3 DEF UpperFirst
  <2> QED
    BY <1>2, <2>1, <2>2, <2>4
<1>3. Nat \subseteq T
  BY <1>1, <1>2, PathInduction
<1> QED
  BY <1>3

\* If the front is not of U, nobody in the queue is.
LEMMA UpperTop ==
    ASSUME NEW S, NEW q \in Seq(S), NEW U, UpperFirst(q, U),
           NEW i \in 1..Len(q), q[i] \in U
    PROVE  Top(q) \in U
<1> DEFINE T == {n \in Nat : n # 0 => 1 \in Path[n]}
<1>1. 0 \in T
  OBVIOUS
<1>2. ASSUME NEW k \in Nat \ {0}, k \div 2 \in T
      PROVE  k \in T
  <2>1. Path[k] = {k} \cup Path[k \div 2]
    BY PathStep
  <2>2. k # 1 => k \div 2 # 0
    OBVIOUS
  <2> QED
    BY <1>2, <2>1, <2>2
<1>3. Nat \subseteq T
  BY <1>1, <1>2, PathInduction
<1>4. 1 \in Path[i]
  BY <1>3
<1> QED
  BY <1>4, UpperPath DEF Top

\* Of two positions the hole passes, the smaller is an ancestor of the larger.
LEMMA DescentChain ==
    ASSUME NEW q, NEW prio, NEW m \in Nat, NEW c \in Descent(q, prio, m),
           NEW d \in Descent(q, prio, m), c <= d
    PROVE  c \in Path[d]
<1> DEFINE D == Descent(q, prio, m)
           T == {i \in Nat : i \in D => \A a \in D : a <= i => a \in Path[i]}
<1>1. D \subseteq 1..m
  BY DescentStep
<1>2. 0 \in T
  BY <1>1
<1>3. ASSUME NEW k \in Nat \ {0}, k \div 2 \in T, k \in D, NEW a \in D, a <= k
      PROVE  a \in Path[k]
  <2>1. k \in Path[k] /\ Path[k] = {k} \cup Path[k \div 2]
    BY PathStep
  <2>2. CASE a = k
    BY <2>1, <2>2
  <2>3. CASE a # k /\ a <= k \div 2
    <3>1. k \in 2..m
      BY <1>1, <1>3, <2>3
    <3>2. k \div 2 \in D
      BY <1>3, <3>1, DescentStep
    <3> QED
      BY <1>3, <2>1, <2>3, <3>2
  <2>4. CASE a # k /\ ~(a <= k \div 2)
    <3> DEFINE h == k \div 2
    <3>1. k \in 2..m /\ a \in 2..m /\ h < a /\ a < k /\ h \in 1..m
      BY <1>1, <1>3, <2>4
    <3>2. h \in D /\ a \div 2 \in D /\ Preferred(q, prio, m, a) /\ Preferred(q, prio, m, k)
      BY <1>3, <3>1, DescentStep
    <3>3. a \div 2 <= h
      BY <3>1
    <3>4. CASE a \div 2 = h
      <4>1. a = 2 * h /\ k = 2 * h + 1
        BY <3>1, <3>4
      <4> HIDE DEF h
      <4> QED
        BY <3>1, <3>2, <4>1, OnePreferred
    <3>5. CASE a \div 2 # h
      <4>1. a \div 2 \in Path[h]
        BY <1>3, <3>2, <3>3
      <4>2. h \in Nat /\ h \in Path[h] /\ a \div 2 \in Nat /\ a \div 2 < h
        BY <3>1, <3>3, <3>5, PathBounds
      <4> HIDE DEF h
      <4>3. a \div 2 <= h \div 2
        BY <4>1, <4>2, PathChain
      <4>4. h \div 2 \in 1..m /\ h = 2 * (h \div 2) /\ a = 2 * (h \div 2) + 1 /\ h \in 2..m
        BY <3>1, <4>2, <4>3
      <4>5. Preferred(q, prio, m, h)
        BY <3>2, <4>4, DescentStep
      <4> QED
        BY <3>1, <3>2, <4>4, <4>5, OnePreferred
    <3> QED
      BY <3>4, <3>5
  <2> QED
    BY <2>2, <2>3, <2>4
<1>4. Nat \subseteq T
  BY <1>2, <1>3, PathInduction
<1> QED
  BY <1>1, <1>4

\* Push keeps the processes of U above the others.
LEMMA PushUpperFirst ==
    ASSUME NEW S, NEW q \in Seq(S), NEW x \in S, NEW prio \in [S -> Int], NEW U,
           Outranks(U, S, prio), UpperFirst(q, U)
    PROVE  UpperFirst(Push(q, x, prio), U)
<1> DEFINE n == Len(q) + 1
           R(j) == Rises(q, x, prio, n, j)
           St(j) == Settles(q, x, prio, n, j)
           r == Push(q, x, prio)
<1>1. n \in Nat /\ Len(q) \in Nat /\ Len(r) = n
  BY PushIsMove
<1>2. ASSUME NEW j \in 1..n
      PROVE  r[j] = IF R(j) THEN q[j \div 2] ELSE IF St(j) THEN x ELSE q[j]
  BY <1>2 DEF Push, Settles
<1>3. ASSUME NEW j \in 2..n, ~Below(q[j \div 2], x, prio), x \in U
      PROVE  q[j \div 2] \in U
  <2>1. j \div 2 \in 1..Len(q)
    BY <1>1
  <2>2. q[j \div 2] \in S
    BY <2>1
  <2> QED
    BY <1>3, <2>2 DEF Outranks, Below
<1>4. ASSUME NEW j \in 2..n, Below(q[j \div 2], x, prio), q[j \div 2] \in U
      PROVE  x \in U
  <2>1. j \div 2 \in 1..Len(q)
    BY <1>1
  <2>2. q[j \div 2] \in S
    BY <2>1
  <2> QED
    BY <1>4, <2>2 DEF Outranks, Below
<1>5. ASSUME NEW c \in Nat, R(c)
      PROVE  /\ c \in Path[n] /\ c \in 2..n /\ c \div 2 \in Path[n]
             /\ \A b \in Path[n] : b >= c => R(b)
             /\ Below(q[c \div 2], x, prio)
  <2>1. /\ c \in Path[n] /\ c \in 2..n /\ c \div 2 \in Path[n]
        /\ \A b \in Path[n] : b >= c => R(b)
    BY <1>1, <1>5, RisesUpwards
  <2>2. c >= c
    BY <2>1
  <2> QED
    BY <1>5, <2>1, <2>2 DEF Rises
<1> HIDE DEF R, r
<1>6. ASSUME NEW c \in 2..n, r[c] \in U
      PROVE  r[c \div 2] \in U
  <2> DEFINE i == c \div 2
  <2>1. c \in Nat /\ i \in 1..Len(q) /\ i \in 1..n /\ i \in Nat /\ c # 1 /\ i < c /\ c \in 1..n
    BY <1>1
  <2>2. i # 1 => i \in 2..Len(q) /\ i \div 2 \in 1..n
    BY <2>1
  <2>3. CASE R(c)
    <3>1. q[i] \in U
      BY <1>2, <1>6, <2>1, <2>3
    <3>2. CASE R(i)
      <4>1. i \in 2..Len(q)
        BY <1>5, <2>1, <2>2, <3>2
      <4>2. q[i \div 2] \in U
        BY <3>1, <4>1 DEF UpperFirst
      <4> QED
        BY <1>2, <2>1, <3>2, <4>2
    <3>3. CASE ~R(i)
      <4>1. St(i)
        <5>1. c = 2 * i \/ c = 2 * i + 1
          BY <2>1
        <5> QED
          BY <2>3, <5>1 DEF Settles, R
      <4>2. x \in U
        BY <1>4, <1>5, <2>1, <2>3, <3>1
      <4> QED
        BY <1>2, <2>1, <3>3, <4>1, <4>2
    <3> QED
      BY <3>2, <3>3
  <2>4. CASE ~R(c) /\ St(c)
    <3>1. x \in U
      BY <1>2, <1>6, <2>1, <2>4
    <3>2. c \in Path[n] /\ \A d \in Path[n] : R(d) => d > c
      <4>1. CASE c = n
        <5>1. c \in Path[n]
          BY <1>1, <4>1, PathBounds
        <5>2. ASSUME NEW d \in Path[n], R(d)
              PROVE  FALSE
          <6>1. d \in 1..n
            BY <1>1, PathBounds
          <6>2. c >= d
            BY <4>1, <6>1
          <6> QED
            BY <1>5, <2>4, <5>1, <5>2, <6>1, <6>2
        <5> QED
          BY <5>1, <5>2
      <4>2. CASE c # n
        <5>1. PICK e \in {2 * c, 2 * c + 1} : R(e)
          BY <2>4, <4>2 DEF Settles, R
        <5>2. e \in Nat /\ e \div 2 = c
          BY <2>1, <5>1
        <5>3. c \in Path[n]
          BY <1>5, <5>1, <5>2
        <5>4. ASSUME NEW d \in Path[n], R(d), ~(d > c)
              PROVE  FALSE
          <6>1. d \in Nat /\ c >= d
            BY <1>1, <2>1, <5>4, PathBounds
          <6> QED
            BY <1>5, <2>4, <5>3, <5>4, <6>1
        <5> QED
          BY <5>3, <5>4
      <4> QED
        BY <4>1, <4>2
    <3>3. ~Below(q[i], x, prio)
      <4>1. ASSUME NEW d \in Path[n], d >= c, d # c
            PROVE  Below(q[d \div 2], x, prio)
        <5>1. c < d /\ d \in Nat /\ d <= n /\ c < n
          <6>1. d \in 1..n
            BY <1>1, PathBounds
          <6> QED
            BY <2>1, <4>1, <6>1
        <5>2. PICK e \in {2 * c, 2 * c + 1} : R(e)
          BY <2>4, <5>1 DEF Settles, R
        <5>3. e \in Nat /\ e \div 2 = c /\ e \in Path[n]
          BY <1>5, <2>1, <5>2
        <5>4. c <= d \div 2
          BY <1>1, <3>2, <5>1, PathChain
        <5>5. d >= e
          <6>1. CASE d < e
            <7>1. d <= e \div 2
              BY <1>1, <5>3, <6>1, PathChain
            <7> QED
              BY <5>1, <5>3, <7>1
          <6> QED
            BY <5>1, <5>3, <6>1
        <5>6. R(d)
          BY <1>5, <5>2, <5>3, <5>5
        <5> QED
          BY <1>5, <5>1, <5>6
      <4> QED
        BY <2>1, <2>4, <3>2, <4>1 DEF Rises, R
    <3>4. q[i] \in U
      BY <1>3, <3>1, <3>3
    <3>5. ~R(i)
      BY <1>5, <2>1, <2>4, <3>2
    <3>6. CASE St(i)
      BY <1>2, <2>1, <3>1, <3>5, <3>6
    <3>7. CASE ~St(i)
      BY <1>2, <2>1, <3>4, <3>5, <3>7
    <3> QED
      BY <3>6, <3>7
  <2>5. CASE ~R(c) /\ ~St(c)
    <3>1. c \in 2..Len(q)
      BY <1>1, <2>1, <2>5 DEF Settles
    <3>2. q[c] \in U
      BY <1>2, <1>6, <2>1, <2>5
    <3>3. q[i] \in U
      BY <3>1, <3>2 DEF UpperFirst
    <3>4. CASE R(i)
      <4>1. i \in 2..Len(q)
        BY <1>5, <2>1, <2>2, <3>4
      <4>2. q[i \div 2] \in U
        BY <3>3, <4>1 DEF UpperFirst
      <4> QED
        BY <1>2, <2>1, <3>4, <4>2
    <3>5. CASE ~R(i) /\ St(i)
      <4>1. i # n
        BY <1>1, <2>1
      <4>2. PICK e \in {2 * i, 2 * i + 1} : R(e)
        BY <3>5, <4>1 DEF Settles, R
      <4>3. e \in Nat /\ e \div 2 = i
        BY <2>1, <4>2
      <4>4. x \in U
        BY <1>4, <1>5, <3>3, <4>2, <4>3
      <4> QED
        BY <1>2, <2>1, <3>5, <4>4
    <3>6. CASE ~R(i) /\ ~St(i)
      BY <1>2, <2>1, <3>3, <3>6
    <3> QED
      BY <3>4, <3>5, <3>6
  <2> QED
    BY <2>3, <2>4, <2>5
<1> QED
  BY <1>1, <1>6 DEF UpperFirst, r

\* Pop keeps the processes of U above the others.
LEMMA PopUpperFirst ==
    ASSUME NEW S, NEW q \in Seq(S), q # <<>>, NEW prio \in [S -> Int], NEW U,
           Outranks(U, S, prio), UpperFirst(q, U)
    PROVE  UpperFirst(Pop(q, prio), U)
<1> DEFINE m == Len(q) - 1
           D == Descent(q, prio, m)
           Rests(j) == Stays(q, prio, m, j)
           Up(j) == MovesUp(q, prio, m, j)
           v == q[m + 1]
           r == Pop(q, prio)
<1>1. m \in Nat /\ Len(q) = m + 1 /\ Len(r) = m
  BY PopIsMove
<1>2. ASSUME NEW j \in 1..m
      PROVE  r[j] = IF j \notin D \/ Rests(j) THEN q[j]
                    ELSE IF Up(2 * j) THEN q[2 * j]
                    ELSE IF Up(2 * j + 1) THEN q[2 * j + 1]
                    ELSE v
  BY <1>2 DEF Pop, MovesUp
<1>3. D \subseteq 1..m /\ \A c \in 2..m : c \in D <=> c \div 2 \in D /\ Preferred(q, prio, m, c)
  BY <1>1, DescentStep
<1>4. \A j \in 1..(m + 1) : q[j] \in S
  BY <1>1
<1>5. ASSUME NEW j \in 1..(m + 1), NEW k \in 1..(m + 1), q[j] \in U, ~Below(q[k], q[j], prio)
      PROVE  q[k] \in U
  BY <1>4, <1>5 DEF Outranks, Below
<1>6. ASSUME NEW j \in 1..(m + 1), NEW k \in 1..(m + 1), q[j] \in U, Below(q[j], q[k], prio)
      PROVE  q[k] \in U
  BY <1>4, <1>6 DEF Outranks, Below
\* The preferred child is of U when its sibling is.
<1>7. ASSUME NEW i \in 1..m, NEW c \in 2..m, NEW d \in 2..m, c \div 2 = i, d \div 2 = i,
             c # d, Preferred(q, prio, m, d), q[c] \in U
      PROVE  q[d] \in U /\ c \notin D
  <2>1. CASE c = 2 * i /\ d = 2 * i + 1
    <3>1. ~Preferred(q, prio, m, c)
      BY <1>1, <1>7, <2>1, OnePreferred
    <3>2. ~Below(q[d], q[c], prio)
      BY <1>7, <2>1 DEF Preferred
    <3> QED
      BY <1>1, <1>3, <1>5, <1>7, <3>1, <3>2
  <2>2. CASE c = 2 * i + 1 /\ d = 2 * i
    <3>1. ~Preferred(q, prio, m, c)
      BY <1>1, <1>7, <2>2, OnePreferred
    <3>2. Below(q[c], q[d], prio)
      BY <1>7, <2>2 DEF Preferred
    <3> QED
      BY <1>1, <1>3, <1>6, <1>7, <3>1, <3>2
  <2> QED
    BY <1>7, <2>1, <2>2
<1> HIDE DEF r, Rests
<1>8. ASSUME NEW c \in 2..m, r[c] \in U
      PROVE  r[c \div 2] \in U
  <2> DEFINE i == c \div 2
  <2>1. c \in 1..m /\ c # 1 /\ i \in 1..m /\ i < c /\ c \in 2..Len(q) /\ (c = 2 * i \/ c = 2 * i + 1)
    BY <1>1
  <2>2. q[c] \in U => q[i] \in U
    BY <2>1 DEF UpperFirst
  <2>3. Rests(i) => Rests(c)
    BY <1>1, <2>1, StaysDownwards DEF Rests
  <2>4. c \in D => i \in D
    BY <1>3
  <2>5. CASE i \notin D \/ Rests(i)
    <3>1. r[i] = q[i] /\ r[c] = q[c]
      BY <1>2, <2>1, <2>3, <2>4, <2>5
    <3> QED
      BY <1>8, <2>2, <3>1
  <2>6. CASE i \in D /\ ~Rests(i) /\ \E d \in 2..m : d \div 2 = i /\ Up(d)
    <3>1. PICK d \in 2..m : d \div 2 = i /\ Up(d)
      BY <2>6
    <3>2. d \in D /\ ~Rests(d) /\ Preferred(q, prio, m, d) /\ (d = 2 * i \/ d = 2 * i + 1)
      BY <1>3, <3>1 DEF MovesUp, Rests
    <3>3. r[i] = q[d]
      <4>1. CASE d = 2 * i
        BY <1>2, <2>1, <2>6, <3>1, <4>1
      <4>2. CASE d = 2 * i + 1
        <5>1. 2 * i \in 2..m /\ (2 * i) \div 2 = i
          BY <2>1, <4>2
        <5>2. ~Preferred(q, prio, m, 2 * i)
          BY <1>1, <2>1, <3>2, <4>2, OnePreferred
        <5>3. ~Up(2 * i)
          BY <1>3, <5>1, <5>2 DEF MovesUp
        <5> QED
          BY <1>2, <2>1, <2>6, <3>1, <4>2, <5>3
      <4> QED
        BY <3>2, <4>1, <4>2
    <3>4. CASE c # d
      <4>1. Preferred(q, prio, m, c) => c = d
        <5>1. 2 * i + 1 <= m => ~(Preferred(q, prio, m, 2 * i) /\ Preferred(q, prio, m, 2 * i + 1))
          BY <1>1, <2>1, OnePreferred
        <5>2. c <= m /\ d <= m
          BY <2>1
        <5> HIDE DEF i, m
        <5> QED
          BY <2>1, <3>2, <5>1, <5>2
      <4>2. r[c] = q[c]
        BY <1>2, <1>3, <2>1, <3>4, <4>1
      <4> QED
        BY <1>7, <1>8, <2>1, <3>1, <3>2, <3>3, <3>4, <4>2
    <3>5. CASE c = d
      <4>1. CASE \E e \in {2 * c, 2 * c + 1} : Up(e) /\ r[c] = q[e]
        <5>1. PICK e \in {2 * c, 2 * c + 1} : Up(e) /\ r[c] = q[e]
          BY <4>1
        <5>2. e \in 2..Len(q) /\ e \div 2 = c
          BY <1>1, <1>3, <2>1, <5>1 DEF MovesUp
        <5>3. q[c] \in U
          BY <1>8, <5>1, <5>2 DEF UpperFirst
        <5> QED
          BY <3>3, <3>5, <5>3
      <4>2. CASE r[c] = v
        <5>1. PICK e \in D : e >= c /\ ~Below(q[e], v, prio)
          BY <2>1, <3>2, <3>5 DEF Stays, Rests
        <5>2. e \in 1..(m + 1) /\ m + 1 \in 1..(m + 1)
          BY <1>1, <1>3
        <5>3. q[e] \in U
          BY <1>5, <1>8, <4>2, <5>1, <5>2
        <5>4. c \in Path[e]
          <6>1. c <= e
            BY <2>1, <5>1, <5>2
          <6> QED
            BY <1>1, <3>2, <3>5, <5>1, <6>1, DescentChain
        <5>5. q[c] \in U
          BY <1>1, <5>2, <5>3, <5>4, UpperPath
        <5> QED
          BY <3>3, <3>5, <5>5
      <4> QED
        BY <1>2, <2>1, <3>2, <3>5, <4>1, <4>2
    <3> QED
      BY <3>4, <3>5
  <2>7. CASE i \in D /\ ~Rests(i) /\ ~\E d \in 2..m : d \div 2 = i /\ Up(d)
    <3>1. ~Up(2 * i) /\ ~Up(2 * i + 1)
      <4>1. \A d \in {2 * i, 2 * i + 1} : d \div 2 = i /\ (d \in D => d \in 2..m)
        BY <1>3, <2>1
      <4> QED
        BY <2>7, <4>1 DEF MovesUp
    <3>2. r[i] = v
      BY <1>2, <2>1, <2>7, <3>1
    <3>3. r[c] = q[c]
      BY <1>2, <2>1, <3>1 DEF MovesUp, Rests
    <3>4. PICK d \in 2..m : d \div 2 = i /\ Preferred(q, prio, m, d)
      <4>1. 2 * i <= m
        BY <2>1
      <4>2. 2 * i \in 2..m /\ (2 * i) \div 2 = i /\ (2 * i + 1) \div 2 = i
        BY <2>1, <4>1
      <4>3. 2 * i + 1 \in Nat /\ (2 * i + 1 <= m => 2 * i + 1 \in 2..m)
        BY <2>1
      <4>4. \/ Preferred(q, prio, m, 2 * i)
            \/ 2 * i + 1 <= m /\ Preferred(q, prio, m, 2 * i + 1)
        BY <1>1, <2>1, <4>1, OnePreferred
      <4> HIDE DEF i, m
      <4> QED
        BY <4>2, <4>3, <4>4
    <3>5. d \in D /\ Rests(d)
      BY <1>3, <2>7, <3>4 DEF MovesUp, Rests
    <3>6. q[d] \in U
      BY <1>7, <1>8, <2>1, <3>3, <3>4
    <3>7. Below(q[d], v, prio)
      BY <3>5 DEF Stays, Rests
    <3> QED
      BY <1>1, <1>6, <3>2, <3>6, <3>7
  <2> QED
    BY <2>5, <2>6, <2>7
<1> QED
  BY <1>1, <1>8 DEF UpperFirst, r

-----------------------------------------------------------------------------
(***************************************************************************)
(* The heap order is the order of UpperFirst for every bound t on the      *)
(* priority at once, so Push and Pop keep it.                              *)
(***************************************************************************)
AtLeast(S, prio, t) == {a \in S : prio[a] >= t}

\* A heap has, for each rank, the entries of at least that rank above the others.
LEMMA HeapByRank ==
    ASSUME NEW S, NEW q \in Seq(S), NEW prio \in [S -> Int]
    PROVE  IsHeap(q, prio) <=> \A t \in Int : UpperFirst(q, AtLeast(S, prio, t))
<1>1. \A i \in 2..Len(q) : /\ i \div 2 \in 1..Len(q)
                           /\ q[i] \in S /\ q[i \div 2] \in S
                           /\ prio[q[i]] \in Int /\ prio[q[i \div 2]] \in Int
  <2> SUFFICES ASSUME NEW i \in 2..Len(q)
               PROVE  /\ i \div 2 \in 1..Len(q)
                      /\ q[i] \in S /\ q[i \div 2] \in S
                      /\ prio[q[i]] \in Int /\ prio[q[i \div 2]] \in Int
    OBVIOUS
  <2>1. Len(q) \in Nat /\ i \in 1..Len(q) /\ i \div 2 \in 1..Len(q)
    OBVIOUS
  <2> QED
    BY <2>1
<1>2. ASSUME IsHeap(q, prio), NEW t \in Int, NEW i \in 2..Len(q), q[i] \in AtLeast(S, prio, t)
      PROVE  q[i \div 2] \in AtLeast(S, prio, t)
  BY <1>1, <1>2 DEF IsHeap, Below, AtLeast
<1>3. ASSUME \A t \in Int : UpperFirst(q, AtLeast(S, prio, t)), NEW i \in 2..Len(q)
      PROVE  ~Below(q[i \div 2], q[i], prio)
  <2>1. UpperFirst(q, AtLeast(S, prio, prio[q[i]]))
    BY <1>1, <1>3
  <2>2. q[i] \in AtLeast(S, prio, prio[q[i]])
    BY <1>1 DEF AtLeast
  <2>3. q[i \div 2] \in AtLeast(S, prio, prio[q[i]])
    BY <2>1, <2>2 DEF UpperFirst
  <2> QED
    BY <1>1, <2>3 DEF AtLeast, Below
<1> QED
  BY <1>2, <1>3 DEF IsHeap, UpperFirst

\* Who has at least some rank outranks who has not.
LEMMA AtLeastOutranks ==
    ASSUME NEW S, NEW prio \in [S -> Int], NEW t \in Int
    PROVE  Outranks(AtLeast(S, prio, t), S, prio)
BY DEF Outranks, AtLeast

\* push_heap keeps a heap a heap.
LEMMA PushHeap ==
    ASSUME NEW S, NEW q \in Seq(S), NEW x \in S, NEW prio \in [S -> Int], IsHeap(q, prio)
    PROVE  IsHeap(Push(q, x, prio), prio)
<1>1. ASSUME NEW t \in Int
      PROVE  UpperFirst(Push(q, x, prio), AtLeast(S, prio, t))
  BY HeapByRank, AtLeastOutranks, PushUpperFirst
<1> QED
  BY <1>1, PushType, HeapByRank

\* pop_heap keeps a heap a heap.
LEMMA PopHeap ==
    ASSUME NEW S, NEW q \in Seq(S), q # <<>>, NEW prio \in [S -> Int], IsHeap(q, prio)
    PROVE  IsHeap(Pop(q, prio), prio)
<1>1. ASSUME NEW t \in Int
      PROVE  UpperFirst(Pop(q, prio), AtLeast(S, prio, t))
  BY HeapByRank, AtLeastOutranks, PopUpperFirst
<1> QED
  BY <1>1, PopType, HeapByRank

\* The front of a heap has the highest priority in it.
LEMMA HeapTop ==
    ASSUME NEW S, NEW q \in Seq(S), NEW prio \in [S -> Int], IsHeap(q, prio),
           NEW i \in 1..Len(q)
    PROVE  prio[q[i]] <= prio[Top(q)]
<1>1. q[i] \in S /\ prio[q[i]] \in Int
  OBVIOUS
<1>2. UpperFirst(q, AtLeast(S, prio, prio[q[i]]))
  BY <1>1, HeapByRank
<1>3. q[i] \in AtLeast(S, prio, prio[q[i]])
  BY <1>1 DEF AtLeast
<1>4. Top(q) \in AtLeast(S, prio, prio[q[i]])
  BY <1>2, <1>3, UpperTop
<1> QED
  BY <1>1, <1>4 DEF AtLeast


=============================================================================
