----------------------------- MODULE PlaceProofs -----------------------------
(***************************************************************************)
(* Where the processes are.  A process is in the ready queue, in one wait  *)
(* queue or in none, and its state says which; but no code checks that,    *)
(* and every handler relies on the others.  This module proves the         *)
(* agreement for every number of programs, and from it that start() does   *)
(* not give up on living processes and dispatches the highest priority.    *)
(*                                                                         *)
(* It holds of the workloads in which a request flag cannot outlive the    *)
(* process that raised it.  Only a preemption leaves other flags behind,   *)
(* and only a sleeper that wakes preempts: so either no program sleeps, or *)
(* the programs use none of the instructions that raise another flag.      *)
(***************************************************************************)
EXTENDS SchedulingProofs

-----------------------------------------------------------------------------
(***************************************************************************)
(* Counting the copies of a process in a queue.                            *)
(***************************************************************************)
Copies(p, queue) == Cardinality(Positions(p, queue))

\* Copies counts, and is zero exactly where the process is not.
LEMMA CopiesNat ==
    ASSUME NEW q \in Seq(Procs), NEW p
    PROVE  Copies(p, q) \in Nat /\ (Copies(p, q) # 0 <=> In(p, q))
BY PositionsFinite DEF Copies

\* An empty queue holds no copy.
LEMMA CopiesEmpty == \A p : Copies(p, <<>>) = 0
<1>1. \A p : Positions(p, <<>>) = {}
  BY DEF Positions
<1> QED
  BY <1>1, FS_EmptySet DEF Copies

\* Appending adds one copy of what is appended.
LEMMA CopiesAppend ==
    ASSUME NEW q \in Seq(Procs), NEW x \in Procs, NEW p
    PROVE  Copies(p, Append(q, x)) = Copies(p, q) + (IF p = x THEN 1 ELSE 0)
<1> DEFINE n == Len(q) + 1
<1>1. Len(q) \in Nat /\ Len(Append(q, x)) = n /\ n \in Nat
  OBVIOUS
<1>2. IsFiniteSet(Positions(p, q)) /\ n \notin Positions(p, q)
  <2>1. n \notin Positions(p, q)
    BY <1>1 DEF Positions
  <2> QED
    BY <2>1, PositionsFinite
<1>3. Positions(p, Append(q, x)) = IF p = x THEN Positions(p, q) \cup {n} ELSE Positions(p, q)
  <2>1. \A i \in 1..n : Append(q, x)[i] = IF i = n THEN x ELSE q[i]
    OBVIOUS
  <2>2. 1..n = 1..Len(q) \cup {n}
    BY <1>1
  <2> QED
    BY <1>1, <2>1, <2>2 DEF Positions
<1>4. Cardinality(Positions(p, q)) \in Nat
  BY PositionsFinite
<1> HIDE DEF n
<1>5. CASE p = x
  <2>1. Cardinality(Positions(p, q) \cup {n}) = Cardinality(Positions(p, q)) + 1
    BY <1>2, FS_AddElement
  <2> QED
    BY <1>3, <1>5, <2>1 DEF Copies
<1>6. CASE p # x
  BY <1>3, <1>4, <1>6 DEF Copies
<1> QED
  BY <1>5, <1>6

\* Erasing an entry takes one copy of it.
LEMMA CopiesWithout ==
    ASSUME NEW q \in Seq(Procs), NEW i \in 1..Len(q), NEW p
    PROVE  Copies(p, q) = Copies(p, Without(q, i)) + (IF p = q[i] THEN 1 ELSE 0)
<1> DEFINE m == Len(q) - 1
           X == 1..m
           Y == (1..Len(q)) \ {i}
           f == [j \in X |-> IF j < i THEN j ELSE j + 1]
           From == Positions(p, Without(q, i))
           To == Positions(p, q) \ {i}
<1>1. Len(q) \in Nat \ {0} /\ m \in Nat /\ Len(q) = m + 1
  OBVIOUS
<1>2. Len(Without(q, i)) = m /\ \A j \in X : Without(q, i)[j] = q[f[j]]
  BY <1>1 DEF Without
<1>3. f \in Bijection(X, Y)
  <2>1. f \in [X -> Y]
    BY <1>1
  <2>2. \A j, k \in X : f[j] = f[k] => j = k
    BY <1>1
  <2>3. \A y \in Y : \E j \in X : f[j] = y
    <3> SUFFICES ASSUME NEW y \in Y PROVE \E j \in X : f[j] = y
      OBVIOUS
    <3>1. CASE y < i
      BY <1>1, <3>1
    <3>2. CASE y > i
      <4>1. y - 1 \in X /\ f[y - 1] = y
        BY <1>1, <3>2
      <4> QED
        BY <4>1
    <3> QED
      BY <1>1, <3>1, <3>2
  <2> HIDE DEF f, X, Y
  <2> QED
    BY <2>1, <2>2, <2>3 DEF Bijection, Injection, Surjection, IsInjective
<1>4. From \in SUBSET X /\ To \in SUBSET Y
  BY <1>2 DEF Positions
<1>5. \A j \in X : j \in From <=> f[j] \in To
  <2>1. \A j \in X : f[j] \in 1..Len(q) /\ f[j] # i
    BY <1>1
  <2> QED
    BY <1>2, <2>1 DEF Positions
<1>6. IsFiniteSet(X)
  BY <1>1, FS_Interval
<1> HIDE DEF f, X, Y, From, To
<1>7. Cardinality(To) = Cardinality(From)
  BY <1>3, <1>4, <1>5, <1>6, BijectionRestricts
<1>8. IsFiniteSet(Positions(p, q)) /\ Cardinality(Positions(p, q)) \in Nat
  BY PositionsFinite
<1>9. i \in Positions(p, q) <=> p = q[i]
  BY DEF Positions
<1>10. Cardinality(Positions(p, Without(q, i))) = Cardinality(Positions(p, q) \ {i})
  BY <1>7 DEF From, To
<1>11. CASE p = q[i]
  <2>1. Cardinality(Positions(p, q) \ {i}) = Cardinality(Positions(p, q)) - 1
    BY <1>8, <1>9, <1>11, FS_RemoveElement
  <2> QED
    BY <1>8, <1>10, <1>11, <2>1 DEF Copies
<1>12. CASE p # q[i]
  <2>1. Positions(p, q) \ {i} = Positions(p, q)
    BY <1>9, <1>12
  <2>2. Cardinality(Positions(p, q) \ {i}) = Cardinality(Positions(p, q))
    BY <2>1, Zenon
  <2> QED
    BY <1>8, <1>10, <1>12, <2>2 DEF Copies
<1> QED
  BY <1>11, <1>12

\* Taking the head takes one copy of it.
LEMMA CopiesTail ==
    ASSUME NEW q \in Seq(Procs), q # <<>>, NEW p
    PROVE  Copies(p, q) = Copies(p, Tail(q)) + (IF p = Head(q) THEN 1 ELSE 0)
<1>1. Without(q, 1) = Tail(q)
  <2>1. Without(q, 1) \in Seq(Procs) /\ Tail(q) \in Seq(Procs)
    BY WithoutType
  <2>2. Len(Without(q, 1)) = Len(q) - 1 /\ Len(Tail(q)) = Len(q) - 1
    BY DEF Without
  <2>3. \A j \in 1..(Len(q) - 1) : Without(q, 1)[j] = Tail(q)[j]
    BY DEF Without
  <2> QED
    BY <2>1, <2>2, <2>3
<1>2. 1 \in 1..Len(q) /\ Head(q) = q[1]
  OBVIOUS
<1> QED
  BY <1>1, <1>2, CopiesWithout

-----------------------------------------------------------------------------
(***************************************************************************)
(* The places.                                                             *)
(***************************************************************************)

\* A step may have moved a process from toReady to readyQueue in between, so
\* both count as one.
ReadyEntries(p) == Copies(p, readyQueue) + Copies(p, toReady)

WaitsFor(p, l, e) ==
    /\ \A k \in LockIds : Copies(p, lockWaitQueues[k]) = IF k = l THEN 1 ELSE 0
    /\ \A d \in EventIds : Copies(p, eventWaitQueues[d]) = IF d = e THEN 1 ELSE 0

\* No lock and no event has this number.
NoId == -1

\* No lock and no event is the id of nothing.
LEMMA IdsFacts == \A k \in LockIds \cup EventIds : k # NoId
BY OperandAssumption DEF NoId

WaitsNowhere(p) == WaitsFor(p, NoId, NoId)

WaitsOnce(p) == \/ \E l \in LockIds : WaitsFor(p, l, NoId)
                \/ \E e \in EventIds : WaitsFor(p, NoId, e)

Nowhere(p) == ReadyEntries(p) = 0 /\ WaitsNowhere(p)

InReady(p) == ReadyEntries(p) = 1 /\ WaitsNowhere(p)

InWait(p) == ReadyEntries(p) = 0 /\ WaitsOnce(p)

StaysPut(p) == /\ Nowhere(p)' <=> Nowhere(p)
               /\ InReady(p)' <=> InReady(p)
               /\ InWait(p)' <=> InWait(p)

(***************************************************************************)
(* How the steps move processes between the places.                        *)
(***************************************************************************)
LEMMA NothingMoves ==
    ASSUME UNCHANGED <<readyQueue, toReady, lockWaitQueues, eventWaitQueues>>, NEW p
    PROVE  StaysPut(p)
BY DEF StaysPut, Nowhere, InReady, InWait, WaitsNowhere, WaitsOnce, WaitsFor, ReadyEntries

\* x enters the ready queue.
LEMMA PushMoves ==
    ASSUME TypeOK, NEW x \in Procs, readyQueue' = Push(readyQueue, x, priority),
           UNCHANGED <<toReady, lockWaitQueues, eventWaitQueues>>
    PROVE  /\ \A p \in Procs \ {x} : StaysPut(p)
           /\ Nowhere(x) => InReady(x)'
<1>1. \A p \in Procs : Copies(p, readyQueue') = Copies(p, readyQueue) + (IF p = x THEN 1 ELSE 0)
  BY PushCopies DEF TypeOK, Copies
<1>2. \A p \in Procs : Copies(p, readyQueue) \in Nat /\ Copies(p, toReady) \in Nat
  BY CopiesNat DEF TypeOK
<1>3. \A p \in Procs : ReadyEntries(p)' = ReadyEntries(p) + (IF p = x THEN 1 ELSE 0)
  BY <1>1, <1>2 DEF ReadyEntries
<1>4. \A p \in Procs : (WaitsNowhere(p)' <=> WaitsNowhere(p)) /\ (WaitsOnce(p)' <=> WaitsOnce(p))
  BY DEF WaitsNowhere, WaitsOnce, WaitsFor
<1>5. \A p \in Procs : ReadyEntries(p) \in Nat
  BY <1>2 DEF ReadyEntries
<1> QED
  BY <1>3, <1>4, <1>5 DEF StaysPut, Nowhere, InReady, InWait

\* The front x leaves the ready queue.
LEMMA PopMoves ==
    ASSUME TypeOK, readyQueue # <<>>, NEW x, x = Top(readyQueue),
           readyQueue' = Pop(readyQueue, priority),
           UNCHANGED <<toReady, lockWaitQueues, eventWaitQueues>>
    PROVE  /\ \A p \in Procs \ {x} : StaysPut(p)
           /\ ReadyEntries(x) > 0
           /\ InReady(x) => Nowhere(x)'
<1>1. \A p \in Procs : Copies(p, readyQueue) = Copies(p, readyQueue') + (IF p = x THEN 1 ELSE 0)
  BY PopCopies DEF TypeOK, Copies
<1>2. readyQueue \in Seq(Procs) /\ readyQueue' \in Seq(Procs)
  BY PopType DEF TypeOK
<1>3. \A p \in Procs : /\ Copies(p, readyQueue) \in Nat /\ Copies(p, readyQueue') \in Nat
                       /\ Copies(p, toReady) \in Nat
  BY <1>2, CopiesNat DEF TypeOK
<1>4. \A p \in Procs : /\ ReadyEntries(p) = ReadyEntries(p)' + (IF p = x THEN 1 ELSE 0)
                       /\ ReadyEntries(p)' \in Nat
  BY <1>1, <1>3 DEF ReadyEntries
<1>5. \A p \in Procs : (WaitsNowhere(p)' <=> WaitsNowhere(p)) /\ (WaitsOnce(p)' <=> WaitsOnce(p))
  BY DEF WaitsNowhere, WaitsOnce, WaitsFor
<1>6. x \in Procs
  BY <1>2, TopType
<1> QED
  BY <1>4, <1>5, <1>6 DEF StaysPut, Nowhere, InReady, InWait

\* A process moves from toReady to the ready queue.
LEMMA AddMoves ==
    ASSUME TypeOK, AddProcess, NEW p \in Procs
    PROVE  StaysPut(p)
<1>1. /\ toReady \in Seq(Procs) /\ toReady # <<>> /\ readyQueue \in Seq(Procs)
      /\ readyQueue' = Push(readyQueue, Head(toReady), priority)
      /\ toReady' = Tail(toReady)
  BY DEF TypeOK, AddProcess
<1>2. Head(toReady) \in Procs /\ Tail(toReady) \in Seq(Procs)
  BY <1>1
<1>3. Copies(p, readyQueue') = Copies(p, readyQueue) + (IF p = Head(toReady) THEN 1 ELSE 0)
  BY <1>1, <1>2, PushCopies DEF Copies
<1>4. Copies(p, toReady) = Copies(p, toReady') + (IF p = Head(toReady) THEN 1 ELSE 0)
  BY <1>1, CopiesTail
<1>5. Copies(p, readyQueue) \in Nat /\ Copies(p, toReady') \in Nat
  BY <1>1, <1>2, CopiesNat
<1>6. ReadyEntries(p)' = ReadyEntries(p)
  BY <1>3, <1>4, <1>5 DEF ReadyEntries
<1>7. (WaitsNowhere(p)' <=> WaitsNowhere(p)) /\ (WaitsOnce(p)' <=> WaitsOnce(p))
  BY DEF AddProcess, lockVars, WaitsNowhere, WaitsOnce, WaitsFor
<1> QED
  BY <1>6, <1>7 DEF StaysPut, Nowhere, InReady, InWait

\* x starts to wait for lock l.
LEMMA LockWaitMoves ==
    ASSUME TypeOK, NEW l \in LockIds, NEW x \in Procs,
           lockWaitQueues' = [lockWaitQueues EXCEPT ![l] = Append(@, x)],
           UNCHANGED <<readyQueue, toReady, eventWaitQueues>>
    PROVE  /\ \A p \in Procs \ {x} : StaysPut(p)
           /\ Nowhere(x) => InWait(x)'
<1>1. \A k \in LockIds : lockWaitQueues[k] \in Seq(Procs)
  BY DEF TypeOK
<1>2. \A p \in Procs, k \in LockIds :
          Copies(p, lockWaitQueues'[k]) =
              Copies(p, lockWaitQueues[k]) + (IF p = x /\ k = l THEN 1 ELSE 0)
  <2> SUFFICES ASSUME NEW p \in Procs, NEW k \in LockIds
               PROVE  Copies(p, lockWaitQueues'[k]) =
                          Copies(p, lockWaitQueues[k]) + (IF p = x /\ k = l THEN 1 ELSE 0)
    OBVIOUS
  <2>1. Copies(p, lockWaitQueues[k]) \in Nat
    BY <1>1, CopiesNat
  <2>2. CASE k = l
    <3>1. lockWaitQueues'[k] = Append(lockWaitQueues[k], x)
      BY <2>2 DEF TypeOK
    <3> QED
      BY <1>1, <2>2, <3>1, CopiesAppend
  <2>3. CASE k # l
    <3>1. lockWaitQueues'[k] = lockWaitQueues[k]
      BY <2>3 DEF TypeOK
    <3> QED
      BY <2>1, <2>3, <3>1
  <2> QED
    BY <2>2, <2>3
<1>3. \A p \in Procs, k \in LockIds : Copies(p, lockWaitQueues[k]) \in Nat
  BY <1>1, CopiesNat
<1>4. \A p \in Procs : ReadyEntries(p)' = ReadyEntries(p)
  BY DEF ReadyEntries
<1>5. \A p \in Procs \ {x} :
          (WaitsNowhere(p)' <=> WaitsNowhere(p)) /\ (WaitsOnce(p)' <=> WaitsOnce(p))
  BY <1>2, <1>3 DEF WaitsNowhere, WaitsOnce, WaitsFor
<1>6. ASSUME WaitsNowhere(x)
      PROVE  WaitsFor(x, l, NoId)'
  <2>1. \A k \in LockIds : Copies(x, lockWaitQueues[k]) = 0
    BY <1>6, IdsFacts DEF WaitsNowhere, WaitsFor
  <2>2. \A k \in LockIds : Copies(x, lockWaitQueues'[k]) = IF k = l THEN 1 ELSE 0
    BY <1>2, <2>1
  <2> QED
    BY <1>6, <2>2 DEF WaitsNowhere, WaitsFor
<1> QED
  BY <1>4, <1>5, <1>6 DEF StaysPut, Nowhere, InReady, InWait, WaitsOnce

\* x starts to wait for event e.
LEMMA EventWaitMoves ==
    ASSUME TypeOK, NEW e \in EventIds, NEW x \in Procs,
           eventWaitQueues' = [eventWaitQueues EXCEPT ![e] = Append(@, x)],
           UNCHANGED <<readyQueue, toReady, lockWaitQueues>>
    PROVE  /\ \A p \in Procs \ {x} : StaysPut(p)
           /\ Nowhere(x) => InWait(x)'
<1>1. \A k \in EventIds : eventWaitQueues[k] \in Seq(Procs)
  BY DEF TypeOK
<1>2. \A p \in Procs, k \in EventIds :
          Copies(p, eventWaitQueues'[k]) =
              Copies(p, eventWaitQueues[k]) + (IF p = x /\ k = e THEN 1 ELSE 0)
  <2> SUFFICES ASSUME NEW p \in Procs, NEW k \in EventIds
               PROVE  Copies(p, eventWaitQueues'[k]) =
                          Copies(p, eventWaitQueues[k]) + (IF p = x /\ k = e THEN 1 ELSE 0)
    OBVIOUS
  <2>1. Copies(p, eventWaitQueues[k]) \in Nat
    BY <1>1, CopiesNat
  <2>2. CASE k = e
    <3>1. eventWaitQueues'[k] = Append(eventWaitQueues[k], x)
      BY <2>2 DEF TypeOK
    <3> QED
      BY <1>1, <2>2, <3>1, CopiesAppend
  <2>3. CASE k # e
    <3>1. eventWaitQueues'[k] = eventWaitQueues[k]
      BY <2>3 DEF TypeOK
    <3> QED
      BY <2>1, <2>3, <3>1
  <2> QED
    BY <2>2, <2>3
<1>3. \A p \in Procs, k \in EventIds : Copies(p, eventWaitQueues[k]) \in Nat
  BY <1>1, CopiesNat
<1>4. \A p \in Procs : ReadyEntries(p)' = ReadyEntries(p)
  BY DEF ReadyEntries
<1>5. \A p \in Procs \ {x} :
          (WaitsNowhere(p)' <=> WaitsNowhere(p)) /\ (WaitsOnce(p)' <=> WaitsOnce(p))
  BY <1>2, <1>3 DEF WaitsNowhere, WaitsOnce, WaitsFor
<1>6. ASSUME WaitsNowhere(x)
      PROVE  WaitsFor(x, NoId, e)'
  <2>1. \A k \in EventIds : Copies(x, eventWaitQueues[k]) = 0
    BY <1>6, IdsFacts DEF WaitsNowhere, WaitsFor
  <2>2. \A k \in EventIds : Copies(x, eventWaitQueues'[k]) = IF k = e THEN 1 ELSE 0
    BY <1>2, <2>1
  <2> QED
    BY <1>6, <2>2 DEF WaitsNowhere, WaitsFor
<1> QED
  BY <1>4, <1>5, <1>6 DEF StaysPut, Nowhere, InReady, InWait, WaitsOnce

\* x gets lock l, which it was waiting for, and enters the ready queue.
LEMMA GrantMoves ==
    ASSUME TypeOK, NEW l \in LockIds, NEW i \in 1..Len(lockWaitQueues[l]),
           NEW x, x = lockWaitQueues[l][i],
           lockWaitQueues' = [lockWaitQueues EXCEPT ![l] = Without(@, i)],
           readyQueue' = Push(readyQueue, x, priority),
           UNCHANGED <<toReady, eventWaitQueues>>
    PROVE  /\ x \in Procs
           /\ \A p \in Procs \ {x} : StaysPut(p)
           /\ ~WaitsNowhere(x)
           /\ InWait(x) => InReady(x)'
<1>1. \A k \in LockIds : lockWaitQueues[k] \in Seq(Procs)
  BY DEF TypeOK
<1>2. x \in Procs
  BY <1>1
<1>3. \A p \in Procs, k \in LockIds :
          Copies(p, lockWaitQueues[k]) =
              Copies(p, lockWaitQueues'[k]) + (IF p = x /\ k = l THEN 1 ELSE 0)
  <2> SUFFICES ASSUME NEW p \in Procs, NEW k \in LockIds
               PROVE  Copies(p, lockWaitQueues[k]) =
                          Copies(p, lockWaitQueues'[k]) + (IF p = x /\ k = l THEN 1 ELSE 0)
    OBVIOUS
  <2>1. Copies(p, lockWaitQueues[k]) \in Nat
    BY <1>1, CopiesNat
  <2>2. CASE k = l
    <3>1. lockWaitQueues'[k] = Without(lockWaitQueues[k], i)
      BY <2>2 DEF TypeOK
    <3> QED
      BY <1>1, <2>2, <3>1, CopiesWithout
  <2>3. CASE k # l
    <3>1. lockWaitQueues'[k] = lockWaitQueues[k]
      BY <2>3 DEF TypeOK
    <3> QED
      BY <2>1, <2>3, <3>1
  <2> QED
    BY <2>2, <2>3
<1>4. \A p \in Procs, k \in LockIds : Copies(p, lockWaitQueues'[k]) \in Nat
  <2>1. \A k \in LockIds : lockWaitQueues'[k] \in Seq(Procs)
    BY <1>1, WithoutType DEF TypeOK
  <2> QED
    BY <2>1, CopiesNat
<1>5. \A p \in Procs : ReadyEntries(p)' = ReadyEntries(p) + (IF p = x THEN 1 ELSE 0)
  <2>1. \A p \in Procs : Copies(p, readyQueue') =
                             Copies(p, readyQueue) + (IF p = x THEN 1 ELSE 0)
    BY <1>2, PushCopies DEF TypeOK, Copies
  <2>2. \A p \in Procs : Copies(p, readyQueue) \in Nat /\ Copies(p, toReady) \in Nat
    BY CopiesNat DEF TypeOK
  <2> QED
    BY <2>1, <2>2 DEF ReadyEntries
<1>6. \A p \in Procs : ReadyEntries(p) \in Nat
  <2>1. \A p \in Procs : Copies(p, readyQueue) \in Nat /\ Copies(p, toReady) \in Nat
    BY CopiesNat DEF TypeOK
  <2> QED
    BY <2>1 DEF ReadyEntries
<1>7. ASSUME NEW p \in Procs \ {x}
      PROVE  (WaitsNowhere(p)' <=> WaitsNowhere(p)) /\ (WaitsOnce(p)' <=> WaitsOnce(p))
  BY <1>3, <1>4 DEF WaitsNowhere, WaitsOnce, WaitsFor
<1>8. Copies(x, lockWaitQueues[l]) > 0
  BY <1>2, <1>3, <1>4
<1>9. ~WaitsNowhere(x)
  BY <1>8, IdsFacts DEF WaitsNowhere, WaitsFor
<1>10. ASSUME WaitsOnce(x)
       PROVE  WaitsNowhere(x)'
  <2>1. WaitsFor(x, l, NoId)
    BY <1>8, <1>10, IdsFacts DEF WaitsOnce, WaitsFor
  <2>2. \A k \in LockIds : Copies(x, lockWaitQueues'[k]) = 0
    BY <1>2, <1>3, <1>4, <2>1 DEF WaitsFor
  <2> QED
    BY <2>1, <2>2, IdsFacts DEF WaitsNowhere, WaitsFor
<1>11. InWait(x) => InReady(x)'
  BY <1>2, <1>5, <1>10 DEF InWait, InReady
<1> QED
  BY <1>2, <1>5, <1>6, <1>7, <1>9, <1>11 DEF StaysPut, Nowhere, InReady, InWait

\* The processes that wait for event e are collected in toReady.
LEMMA SignalMoves ==
    ASSUME TypeOK, toReady = <<>>, NEW e \in EventIds,
           toReady' = eventWaitQueues[e],
           eventWaitQueues' = [eventWaitQueues EXCEPT ![e] = <<>>],
           UNCHANGED <<readyQueue, lockWaitQueues>>, NEW p \in Procs
    PROVE  IF In(p, eventWaitQueues[e])
           THEN ~WaitsNowhere(p) /\ (InWait(p) => InReady(p)')
           ELSE StaysPut(p)
<1>1. \A k \in EventIds : eventWaitQueues[k] \in Seq(Procs) /\ Copies(p, eventWaitQueues[k]) \in Nat
  BY CopiesNat DEF TypeOK
<1>2. Copies(p, eventWaitQueues'[e]) = 0
  <2>1. eventWaitQueues'[e] = <<>>
    BY DEF TypeOK
  <2> QED
    BY <2>1, CopiesEmpty
<1>3. \A k \in EventIds \ {e} : eventWaitQueues'[k] = eventWaitQueues[k]
  BY DEF TypeOK
<1>4. Copies(p, eventWaitQueues[e]) # 0 <=> In(p, eventWaitQueues[e])
  BY <1>1, CopiesNat
<1>5. Copies(p, readyQueue) \in Nat /\ Copies(p, toReady) = 0
  BY CopiesNat, CopiesEmpty DEF TypeOK
<1>6. /\ ReadyEntries(p) = Copies(p, readyQueue)
      /\ ReadyEntries(p)' = Copies(p, readyQueue) + Copies(p, eventWaitQueues[e])
  BY <1>5 DEF ReadyEntries
<1>7. CASE In(p, eventWaitQueues[e])
  <2>1. ~WaitsNowhere(p)
    BY <1>4, <1>7, IdsFacts DEF WaitsNowhere, WaitsFor
  <2>2. ASSUME InWait(p)
        PROVE  InReady(p)'
    <3>1. WaitsFor(p, NoId, e)
      BY <1>4, <1>7, <2>2, IdsFacts DEF InWait, WaitsOnce, WaitsFor
    <3>2. Copies(p, eventWaitQueues[e]) = 1
      BY <3>1 DEF WaitsFor
    <3>3. \A k \in EventIds : Copies(p, eventWaitQueues'[k]) = 0
      BY <1>2, <1>3, <3>1 DEF WaitsFor
    <3>4. WaitsNowhere(p)'
      BY <3>1, <3>3, IdsFacts DEF WaitsNowhere, WaitsFor
    <3> QED
      BY <1>5, <1>6, <2>2, <3>2, <3>4 DEF InWait, InReady
  <2> QED
    BY <1>7, <2>1, <2>2
<1>8. CASE ~In(p, eventWaitQueues[e])
  <2>1. \A k \in EventIds : Copies(p, eventWaitQueues'[k]) = Copies(p, eventWaitQueues[k])
    BY <1>2, <1>3, <1>4, <1>8
  <2>2. (WaitsNowhere(p)' <=> WaitsNowhere(p)) /\ (WaitsOnce(p)' <=> WaitsOnce(p))
    BY <2>1 DEF WaitsNowhere, WaitsOnce, WaitsFor
  <2>3. ReadyEntries(p)' = ReadyEntries(p)
    BY <1>4, <1>5, <1>6, <1>8
  <2> QED
    BY <1>8, <2>2, <2>3 DEF StaysPut, Nowhere, InReady, InWait
<1> QED
  BY <1>7, <1>8

-----------------------------------------------------------------------------
(***************************************************************************)
(* The invariant.  Which place a process has, by its state.                *)
(***************************************************************************)

\* A request flag says that the running process has begun to wait.
Waits == flags \cap {"lock", "event"} # {}

\* p has the processor: it is in no queue until it gives it up.
Executing(p) == InRun /\ runningProcess = p /\ ~Waits

HasProcessor(p) ==
    /\ Nowhere(p)
    /\ p \in processList => state[p] = "Running" /\ ~isBlocked[p]

\* p is where its state says; a process that was killed may be anywhere, but
\* once only.
Settled(p) ==
    /\ Nowhere(p) \/ InReady(p) \/ InWait(p)
    /\ p \in processList =>
          \/ InReady(p) /\ WantsReady(p) /\ ~isBlocked[p]
          \/ InWait(p) /\ state[p] = "Waiting" /\ ~isBlocked[p]
          \/ Nowhere(p) /\ state[p] = "Waiting" /\ isBlocked[p]
          \/ Nowhere(p) /\ state[p] = "Sleeping" /\ ~isBlocked[p] /\ "sleep" \in Opcodes

OnePlace == \A p \in Procs : IF Executing(p) THEN HasProcessor(p) ELSE Settled(p)

(***************************************************************************)
(* What the handlers need to keep it.                                      *)
(***************************************************************************)

\* The processes main() has still to load.
Booting ==
    pc = "boot" =>
        /\ flags = {} /\ runningProcess = NoProc /\ Idle \in processList
        /\ \A p \in Procs \ processList : Nowhere(p) /\ state[p] = "New" /\ ~isBlocked[p]

\* Without sleepers one request is up at a time, and start() has served it
\* before the next process runs.
OneOf(fs) == \E f \in {"terminated", "lock", "event", "expired", "blocked"} : fs \subseteq {f}

OneRequest ==
    IF "sleep" \in Opcodes
    THEN flags \subseteq {"preempt", "sleep", "expired"} /\ pc # "release"
    ELSE /\ OneOf(flags)
         /\ pc \in {"execute", "release"} => flags = {}
         /\ pc \in {"boot", "dispatch"} => flags \subseteq {"expired"}

\* A process that has begun to wait is served by start() before it can be
\* anything else.
WaitsToBeServed ==
    Waits => /\ pc \in {"callback", "cycleEnd"}
             /\ runningProcess \in processList =>
                    state[runningProcess] = "Waiting" /\ ~isBlocked[runningProcess]

SleepersWake ==
    waking # {} => /\ pc = "cycleEnd" /\ "sleep" \in Opcodes
                   /\ \A p \in waking : p \in processList /\ state[p] = "Sleeping"

\* run() always has a process, and the idle one makes no request.
RunnerKnown ==
    InRun => /\ runningProcess # NoProc
             /\ runningProcess = Idle => /\ flags \subseteq {"expired", "preempt"}
                                         /\ pc # "release"

IdleStates ==
    IF Idle \in processList
    THEN state[Idle] \in {"New", "Ready", "Running"} /\ ~isBlocked[Idle]
    ELSE state[Idle] = "Terminated" /\ ~(InRun /\ runningProcess = Idle) /\ pc # "boot"

IdleNeverWaits ==
    /\ \A e \in EventIds : ~In(Idle, eventWaitQueues[e])
    /\ ~In(Idle, toReady)

\* Where programs sleep nobody terminates, and a request to sleep that a
\* preemption has put off falls on a user process.
NobodyDies ==
    "sleep" \in Opcodes =>
        /\ \A p \in Procs : state[p] # "Terminated"
        /\ pc # "boot" => processList = Procs
        /\ "sleep" \in flags /\ pc = "dispatch" => \E u \in Users : In(u, readyQueue)

Alive == pc \notin {"halted", "crashed"}

PlaceInv ==
    /\ TypeOK /\ AddedInTime /\ IdleIsLowest /\ IdleTakesNoLock /\ UsersAboveIdle
    /\ IdleNeverWaits
    /\ Alive => /\ OnePlace /\ Booting /\ OneRequest /\ WaitsToBeServed /\ SleepersWake
                /\ RunnerKnown /\ IdleStates /\ NobodyDies

(***************************************************************************)
(* The workloads it holds of.                                              *)
(***************************************************************************)
CalmWorkload ==
    "sleep" \in Opcodes =>
        Opcodes \cap {"fault", "block", "fatal", "exit", "acquire", "wait", "terminate"} = {}

-----------------------------------------------------------------------------
(***************************************************************************)
(* Steps that leave a process where it is.                                 *)
(***************************************************************************)
LEMMA UnmovedStays ==
    ASSUME NEW p, StaysPut(p),
           p \in processList' =>
               p \in processList /\ state'[p] = state[p] /\ isBlocked'[p] = isBlocked[p]
    PROVE  /\ HasProcessor(p) => HasProcessor(p)'
           /\ Settled(p) => Settled(p)'
BY DEF StaysPut, HasProcessor, Settled, WantsReady

\* Steps within run() leave alone who has the processor.
LEMMA StillExecuting ==
    ASSUME InRun, InRun', UNCHANGED runningProcess, ~Waits, ~Waits'
    PROVE  \A p \in Procs : Executing(p)' <=> Executing(p)
BY DEF Executing

\* Outside run(), and while a wait is to be served, nobody has the processor.
LEMMA NobodyExecutes ==
    ASSUME ~InRun \/ Waits
    PROVE  \A p : ~Executing(p)
BY DEF Executing

\* The steps that move nobody.
LEMMA OnePlaceKept ==
    ASSUME OnePlace, UNCHANGED <<readyQueue, toReady, lockWaitQueues, eventWaitQueues, state,
                                 isBlocked, processList>>,
           \A p \in Procs : Executing(p)' <=> Executing(p)
    PROVE  OnePlace'
BY NothingMoves, UnmovedStays DEF OnePlace

\* The steps that move x only.
LEMMA OnePlaceMoves ==
    ASSUME OnePlace, NEW x \in Procs, \A p \in Procs \ {x} : StaysPut(p),
           \A p \in Procs \ {x} : p \in processList' =>
               p \in processList /\ state'[p] = state[p] /\ isBlocked'[p] = isBlocked[p],
           \A p \in Procs \ {x} : Executing(p)' <=> Executing(p),
           IF Executing(x)' THEN HasProcessor(x)' ELSE Settled(x)'
    PROVE  OnePlace'
<1>1. ASSUME NEW p \in Procs \ {x}
      PROVE  IF Executing(p)' THEN HasProcessor(p)' ELSE Settled(p)'
  <2>1. /\ HasProcessor(p) => HasProcessor(p)'
        /\ Settled(p) => Settled(p)'
    BY UnmovedStays
  <2> QED
    BY <2>1 DEF OnePlace
<1> QED
  BY <1>1 DEF OnePlace

-----------------------------------------------------------------------------
(***************************************************************************)
(* Every step keeps each process in one place.                             *)
(***************************************************************************)
LEMMA RunsInOnePlace ==
    ASSUME PlaceInv, NEW p \in Procs, pc = "execute", runningProcess = p
    PROVE  /\ Alive /\ InRun /\ ~Waits /\ Executing(p) /\ HasProcessor(p)
           /\ \A q \in Procs \ {p} : ~Executing(q) /\ Settled(q)
<1>1. Alive /\ InRun /\ ~Waits
  BY DEF PlaceInv, Alive, InRun, WaitsToBeServed
<1> QED
  BY <1>1 DEF PlaceInv, OnePlace, Executing

\* Instructions that only compute or ask for a rescheduling move nobody.
LEMMA ComputesPlace ==
    ASSUME PlaceInv, NEW p \in Procs, Computes(p) \/ Schedules(p), Alive'
    PROVE  OnePlace'
<1>1. /\ pc = "execute" /\ runningProcess = p /\ pc' \in {"callback", "crashed"}
      /\ UNCHANGED <<runningProcess, readyQueue, toReady, lockWaitQueues, eventWaitQueues,
                     state, isBlocked, processList>>
      /\ flags' \subseteq flags \cup {"expired", "terminated", "blocked", "sleep"}
  BY DEF Computes, Schedules, Step, Fault, MemoryBlock, MemoryFatal, WritePidReg, Sleep,
         SetPriority, Executes, Fetches, Completes, Returns, unchangedByCpu, pcbVars, lockVars,
         eventVars
<1>2. InRun' /\ ~Waits'
  BY <1>1, RunsInOnePlace DEF Alive, InRun, Waits
<1> QED
  BY <1>1, <1>2, RunsInOnePlace, StillExecuting, OnePlaceKept DEF PlaceInv

\* An instruction that makes its process wait moves it into one wait queue.
LEMMA BeginsToWait ==
    ASSUME PlaceInv, NEW p \in Procs, pc = "execute", runningProcess = p,
           Waits', UNCHANGED <<runningProcess, isBlocked, processList>>,
           state' = [state EXCEPT ![p] = "Waiting"],
           \A q \in Procs \ {p} : StaysPut(q),
           Nowhere(p) => InWait(p)'
    PROVE  OnePlace'
<1>1. state \in [Procs -> States] /\ processList \subseteq Procs
  BY DEF PlaceInv, TypeOK
<1>2. \A q \in Procs : ~Executing(q)'
  BY DEF Executing
<1>3. Settled(p)'
  <2>1. InWait(p)' /\ (p \in processList => ~isBlocked[p])
    BY RunsInOnePlace DEF HasProcessor
  <2> QED
    BY <1>1, <2>1 DEF Settled
<1> QED
  BY <1>1, <1>2, <1>3, RunsInOnePlace, OnePlaceMoves DEF PlaceInv

\* A lock handed over moves one waiter to the ready queue.
LEMMA HandOverPlace ==
    ASSUME PlaceInv, Alive, NEW l \in LockIds, HandOver(l),
           UNCHANGED <<runningProcess, isBlocked, processList, toReady, eventWaitQueues>>,
           \A q \in Procs : Executing(q)' <=> Executing(q)
    PROVE  OnePlace'
<1>1. CASE UNCHANGED <<lockWaitQueues, state, readyQueue>>
  BY <1>1, OnePlaceKept DEF PlaceInv
<1>2. ASSUME NEW i \in 1..Len(lockWaitQueues[l]), NEW x, x = lockWaitQueues[l][i],
             lockWaitQueues' = [lockWaitQueues EXCEPT ![l] = Without(@, i)],
             state' = [state EXCEPT ![x] = "Ready"],
             readyQueue' = Push(readyQueue, x, priority)
      PROVE  OnePlace'
  <2>1. /\ x \in Procs /\ \A q \in Procs \ {x} : StaysPut(q)
        /\ ~WaitsNowhere(x) /\ (InWait(x) => InReady(x)')
    BY <1>2, GrantMoves DEF PlaceInv
  <2>2. ~Executing(x) /\ Settled(x) /\ InWait(x)
    BY <2>1 DEF PlaceInv, OnePlace, HasProcessor, Settled, Nowhere, InReady
  <2>3. state \in [Procs -> States] /\ processList \subseteq Procs
    BY DEF PlaceInv, TypeOK
  <2>4. x \in processList => ~isBlocked[x]
    BY <2>1, <2>2 DEF Settled, Nowhere, InReady
  <2>5. Settled(x)'
    BY <1>2, <2>1, <2>2, <2>3, <2>4 DEF Settled, WantsReady
  <2> QED
    BY <1>2, <2>1, <2>2, <2>3, <2>5, OnePlaceMoves DEF PlaceInv
<1> QED
  BY <1>1, <1>2 DEF HandOver

\* A signal makes all waiters of the event Ready and moves them to toReady.
LEMMA SignalPlace ==
    ASSUME PlaceInv, NEW p \in Procs, NEW e \in EventIds, SignalEvent(p, e)
    PROVE  OnePlace'
<1>1. /\ pc = "execute" /\ runningProcess = p /\ pc' = "callback"
      /\ UNCHANGED <<runningProcess, readyQueue, lockWaitQueues, isBlocked, processList>>
      /\ toReady' = eventWaitQueues[e]
      /\ eventWaitQueues' = [eventWaitQueues EXCEPT ![e] = <<>>]
      /\ flags' \subseteq flags \cup {"expired"}
  BY DEF SignalEvent, Executes, Fetches, Completes, unchangedByCpu, lockVars
<1>2. toReady = <<>>
  BY <1>1 DEF PlaceInv, AddedInTime
<1>3. \A q \in Procs : Executing(q)' <=> Executing(q)
  <2>1. InRun' /\ ~Waits'
    BY <1>1, RunsInOnePlace DEF InRun, Waits
  <2> QED
    BY <1>1, <2>1, RunsInOnePlace, StillExecuting
<1>4. ASSUME NEW q \in Procs
      PROVE  IF Executing(q)' THEN HasProcessor(q)' ELSE Settled(q)'
  <2>1. IF Executing(q) THEN HasProcessor(q) ELSE Settled(q)
    BY <1>1, RunsInOnePlace DEF PlaceInv, OnePlace
  <2>2. state'[q] = IF In(q, eventWaitQueues[e]) THEN "Ready" ELSE state[q]
    BY DEF SignalEvent, In, Positions
  <2>3. CASE In(q, eventWaitQueues[e])
    <3>1. ~WaitsNowhere(q) /\ (InWait(q) => InReady(q)')
      BY <1>1, <1>2, <2>3, SignalMoves DEF PlaceInv
    <3>2. ~Executing(q) /\ Settled(q) /\ InWait(q)
      BY <2>1, <3>1 DEF HasProcessor, Settled, Nowhere, InReady
    <3>3. q \in processList => ~isBlocked[q]
      BY <3>1, <3>2 DEF Settled, Nowhere, InReady
    <3> QED
      BY <1>1, <1>3, <2>2, <2>3, <3>1, <3>2, <3>3 DEF Settled, WantsReady
  <2>4. CASE ~In(q, eventWaitQueues[e])
    <3>1. StaysPut(q)
      BY <1>1, <1>2, <2>4, SignalMoves DEF PlaceInv
    <3> QED
      BY <1>1, <1>3, <2>1, <2>2, <2>4, <3>1, UnmovedStays
  <2> QED
    BY <2>3, <2>4
<1> QED
  BY <1>4 DEF OnePlace

\* The instructions on locks and events.
LEMMA SynchronizesPlace ==
    ASSUME PlaceInv, NEW p \in Procs, Synchronizes(p)
    PROVE  OnePlace'
<1> USE DEF unchangedByCpu, lockVars, eventVars
<1>1. pc = "execute" /\ runningProcess = p /\ UNCHANGED runningProcess /\ pc' = "callback"
  BY DEF Synchronizes, AcquireLock, WaitForLock, ReleaseLock, SignalEvent, WaitEvent, Executes,
         Fetches, Completes, Returns
<1>2. ASSUME flags' \subseteq flags \cup {"expired"}
      PROVE  \A q \in Procs : Executing(q)' <=> Executing(q)
  <2>1. InRun' /\ ~Waits'
    BY <1>1, <1>2, RunsInOnePlace DEF InRun, Waits
  <2> QED
    BY <1>1, <2>1, RunsInOnePlace, StillExecuting
<1>3. ASSUME flags' \subseteq flags \cup {"expired"},
             UNCHANGED <<readyQueue, toReady, lockWaitQueues, eventWaitQueues, state,
                         isBlocked, processList>>
      PROVE  OnePlace'
  BY <1>1, <1>2, <1>3, RunsInOnePlace, OnePlaceKept DEF PlaceInv
<1>4. ASSUME NEW l \in LockIds, AcquireLock(p, l)
      PROVE  OnePlace'
  BY <1>3, <1>4 DEF AcquireLock, Completes
<1>5. ASSUME NEW l \in LockIds, WaitForLock(p, l)
      PROVE  OnePlace'
  <2>1. (\A q \in Procs \ {p} : StaysPut(q)) /\ (Nowhere(p) => InWait(p)')
    BY <1>5, LockWaitMoves DEF WaitForLock, PlaceInv
  <2>2. Waits'
    BY <1>5 DEF WaitForLock, Returns, Waits
  <2> QED
    BY <1>1, <1>5, <2>1, <2>2, BeginsToWait DEF WaitForLock
<1>6. ASSUME NEW l \in LockIds, ReleaseLock(p, l)
      PROVE  OnePlace'
  <2>1. /\ flags' \subseteq flags \cup {"expired"}
        /\ UNCHANGED <<toReady, eventWaitQueues, isBlocked, processList>>
        /\ HandOver(l) \/ UNCHANGED <<lockWaitQueues, state, readyQueue>>
    BY <1>6 DEF ReleaseLock, Completes
  <2>2. CASE HandOver(l)
    BY <1>1, <1>2, <2>1, <2>2, RunsInOnePlace, HandOverPlace
  <2> QED
    BY <1>3, <2>1, <2>2
<1>7. ASSUME NEW e \in EventIds, WaitEvent(p, e)
      PROVE  OnePlace'
  <2>1. CASE Signalled(e)
    BY <1>3, <1>7, <2>1 DEF WaitEvent, Completes
  <2>2. CASE ~Signalled(e)
    <3>1. /\ state' = [state EXCEPT ![p] = "Waiting"]
          /\ eventWaitQueues' = [eventWaitQueues EXCEPT ![e] = Append(@, p)]
          /\ UNCHANGED <<isBlocked, processList, readyQueue, toReady, lockWaitQueues>>
          /\ Waits'
      BY <1>7, <2>2 DEF WaitEvent, Returns, Waits
    <3>2. (\A q \in Procs \ {p} : StaysPut(q)) /\ (Nowhere(p) => InWait(p)')
      BY <3>1, EventWaitMoves DEF PlaceInv
    <3> QED
      BY <1>1, <3>1, <3>2, BeginsToWait
  <2> QED
    BY <2>1, <2>2
<1> QED
  BY <1>4, <1>5, <1>6, <1>7, SignalPlace DEF Synchronizes

\* What unblockProcesses does to a process blocked on memory: it is in no
\* queue, and enters the ready queue.
LEMMA UnblocksPlace ==
    ASSUME PlaceInv, Alive, NEW t \in Procs, processList' = processList \ {t},
           \/ Unblocks(processList', Killed(t))
           \/ UnblockThrows(processList', Killed(t)),
           UNCHANGED <<toReady, lockWaitQueues, eventWaitQueues>>,
           \A q \in Procs \ {t} : Executing(q)' <=> Executing(q),
           Executing(t)' => Executing(t)
    PROVE  OnePlace'
<1>1. /\ state \in [Procs -> States] /\ isBlocked \in [Procs -> BOOLEAN]
      /\ processList \subseteq Procs
      /\ Killed(t) \in [Procs -> States]
      /\ \A q \in Procs \ {t} : Killed(t)[q] = state[q]
  BY KilledType DEF PlaceInv, TypeOK, Killed
<1>2. ASSUME StaysPut(t)
      PROVE  IF Executing(t)' THEN HasProcessor(t)' ELSE Settled(t)'
  <2>1. IF Executing(t) THEN HasProcessor(t) ELSE Settled(t)
    BY DEF PlaceInv, OnePlace
  <2> QED
    BY <1>2, <2>1 DEF StaysPut, HasProcessor, Settled
<1>3. CASE state' = Killed(t) /\ UNCHANGED <<isBlocked, readyQueue>>
  <2>1. \A q \in Procs : StaysPut(q)
    BY <1>3, NothingMoves
  <2> QED
    BY <1>1, <1>2, <1>3, <2>1, OnePlaceMoves DEF PlaceInv
<1>4. ASSUME NEW x \in Procs, x \in processList', state[x] = "Waiting", isBlocked[x],
             state' = [Killed(t) EXCEPT ![x] = "Ready"],
             isBlocked' = [isBlocked EXCEPT ![x] = FALSE],
             readyQueue' = Push(readyQueue, x, priority)
      PROVE  OnePlace'
  <2>1. (\A q \in Procs \ {x} : StaysPut(q)) /\ (Nowhere(x) => InReady(x)')
    BY <1>4, PushMoves DEF PlaceInv
  <2>2. x # t /\ x \in processList
    BY <1>4
  <2>3. ~Executing(x) /\ Settled(x) /\ Nowhere(x)
    BY <1>4, <2>2 DEF PlaceInv, OnePlace, HasProcessor, Settled, WantsReady
  <2>4. ~Executing(x)' /\ Settled(x)'
    BY <1>1, <1>4, <2>1, <2>2, <2>3 DEF Settled, WantsReady
  <2>5. ASSUME NEW q \in Procs \ {x, t}
        PROVE  IF Executing(q)' THEN HasProcessor(q)' ELSE Settled(q)'
    <3>1. IF Executing(q) THEN HasProcessor(q) ELSE Settled(q)
      BY DEF PlaceInv, OnePlace
    <3>2. state'[q] = state[q] /\ isBlocked'[q] = isBlocked[q]
      BY <1>1, <1>4
    <3>3. (HasProcessor(q) => HasProcessor(q)') /\ (Settled(q) => Settled(q)')
      BY <2>1, <3>2, UnmovedStays
    <3> QED
      BY <3>1, <3>3
  <2>6. IF Executing(t)' THEN HasProcessor(t)' ELSE Settled(t)'
    BY <1>2, <2>1, <2>2
  <2> QED
    BY <2>4, <2>5, <2>6 DEF OnePlace
<1> QED
  BY <1>1, <1>3, <1>4 DEF Unblocks, UnblockThrows, HighestBlocked, BlockedOnMemory

\* Exit and TerminateProcess.
LEMMA TerminatesPlace ==
    ASSUME PlaceInv, NEW p \in Procs, Terminates(p), Alive'
    PROVE  OnePlace'
<1> USE DEF unchangedByCpu, lockVars, eventVars
<1>1. /\ pc = "execute" /\ runningProcess = p /\ pc' \in {"callback", "release", "crashed"}
      /\ flags' \subseteq flags \cup {"expired", "terminated", "blocked"}
      /\ UNCHANGED runningProcess
  BY DEF Terminates, Exit, NobodyToKill, TerminateProcess, TerminateProcessThrows, Kills,
         Executes, Fetches, Completes, Returns
<1>2. InRun' /\ ~Waits'
  BY <1>1, RunsInOnePlace DEF InRun, Alive, Waits
<1>3. \A q \in Procs : Executing(q)' <=> Executing(q)
  BY <1>1, <1>2, RunsInOnePlace, StillExecuting
<1>4. CASE Exit(p) \/ \E t \in Targets : NobodyToKill(p, t)
  BY <1>1, <1>3, <1>4, RunsInOnePlace, OnePlaceKept DEF Exit, NobodyToKill, PlaceInv
<1>5. ASSUME NEW t \in Targets, TerminateProcess(p, t) \/ TerminateProcessThrows(p, t)
      PROVE  OnePlace'
  <2>1. /\ processList' = processList \ {t}
        /\ \/ Unblocks(processList', Killed(t))
           \/ UnblockThrows(processList', Killed(t))
        /\ UNCHANGED <<toReady, lockWaitQueues, eventWaitQueues>>
    BY <1>5 DEF TerminateProcess, TerminateProcessThrows, Kills
  <2>2. t \in Procs
    BY OperandAssumption
  <2> QED
    BY <1>1, <1>3, <2>1, <2>2, RunsInOnePlace, UnblocksPlace
<1> QED
  BY <1>4, <1>5 DEF Terminates

\* A sleeper that is due moves to the ready queue.
LEMMA WakeUpPlace ==
    ASSUME PlaceInv, WakeUp
    PROVE  OnePlace'
<1>1. /\ pc = "cycleEnd" /\ UNCHANGED <<pc, runningProcess>>
      /\ flags' \subseteq flags \cup {"preempt"} /\ flags \subseteq flags'
      /\ UNCHANGED <<isBlocked, processList, toReady, lockWaitQueues, eventWaitQueues>>
  BY DEF WakeUp, lockVars, eventVars
<1>2. PICK x \in waking : /\ state' = [state EXCEPT ![x] = "Ready"]
                          /\ readyQueue' = Push(readyQueue, x, priority)
  BY DEF WakeUp
<1>3. x \in processList /\ state[x] = "Sleeping" /\ Alive
  BY <1>1, <1>2 DEF PlaceInv, SleepersWake, Alive
<1>4. x \in Procs /\ state \in [Procs -> States]
  BY <1>3 DEF PlaceInv, TypeOK
<1>5. ~Executing(x) /\ Nowhere(x) /\ ~isBlocked[x]
  BY <1>3, <1>4 DEF PlaceInv, OnePlace, HasProcessor, Settled, WantsReady
<1>6. (\A q \in Procs \ {x} : StaysPut(q)) /\ InReady(x)'
  BY <1>1, <1>2, <1>4, <1>5, PushMoves DEF PlaceInv
<1>7. \A q \in Procs : Executing(q)' <=> Executing(q)
  BY <1>1 DEF Executing, InRun, Waits
<1>8. Settled(x)'
  BY <1>1, <1>2, <1>4, <1>5, <1>6 DEF Settled, WantsReady
<1> QED
  BY <1>1, <1>2, <1>3, <1>4, <1>5, <1>6, <1>7, <1>8, OnePlaceMoves DEF PlaceInv

\* A turn of the loop of run().
LEMMA CyclePlace ==
    ASSUME PlaceInv, Cycle, Alive, Alive'
    PROVE  OnePlace'
<1> USE DEF pcbVars, lockVars, eventVars
<1>1. CASE ReleaseHeldLock
  <2>1. PICK l \in releasing : HandOver(l)
    BY <1>1 DEF ReleaseHeldLock
  <2>2. l \in LockIds
    BY DEF PlaceInv, TypeOK
  <2>3. UNCHANGED <<pc, runningProcess, flags, isBlocked, processList, toReady, eventWaitQueues>>
    BY <1>1 DEF ReleaseHeldLock, unchangedByCpu
  <2>4. \A q \in Procs : Executing(q)' <=> Executing(q)
    BY <2>3 DEF Executing, InRun, Waits
  <2> QED
    BY <2>1, <2>2, <2>3, <2>4, HandOverPlace
<1>2. CASE AddProcess
  <2>1. UNCHANGED <<pc, runningProcess, flags, isBlocked, processList, state>>
    BY <1>2 DEF AddProcess
  <2>2. \A q \in Procs : Executing(q)' <=> Executing(q)
    BY <2>1 DEF Executing, InRun, Waits
  <2>3. \A q \in Procs : StaysPut(q)
    BY <1>2, AddMoves DEF PlaceInv
  <2> QED
    BY <2>1, <2>2, <2>3, UnmovedStays DEF PlaceInv, OnePlace
<1>3. CASE NoRunningProcess \/ FinishExit \/ Callback \/ NextCycleOfRun
  <2>1. /\ UNCHANGED <<readyQueue, toReady, lockWaitQueues, eventWaitQueues, state, isBlocked,
                       processList, runningProcess>>
        /\ InRun /\ InRun' /\ flags' \subseteq flags \cup {"terminated"} /\ flags \subseteq flags'
    BY <1>3 DEF NoRunningProcess, FinishExit, Callback, NextCycleOfRun, InRun
  <2>2. \A q \in Procs : Executing(q)' <=> Executing(q)
    BY <2>1 DEF Executing, Waits
  <2> QED
    BY <2>1, <2>2, OnePlaceKept DEF PlaceInv
<1> QED
  BY <1>1, <1>2, <1>3, ComputesPlace, SynchronizesPlace, TerminatesPlace, WakeUpPlace DEF Cycle

\* What is popped was in the ready queue and nowhere else.
LEMMA PoppedPlace ==
    ASSUME PlaceInv, pc = "dispatch", readyQueue # <<>>, NEW x, x = Top(readyQueue),
           readyQueue' = Pop(readyQueue, priority),
           UNCHANGED <<toReady, lockWaitQueues, eventWaitQueues>>
    PROVE  /\ x \in Procs /\ \A q \in Procs \ {x} : StaysPut(q)
           /\ Nowhere(x)'
           /\ x \in processList => WantsReady(x) /\ ~isBlocked[x]
<1>1. x \in Procs
  BY TopType DEF PlaceInv, TypeOK
<1>2. /\ \A q \in Procs \ {x} : StaysPut(q)
      /\ ReadyEntries(x) > 0
      /\ InReady(x) => Nowhere(x)'
  BY PopMoves DEF PlaceInv
<1>3. Settled(x)
  BY <1>1 DEF PlaceInv, Alive, OnePlace, Executing, InRun
<1> QED
  BY <1>1, <1>2, <1>3 DEF Settled, Nowhere, InReady, InWait

\* The idle process is queued whenever it is not running, so that the queue is
\* empty only when it is dead.
LEMMA SomebodyToRun ==
    ASSUME PlaceInv, DispatchNobody
    PROVE  ~Alive' /\ Idle \notin processList
<1>1. pc = "dispatch" /\ readyQueue = <<>> /\ Alive /\ ~InRun
  BY DEF DispatchNobody, Alive, InRun
<1>2. ReadyEntries(Idle) = 0
  <2>1. toReady = <<>>
    BY <1>1 DEF PlaceInv, AddedInTime
  <2> QED
    BY <1>1, <2>1, CopiesEmpty DEF ReadyEntries
<1>3. Idle \notin processList
  <2>1. Settled(Idle)
    BY <1>1, ProcsFacts DEF PlaceInv, OnePlace, Executing
  <2> QED
    BY <1>1, <1>2, <2>1 DEF PlaceInv, IdleStates, Settled, InReady
<1>4. ~Runnable(Idle)
  BY <1>1, <1>3 DEF PlaceInv, IdleStates, Runnable
<1> QED
  BY <1>3, <1>4 DEF DispatchNobody, Alive

\* The top of the loop of start().
LEMMA DispatchPlace ==
    ASSUME PlaceInv, Dispatch, Alive'
    PROVE  OnePlace'
<1> USE DEF lockVars, eventVars
<1>1. Alive /\ ~InRun /\ ~Waits /\ pc = "dispatch"
  <2>1. pc = "dispatch"
    BY DEF Dispatch, Halt, DropTerminated, DispatchIdle, DispatchNobody, DispatchUser, LoadBlocks,
           LoadFatal, Dispatches
  <2> QED
    BY <2>1 DEF Alive, InRun, PlaceInv, WaitsToBeServed
<1>2. \A q \in Procs : ~Executing(q)
  BY <1>1 DEF Executing
<1>3. state \in [Procs -> States] /\ isBlocked \in [Procs -> BOOLEAN] /\ processList \subseteq Procs
  BY DEF PlaceInv, TypeOK
<1>4. ~Halt
  BY DEF Halt, Alive
<1>5. CASE DropTerminated
  <2>1. /\ readyQueue # <<>> /\ readyQueue' = Pop(readyQueue, priority)
        /\ UNCHANGED <<toReady, lockWaitQueues, eventWaitQueues, state, isBlocked, processList, pc>>
        /\ state[Top(readyQueue)] = "Terminated"
    BY <1>5 DEF DropTerminated, pcbVars, Runnable
  <2>2. PICK x \in Procs : x = Top(readyQueue)
    BY <1>1, <2>1, PoppedPlace
  <2>3. /\ \A q \in Procs \ {x} : StaysPut(q)
        /\ Nowhere(x)' /\ (x \in processList => WantsReady(x))
    BY <1>1, <2>1, <2>2, PoppedPlace
  <2>4. Settled(x)'
    BY <2>1, <2>2, <2>3 DEF Settled, WantsReady
  <2>5. \A q \in Procs : ~Executing(q)'
    BY <1>1, <2>1 DEF Executing, InRun
  <2> QED
    BY <1>1, <1>2, <2>1, <2>3, <2>4, <2>5, OnePlaceMoves DEF PlaceInv
<1>6. ASSUME NEW p \in Procs, Dispatches(p),
             UNCHANGED <<toReady, lockWaitQueues, eventWaitQueues, processList, isBlocked>>,
             pc' = "execute", state' = [state EXCEPT ![p] = "Running"],
             flags' = flags \ {"expired"}
      PROVE  OnePlace'
  <2>1. /\ \A q \in Procs \ {p} : StaysPut(q)
        /\ Nowhere(p)' /\ (p \in processList => ~isBlocked[p])
    BY <1>1, <1>6, PoppedPlace DEF Dispatches
  <2>2. HasProcessor(p)'
    BY <1>3, <1>6, <2>1 DEF HasProcessor
  <2>3. runningProcess' = p /\ ~Waits' /\ InRun'
    BY <1>1, <1>6 DEF Dispatches, Waits, InRun
  <2>4. Executing(p)' /\ \A q \in Procs \ {p} : ~Executing(q)'
    BY <2>3 DEF Executing
  <2> QED
    BY <1>1, <1>2, <1>3, <1>6, <2>1, <2>2, <2>4, OnePlaceMoves DEF PlaceInv
<1>7. ASSUME NEW p \in Users, DispatchUser(p)
      PROVE  OnePlace'
  BY <1>6, <1>7, ProcsFacts DEF DispatchUser, EntersRun
<1>8. CASE DispatchIdle
  BY <1>6, <1>8, ProcsFacts DEF DispatchIdle, RunsIdle, EntersRun, Alive
<1>9. ASSUME NEW p \in Users, LoadBlocks(p)
      PROVE  OnePlace'
  <2>1. /\ Dispatches(p) /\ p \in Procs
        /\ UNCHANGED <<toReady, lockWaitQueues, eventWaitQueues, processList, pc>>
        /\ state' = [state EXCEPT ![p] = "Waiting"]
        /\ isBlocked' = [isBlocked EXCEPT ![p] = TRUE]
    BY <1>9, ProcsFacts DEF LoadBlocks
  <2>2. (\A q \in Procs \ {p} : StaysPut(q)) /\ Nowhere(p)'
    BY <1>1, <2>1, PoppedPlace DEF Dispatches
  <2>3. Settled(p)'
    BY <1>3, <2>1, <2>2 DEF Settled
  <2>4. \A q \in Procs : ~Executing(q)'
    BY <1>1, <2>1 DEF Executing, InRun
  <2> QED
    BY <1>1, <1>2, <1>3, <2>1, <2>2, <2>3, <2>4, OnePlaceMoves DEF PlaceInv
<1>10. \A p \in Users : ~LoadFatal(p)
  BY DEF LoadFatal, Alive
<1> QED
  BY <1>4, <1>5, <1>7, <1>8, <1>9, <1>10, SomebodyToRun DEF Dispatch

\* The process whose flag is handled is the one that ran, and it has no place yet
\* unless its own instruction has put it in a wait queue.
LEMMA WhoIsServed ==
    ASSUME PlaceInv, NEW f, Handles(f)
    PROVE  /\ Alive /\ InRun /\ Current = runningProcess /\ Current \in Procs
           /\ IF f \in {"lock", "event"} THEN Waits ELSE Executing(Current) /\ HasProcessor(Current)
           /\ f = "sleep" => "sleep" \in Opcodes
<1>1. pc = "cycleEnd" /\ f \in flags
  BY DEF Handles
<1>2. Alive /\ InRun
  BY <1>1 DEF Alive, InRun
<1>3. Current = runningProcess /\ Current \in Procs
  BY <1>2, CurrentType DEF PlaceInv, RunnerKnown, Current
<1>4. CASE f \in {"lock", "event"}
  BY <1>1, <1>2, <1>3, <1>4 DEF Waits, PlaceInv, OneRequest
<1>5. CASE f \notin {"lock", "event"}
  <2>1. ~Waits
    BY <1>1, <1>2, <1>5 DEF Waits, PlaceInv, OneRequest, OneOf
  <2>2. Executing(Current) /\ HasProcessor(Current)
    BY <1>2, <1>3, <2>1 DEF Executing, PlaceInv, OnePlace
  <2>3. f = "sleep" => "sleep" \in Opcodes
    BY <1>1, <1>2 DEF PlaceInv, OneRequest, OneOf
  <2> QED
    BY <1>2, <1>3, <1>5, <2>2, <2>3
<1> QED
  BY <1>4, <1>5

\* The steps that take the processor from c and put it where its new state says.
LEMMA GivesUpProcessor ==
    ASSUME PlaceInv, NEW c \in Procs, Executing(c), pc' = "dispatch",
           UNCHANGED <<toReady, lockWaitQueues, eventWaitQueues, processList>>,
           \/ state' = [state EXCEPT ![c] = "Ready"] /\ UNCHANGED isBlocked
              /\ readyQueue' = Push(readyQueue, c, priority)
           \/ state' = [state EXCEPT ![c] = "Sleeping"] /\ UNCHANGED isBlocked
              /\ UNCHANGED readyQueue /\ "sleep" \in Opcodes
           \/ state' = [state EXCEPT ![c] = "Waiting"]
              /\ isBlocked' = [isBlocked EXCEPT ![c] = TRUE]
              /\ UNCHANGED readyQueue
    PROVE  OnePlace'
<1>1. state \in [Procs -> States] /\ isBlocked \in [Procs -> BOOLEAN] /\ processList \subseteq Procs
  BY DEF PlaceInv, TypeOK
<1>2. Alive /\ HasProcessor(c) /\ \A q \in Procs \ {c} : ~Executing(q)
  BY DEF Executing, Alive, InRun, PlaceInv, OnePlace
<1>3. \A q \in Procs : ~Executing(q)'
  BY DEF Executing, InRun
<1>4. (\A q \in Procs \ {c} : StaysPut(q)) /\ Settled(c)'
  <2>1. CASE /\ state' = [state EXCEPT ![c] = "Ready"] /\ UNCHANGED isBlocked
             /\ readyQueue' = Push(readyQueue, c, priority)
    <3>1. (\A q \in Procs \ {c} : StaysPut(q)) /\ InReady(c)'
      BY <1>2, <2>1, PushMoves DEF PlaceInv, HasProcessor
    <3> QED
      BY <1>1, <1>2, <2>1, <3>1 DEF Settled, HasProcessor, WantsReady
  <2>2. CASE UNCHANGED readyQueue
    <3>1. \A q \in Procs : StaysPut(q)
      BY <2>2, NothingMoves
    <3>2. Nowhere(c)'
      BY <1>2, <3>1 DEF StaysPut, HasProcessor
    <3>3. CASE state' = [state EXCEPT ![c] = "Ready"]
               /\ readyQueue' = Push(readyQueue, c, priority) /\ UNCHANGED isBlocked
      BY <2>1, <3>3
    <3>4. CASE state' = [state EXCEPT ![c] = "Sleeping"] /\ UNCHANGED isBlocked
               /\ "sleep" \in Opcodes
      BY <1>1, <1>2, <3>1, <3>2, <3>4 DEF Settled, HasProcessor
    <3>5. CASE state' = [state EXCEPT ![c] = "Waiting"]
               /\ isBlocked' = [isBlocked EXCEPT ![c] = TRUE]
      BY <1>1, <3>1, <3>2, <3>5 DEF Settled
    <3> QED
      BY <3>3, <3>4, <3>5
  <2> QED
    BY <2>1, <2>2
<1> QED
  BY <1>1, <1>2, <1>3, <1>4, OnePlaceMoves DEF PlaceInv

\* The handlers give the process that ran its place.
LEMMA HandleFlagPlace ==
    ASSUME PlaceInv, HandleFlag, Alive'
    PROVE  OnePlace'
<1> USE DEF lockVars, eventVars
<1>1. state \in [Procs -> States] /\ isBlocked \in [Procs -> BOOLEAN] /\ processList \subseteq Procs
  BY DEF PlaceInv, TypeOK
<1>2. CASE HandlePreemption \/ HandleExpired
  <2>1. PICK f \in {"preempt", "expired"} : Handles(f)
    BY <1>2 DEF HandlePreemption, HandleExpired
  <2>2. Executing(Current) /\ Current \in Procs
    BY <2>1, WhoIsServed
  <2> QED
    BY <1>2, <2>2, GivesUpProcessor DEF HandlePreemption, HandleExpired, Requeues
<1>3. CASE HandleSleep
  <2>1. Executing(Current) /\ Current \in Procs /\ "sleep" \in Opcodes
    BY <1>3, WhoIsServed DEF HandleSleep
  <2> QED
    BY <1>3, <2>1, GivesUpProcessor DEF HandleSleep
<1>4. CASE HandleBlocked
  <2>1. Executing(Current) /\ Current \in Procs
    BY <1>4, WhoIsServed DEF HandleBlocked, HandleWaiting
  <2> QED
    BY <1>4, <2>1, GivesUpProcessor DEF HandleBlocked, HandleWaiting
<1>5. CASE HandleTerminated
  <2>1. Alive /\ Current \in Procs /\ InRun /\ Current = runningProcess
    BY <1>5, WhoIsServed DEF HandleTerminated
  <2>2. /\ pc' = "dispatch" /\ processList' = processList \ {Current}
        /\ Unblocks(processList', Killed(Current))
        /\ UNCHANGED <<toReady, lockWaitQueues, eventWaitQueues>>
    BY <1>5 DEF HandleTerminated, Alive
  <2>3. \A q \in Procs : ~Executing(q)'
    BY <2>2 DEF Executing, InRun
  <2>4. \A q \in Procs \ {Current} : ~Executing(q)
    BY <2>1 DEF Executing
  <2> QED
    BY <2>1, <2>2, <2>3, <2>4, UnblocksPlace
<1>6. ASSUME NEW f \in {"lock", "event"}, HandleWaiting(f), UNCHANGED isBlocked
      PROVE  OnePlace'
  <2>1. Alive /\ InRun /\ Waits /\ Current = runningProcess /\ Current \in Procs
    BY <1>6, WhoIsServed DEF HandleWaiting
  <2>2. PICK c \in Procs : c = Current
    BY <2>1
  <2>3. c \in processList => state[c] = "Waiting" /\ ~isBlocked[c]
    BY <2>1, <2>2 DEF PlaceInv, WaitsToBeServed
  <2>4. /\ pc' = "dispatch" /\ state' = [state EXCEPT ![c] = "Waiting"]
        /\ UNCHANGED <<readyQueue, toReady, lockWaitQueues, eventWaitQueues, processList>>
    BY <1>6, <2>2 DEF HandleWaiting
  <2>5. \A q \in Procs : StaysPut(q)
    BY <2>4, NothingMoves
  <2>6. (\A q \in Procs : ~Executing(q)') /\ (\A q \in Procs : ~Executing(q))
    BY <2>1, <2>4 DEF Executing, InRun
  <2>7. c \in processList' => c \in processList /\ state'[c] = state[c] /\ isBlocked'[c] = isBlocked[c]
    BY <1>1, <1>6, <2>3, <2>4
  <2>8. Settled(c)'
    BY <2>1, <2>5, <2>6, <2>7, UnmovedStays DEF PlaceInv, OnePlace
  <2> QED
    BY <1>1, <1>6, <2>1, <2>4, <2>5, <2>6, <2>8, OnePlaceMoves DEF PlaceInv
<1> QED
  BY <1>2, <1>3, <1>4, <1>5, <1>6 DEF HandleFlag, HandleLockWait, HandleEventWait

\* main() queues a process that is in no queue.
LEMMA LoadPlace ==
    ASSUME PlaceInv, NEW p \in Users, LoadProcess(p)
    PROVE  OnePlace' /\ p \notin processList
<1>1. /\ pc = "boot" /\ pc' \in {"boot", "dispatch"} /\ p \in Procs
      /\ readyQueue' = Push(readyQueue, p, priority) /\ processList' = processList \cup {p}
      /\ UNCHANGED <<toReady, lockWaitQueues, eventWaitQueues, state, isBlocked>>
  BY ProcsFacts DEF LoadProcess, pcbVars, lockVars, eventVars
<1>2. p \notin processList
  BY NAssumption DEF LoadProcess, Users
<1>3. /\ Alive /\ Nowhere(p) /\ state[p] = "New" /\ ~isBlocked[p]
      /\ state \in [Procs -> States] /\ processList \subseteq Procs
  BY <1>1, <1>2 DEF PlaceInv, Booting, Alive, TypeOK
<1>4. (\A q \in Procs \ {p} : StaysPut(q)) /\ InReady(p)'
  BY <1>1, <1>3, PushMoves DEF PlaceInv
<1>5. \A q \in Procs : ~Executing(q) /\ ~Executing(q)'
  BY <1>1 DEF Executing, InRun
<1>6. Settled(p)'
  BY <1>1, <1>3, <1>4 DEF Settled, WantsReady
<1> QED
  BY <1>1, <1>2, <1>3, <1>4, <1>5, <1>6, OnePlaceMoves DEF PlaceInv

\* The simulator never starts again once it has ended.
LEMMA AliveBefore ==
    ASSUME AddedInTime, [Next]_vars, Alive'
    PROVE  Alive
<1>1. CASE \E p \in Users : LoadProcess(p)
  BY <1>1 DEF LoadProcess, Alive
<1> QED
  BY <1>1, CycleRuns, DispatchRuns, HandleFlagRuns DEF Next, Stopped, vars, Alive, InRun

\* Every step gives each process one place.
LEMMA PlaceStep ==
    ASSUME PlaceInv, [Next]_vars, Alive'
    PROVE  OnePlace'
<1>1. Alive
  BY AliveBefore DEF PlaceInv
<1>2. CASE UNCHANGED vars
  BY <1>1, <1>2, OnePlaceKept DEF PlaceInv, vars, pcbVars, lockVars, eventVars, Executing, InRun,
     Waits
<1> QED
  BY <1>1, <1>2, CyclePlace, DispatchPlace, HandleFlagPlace, LoadPlace DEF Next, Stopped, Alive

-----------------------------------------------------------------------------
(***************************************************************************)
(* Every step keeps what the handlers need.                                *)
(***************************************************************************)
LEMMA BootingStep ==
    ASSUME PlaceInv, [Next]_vars, Alive'
    PROVE  Booting'
<1>1. ASSUME NEW p \in Users, LoadProcess(p)
      PROVE  Booting'
  <2>1. /\ pc = "boot" /\ p \in Procs
        /\ readyQueue' = Push(readyQueue, p, priority) /\ processList' = processList \cup {p}
        /\ UNCHANGED <<toReady, lockWaitQueues, eventWaitQueues, state, isBlocked, flags,
                       runningProcess>>
    BY <1>1, ProcsFacts DEF LoadProcess, pcbVars, lockVars, eventVars
  <2>2. /\ flags = {} /\ runningProcess = NoProc /\ Idle \in processList
        /\ \A q \in Procs \ processList : Nowhere(q) /\ state[q] = "New" /\ ~isBlocked[q]
    BY <2>1 DEF PlaceInv, Booting, Alive
  <2>3. \A q \in Procs \ {p} : StaysPut(q)
    BY <2>1, PushMoves DEF PlaceInv
  <2>4. \A q \in Procs \ processList' : Nowhere(q)'
    BY <2>1, <2>2, <2>3 DEF StaysPut
  <2> QED
    BY <2>1, <2>2, <2>4 DEF Booting
<1>2. CASE UNCHANGED vars
  <2>1. Booting
    BY <1>2 DEF PlaceInv, Alive, vars
  <2>2. \A q \in Procs : StaysPut(q)
    BY <1>2, NothingMoves DEF vars, lockVars, eventVars
  <2> QED
    BY <1>2, <2>1, <2>2 DEF Booting, StaysPut, vars, pcbVars
<1>3. CASE Dispatch
  BY <1>3 DEF Booting, Dispatch, Halt, DropTerminated, DispatchIdle, DispatchNobody, DispatchUser,
              LoadBlocks, LoadFatal, Dispatches, EntersRun, RunsIdle
<1>4. CASE Cycle
  BY <1>4, CycleRuns DEF PlaceInv, Booting, InRun
<1>5. CASE HandleFlag
  BY <1>5, HandleFlagRuns DEF Booting
<1> QED
  BY <1>1, <1>2, <1>3, <1>4, <1>5 DEF Next, Stopped

\* Where the programs are made of instructions that do not wait or end, no
\* other request can be raised.
LEMMA SleepingRequests ==
    ASSUME PlaceInv, Alive, CalmWorkload, "sleep" \in Opcodes, [Next]_vars
    PROVE  flags' \subseteq {"preempt", "sleep", "expired"} /\ pc' # "release"
<1>1. /\ flags \subseteq {"preempt", "sleep", "expired"} /\ pc # "release"
      /\ pc # "boot" => processList = Procs
      /\ InRun => runningProcess # NoProc
  BY DEF PlaceInv, OneRequest, NobodyDies, RunnerKnown
<1>2. /\ "fault" \notin Opcodes /\ "block" \notin Opcodes /\ "fatal" \notin Opcodes
      /\ "exit" \notin Opcodes /\ "acquire" \notin Opcodes /\ "wait" \notin Opcodes
      /\ "terminate" \notin Opcodes
  BY DEF CalmWorkload
<1>3. ASSUME NEW p \in Procs, Computes(p) \/ Schedules(p)
      PROVE  flags' \subseteq {"preempt", "sleep", "expired"} /\ pc' # "release"
  <2>1. ~CodeLost(p)
    BY <1>1, <1>2, <1>3, InstructionRuns DEF CodeLost
  <2> QED
    BY <1>1, <1>2, <1>3, <2>1 DEF Computes, Schedules, Step, Fault, MemoryBlock, MemoryFatal,
       WritePidReg, Sleep, SetPriority, Completes, Returns, MayBlock
<1>4. ASSUME NEW p \in Procs, Synchronizes(p)
      PROVE  flags' \subseteq {"preempt", "sleep", "expired"} /\ pc' # "release"
  BY <1>1, <1>2, <1>4 DEF Synchronizes, AcquireLock, WaitForLock, ReleaseLock, SignalEvent,
     WaitEvent, Executes, Completes
<1>5. ASSUME NEW p \in Procs
      PROVE  ~Terminates(p)
  BY <1>2 DEF Terminates, Exit, NobodyToKill, TerminateProcess, TerminateProcessThrows, Kills,
     Executes
<1>6. CASE NoRunningProcess \/ ReleaseHeldLock \/ FinishExit \/ AddProcess \/ Callback \/ WakeUp
           \/ NextCycleOfRun
  BY <1>1, <1>6 DEF InRun, NoRunningProcess, ReleaseHeldLock, FinishExit, AddProcess, Callback,
     WakeUp, NextCycleOfRun
<1>7. CASE Dispatch
  BY <1>1, <1>7 DEF Dispatch, Halt, DropTerminated, DispatchIdle, DispatchNobody, DispatchUser,
     LoadBlocks, LoadFatal, RunsIdle, EntersRun
<1>8. CASE HandleFlag
  BY <1>1, <1>8, HandleFlagRuns
<1>9. CASE (\E p \in Users : LoadProcess(p)) \/ UNCHANGED vars
  BY <1>1, <1>9 DEF LoadProcess, vars
<1> QED
  BY <1>3, <1>4, <1>5, <1>6, <1>7, <1>8, <1>9 DEF Next, Cycle, Stopped, Alive

\* An instruction raises one flag at most.
LEMMA InstructionRequests ==
    ASSUME "sleep" \notin Opcodes, NEW p \in Procs, flags = {},
           Computes(p) \/ Schedules(p) \/ Synchronizes(p) \/ Terminates(p)
    PROVE  OneOf(flags') /\ (pc' # "callback" => flags' = {} \/ pc' = "crashed")
<1>1. CASE Computes(p) \/ Schedules(p)
  BY <1>1 DEF Computes, Schedules, Step, Fault, MemoryBlock, MemoryFatal, WritePidReg, Sleep,
     SetPriority, Executes, Completes, Returns, OneOf
<1>2. CASE Synchronizes(p)
  BY <1>2 DEF Synchronizes, AcquireLock, WaitForLock, ReleaseLock, SignalEvent, WaitEvent,
     Completes, Returns, OneOf
<1>3. CASE Terminates(p)
  BY <1>3 DEF Terminates, Exit, NobodyToKill, TerminateProcess, TerminateProcessThrows, Completes,
     Returns, OneOf
<1> QED
  BY <1>1, <1>2, <1>3

\* In a calm workload one request is raised at a time.
LEMMA OneRequestStep ==
    ASSUME PlaceInv, CalmWorkload, [Next]_vars, Alive'
    PROVE  OneRequest'
<1>1. Alive /\ OneRequest
  BY AliveBefore DEF PlaceInv
<1>2. CASE "sleep" \in Opcodes
  BY <1>1, <1>2, SleepingRequests DEF OneRequest
<1>3. CASE "sleep" \notin Opcodes
  <2>1. /\ OneOf(flags)
        /\ pc \in {"execute", "release"} => flags = {}
        /\ pc \in {"boot", "dispatch"} => flags \subseteq {"expired"}
        /\ waking = {}
    BY <1>1, <1>3 DEF PlaceInv, OneRequest, SleepersWake
  <2>2. ASSUME NEW p \in Procs, Computes(p) \/ Schedules(p) \/ Synchronizes(p) \/ Terminates(p)
        PROVE  OneRequest'
    <3>1. pc' \in {"release", "callback"} /\ flags = {}
      BY <2>1, <2>2, InstructionRuns DEF Alive
    <3> QED
      BY <1>3, <2>2, <3>1, InstructionRequests DEF OneRequest
  <2>3. CASE NoRunningProcess \/ FinishExit
    BY <1>3, <2>1, <2>3 DEF NoRunningProcess, FinishExit, OneRequest, OneOf
  <2>4. CASE ReleaseHeldLock \/ AddProcess \/ Callback \/ NextCycleOfRun
    BY <1>1, <1>3, <2>1, <2>4 DEF ReleaseHeldLock, AddProcess, Callback, NextCycleOfRun, OneRequest
  <2>5. ~WakeUp
    BY <2>1 DEF WakeUp
  <2>6. CASE Dispatch
    <3>1. pc' \in {"dispatch", "execute"} /\ flags \subseteq {"expired"}
          /\ ((flags' = flags /\ pc' = "dispatch") \/ flags' = flags \ {"expired"})
      BY <2>1, <2>6, DispatchRuns DEF Dispatch, Halt, DropTerminated, DispatchIdle, DispatchNobody,
         DispatchUser, LoadBlocks, LoadFatal, RunsIdle, EntersRun, Dispatches, Alive
    <3> QED
      BY <1>3, <3>1 DEF OneRequest, OneOf
  <2>7. CASE HandleFlag
    <3>1. pc' = "dispatch"
      BY <2>7, HandleFlagRuns DEF Alive
    <3>2. flags' \subseteq {"expired"}
      BY <2>1, <2>7 DEF HandleFlag, HandlePreemption, HandleSleep, HandleTerminated, HandleLockWait,
         HandleEventWait, HandleExpired, HandleBlocked, HandleWaiting, Handles, OneOf
    <3> QED
      BY <1>3, <3>1, <3>2 DEF OneRequest, OneOf
  <2>8. CASE \E p \in Users : LoadProcess(p)
    <3>1. flags' = {} /\ pc' \in {"boot", "dispatch"}
      BY <1>1, <2>8 DEF LoadProcess, PlaceInv, Booting
    <3> QED
      BY <1>3, <3>1 DEF OneRequest, OneOf
  <2>9. CASE UNCHANGED vars
    BY <1>1, <2>9 DEF OneRequest, vars
  <2> QED
    BY <1>1, <2>2, <2>3, <2>4, <2>5, <2>6, <2>7, <2>8, <2>9 DEF Next, Cycle, Stopped, Alive
<1> QED
  BY <1>2, <1>3

\* A process that has begun to wait is served before anything else happens to it.
LEMMA WaitsToBeServedStep ==
    ASSUME PlaceInv, CalmWorkload, [Next]_vars, Alive'
    PROVE  WaitsToBeServed'
<1> SUFFICES ASSUME Waits'
             PROVE  /\ pc' \in {"callback", "cycleEnd"}
                    /\ runningProcess' \in processList' =>
                          state'[runningProcess'] = "Waiting" /\ ~isBlocked'[runningProcess']
  BY DEF WaitsToBeServed
<1>1. Alive /\ OneRequest /\ OneRequest' /\ state \in [Procs -> States]
  BY AliveBefore, OneRequestStep DEF PlaceInv, TypeOK
<1>2. "sleep" \notin Opcodes /\ pc' \in {"callback", "cycleEnd"}
  <2>1. pc' \in ProgramCounters
    BY NextType DEF PlaceInv, TypeOK
  <2> QED
    BY <1>1, <2>1 DEF OneRequest, Waits, Alive, ProgramCounters
<1>3. ASSUME Waits, UNCHANGED <<runningProcess, processList, state, isBlocked>>
      PROVE  runningProcess' \in processList' =>
                 state'[runningProcess'] = "Waiting" /\ ~isBlocked'[runningProcess']
  BY <1>1, <1>3 DEF PlaceInv, WaitsToBeServed
<1>4. ASSUME NEW p \in Procs, Computes(p) \/ Schedules(p) \/ Synchronizes(p) \/ Terminates(p)
      PROVE  runningProcess' \in processList' =>
                 state'[runningProcess'] = "Waiting" /\ ~isBlocked'[runningProcess']
  <2>1. flags = {} /\ runningProcess = p /\ runningProcess' = p /\ HasProcessor(p)
    BY <1>1, <1>2, <1>4, InstructionRuns, RunsInOnePlace DEF OneRequest
  <2>2. CASE (\E l \in LockIds : WaitForLock(p, l)) \/ (\E e \in EventIds : WaitEvent(p, e))
    <3>1. UNCHANGED <<processList, isBlocked>> /\ state' = [state EXCEPT ![p] = "Waiting"]
      BY <2>1, <2>2 DEF WaitForLock, WaitEvent, Waits, Completes
    <3> QED
      BY <1>1, <2>1, <3>1 DEF HasProcessor
  <2>3. CASE \/ \E l \in LockIds : AcquireLock(p, l) \/ ReleaseLock(p, l)
             \/ \E e \in EventIds : SignalEvent(p, e)
    BY <2>1, <2>3 DEF AcquireLock, ReleaseLock, SignalEvent, Completes, Waits
  <2>4. CASE Computes(p) \/ Schedules(p)
    BY <2>1, <2>4 DEF Computes, Schedules, Step, Fault, MemoryBlock, MemoryFatal, WritePidReg,
       Sleep, SetPriority, Completes, Returns, Waits
  <2>5. CASE Terminates(p)
    BY <2>1, <2>5 DEF Terminates, Exit, NobodyToKill, TerminateProcess, TerminateProcessThrows,
       Completes, Returns, Waits
  <2> QED
    BY <1>4, <2>2, <2>3, <2>4, <2>5 DEF Synchronizes
<1>5. CASE NoRunningProcess \/ ReleaseHeldLock \/ FinishExit
  BY <1>1, <1>2, <1>5 DEF NoRunningProcess, ReleaseHeldLock, FinishExit, OneRequest, Waits
<1>6. CASE AddProcess \/ Callback \/ NextCycleOfRun
  BY <1>2, <1>3, <1>6 DEF AddProcess, Callback, NextCycleOfRun, Waits, pcbVars
<1>7. ~WakeUp
  BY <1>1, <1>2 DEF WakeUp, PlaceInv, SleepersWake
<1>8. CASE Dispatch
  BY <1>1, <1>2, <1>8 DEF Dispatch, Halt, DropTerminated, DispatchIdle, DispatchNobody, DispatchUser,
     LoadBlocks, LoadFatal, RunsIdle, EntersRun, Dispatches
<1>9. CASE HandleFlag
  BY <1>2, <1>9, HandleFlagRuns
<1>10. CASE \E p \in Users : LoadProcess(p)
  BY <1>2, <1>10 DEF LoadProcess
<1>11. CASE UNCHANGED vars
  BY <1>2, <1>3, <1>11 DEF vars, pcbVars, Waits
<1> QED
  BY <1>1, <1>2, <1>4, <1>5, <1>6, <1>7, <1>8, <1>9, <1>10, <1>11 DEF Next, Cycle, Stopped, Alive

\* Only living sleepers are still to be woken.
LEMMA SleepersWakeStep ==
    ASSUME PlaceInv, [Next]_vars, Alive'
    PROVE  SleepersWake'
<1>1. Alive /\ SleepersWake /\ processList \subseteq Procs /\ state \in [Procs -> States]
  BY AliveBefore DEF PlaceInv, TypeOK
<1>2. CASE Callback
  <2>1. /\ waking' \subseteq {p \in processList : state[p] = "Sleeping"} /\ pc' = "cycleEnd"
        /\ UNCHANGED <<processList, state>>
    BY <1>2 DEF Callback, Ticking
  <2>2. ASSUME NEW p \in processList, state[p] = "Sleeping"
        PROVE  "sleep" \in Opcodes
    <3>1. IF Executing(p) THEN HasProcessor(p) ELSE Settled(p)
      BY <1>1, <2>2 DEF PlaceInv, OnePlace
    <3> QED
      BY <2>2, <3>1 DEF HasProcessor, Settled, WantsReady
  <2> QED
    BY <2>1, <2>2 DEF SleepersWake
<1>3. CASE WakeUp
  <2>1. PICK x \in waking : waking' = waking \ {x} /\ state' = [state EXCEPT ![x] = "Ready"]
    BY <1>3 DEF WakeUp
  <2>2. UNCHANGED <<pc, processList>>
    BY <1>3 DEF WakeUp
  <2> QED
    BY <1>1, <2>1, <2>2 DEF SleepersWake
<1>4. ASSUME pc # "cycleEnd", UNCHANGED waking
      PROVE  SleepersWake'
  BY <1>1, <1>4 DEF SleepersWake
<1>5. ASSUME NEW p \in Procs, Computes(p) \/ Schedules(p) \/ Synchronizes(p) \/ Terminates(p)
      PROVE  SleepersWake'
  BY <1>4, <1>5, InstructionRuns
<1>6. CASE NoRunningProcess \/ ReleaseHeldLock \/ FinishExit \/ AddProcess
  <2>1. pc # "cycleEnd" /\ UNCHANGED waking
    BY <1>6 DEF NoRunningProcess, ReleaseHeldLock, FinishExit, AddProcess, unchangedByCpu, PlaceInv,
       AddedInTime
  <2> QED
    BY <1>4, <2>1
<1>7. CASE NextCycleOfRun \/ HandleFlag
  <2>1. waking' = {}
    BY <1>7, HandleFlagRuns DEF NextCycleOfRun
  <2> QED
    BY <2>1 DEF SleepersWake
<1>8. CASE Dispatch \/ \E p \in Users : LoadProcess(p)
  <2>1. pc # "cycleEnd" /\ UNCHANGED waking
    BY <1>8, DispatchRuns DEF LoadProcess, Dispatch, Halt, DropTerminated, DispatchIdle,
       DispatchNobody, DispatchUser, LoadBlocks, LoadFatal
  <2> QED
    BY <1>4, <2>1
<1>9. CASE UNCHANGED vars
  BY <1>1, <1>9 DEF SleepersWake, vars, pcbVars
<1> QED
  BY <1>1, <1>2, <1>3, <1>5, <1>6, <1>7, <1>8, <1>9 DEF Next, Cycle, Stopped, Alive

\* A user process in the ready queue comes before the idle one.
LEMMA IdleWaitsForUsers ==
    ASSUME PlaceInv, DispatchIdle
    PROVE  \A u \in Users : ~In(u, readyQueue)
<1> SUFFICES ASSUME NEW u \in Users, In(u, readyQueue) PROVE FALSE
  OBVIOUS
<1>1. readyQueue \in Seq(Procs) /\ Top(readyQueue) = Idle /\ UpperFirst(readyQueue, Users)
  BY DEF PlaceInv, TypeOK, UsersAboveIdle, DispatchIdle, Dispatches
<1>2. PICK i \in 1..Len(readyQueue) : readyQueue[i] = u
  BY DEF In, Positions
<1>3. Idle \in Users
  BY <1>1, <1>2, UpperTop
<1> QED
  BY <1>3, NAssumption DEF Users, Idle

\* run() keeps having a process, and the idle one makes no request.
LEMMA RunnerKnownStep ==
    ASSUME PlaceInv, [Next]_vars, Alive'
    PROVE  RunnerKnown'
<1>1. Alive /\ RunnerKnown /\ NoProc \notin Procs /\ Idle \notin Users /\ Users \subseteq Procs
  BY AliveBefore, NAssumption, ProcsFacts DEF PlaceInv, Users, Idle
<1>2. ASSUME NEW p \in Procs, Computes(p) \/ Schedules(p) \/ Synchronizes(p) \/ Terminates(p)
      PROVE  RunnerKnown'
  <2>1. /\ pc = "execute" /\ runningProcess = p /\ UNCHANGED runningProcess
        /\ p \in Procs
    BY <1>2, InstructionRuns
  <2>2. ASSUME p = Idle
        PROVE  Step(p)
    BY <1>2, <2>2 DEF Computes, Schedules, Synchronizes, Terminates, Fault, MemoryBlock, MemoryFatal,
       WritePidReg, Sleep, SetPriority, AcquireLock, WaitForLock, ReleaseLock, SignalEvent, WaitEvent,
       Exit, NobodyToKill, TerminateProcess, TerminateProcessThrows, Kills, Executes
  <2>3. ASSUME p = Idle
        PROVE  flags' \subseteq flags \cup {"expired"} /\ pc' = "callback"
    BY <2>2, <2>3 DEF Step, Completes
  <2> QED
    BY <1>1, <2>1, <2>3 DEF RunnerKnown, InRun
<1>3. CASE NoRunningProcess
  BY <1>1, <1>3 DEF NoRunningProcess, RunnerKnown, InRun
<1>4. CASE ReleaseHeldLock \/ FinishExit
  BY <1>1, <1>4 DEF ReleaseHeldLock, FinishExit, RunnerKnown, InRun, unchangedByCpu
<1>5. CASE AddProcess \/ Callback \/ NextCycleOfRun
  BY <1>1, <1>5 DEF AddProcess, Callback, NextCycleOfRun, RunnerKnown, InRun
<1>6. CASE WakeUp
  BY <1>1, <1>6 DEF WakeUp, RunnerKnown, InRun
<1>7. CASE DispatchIdle
  <2>1. /\ pc = "dispatch" /\ runningProcess' = Idle /\ pc' = "execute"
        /\ flags' = flags \ {"expired"}
    BY <1>7 DEF DispatchIdle, Dispatches, RunsIdle, EntersRun, Alive
  <2>2. ~("sleep" \in Opcodes /\ "sleep" \in flags)
    BY <1>1, <1>7, <2>1, IdleWaitsForUsers DEF PlaceInv, NobodyDies
  <2>3. flags \subseteq {"expired", "preempt"}
    BY <1>1, <2>1, <2>2 DEF PlaceInv, OneRequest
  <2> QED
    BY <1>1, <2>1, <2>3, ProcsFacts DEF RunnerKnown
<1>8. ASSUME NEW p \in Users, DispatchUser(p)
      PROVE  RunnerKnown'
  BY <1>1, <1>8 DEF DispatchUser, Dispatches, EntersRun, RunnerKnown
<1>9. CASE Halt \/ DropTerminated \/ \E p \in Users : LoadBlocks(p) \/ LoadFatal(p)
  <2>1. ~InRun'
    BY <1>9 DEF Halt, DropTerminated, LoadBlocks, LoadFatal, Dispatches, InRun
  <2> QED
    BY <2>1 DEF RunnerKnown
<1>10. CASE HandleFlag \/ \E p \in Users : LoadProcess(p)
  <2>1. ~InRun'
    BY <1>10, HandleFlagRuns DEF LoadProcess, InRun
  <2> QED
    BY <2>1 DEF RunnerKnown
<1>11. CASE UNCHANGED vars
  BY <1>1, <1>11 DEF RunnerKnown, InRun, vars
<1> QED
  BY <1>1, <1>2, <1>3, <1>4, <1>5, <1>6, <1>7, <1>8, <1>9, <1>10, <1>11, SomebodyToRun
     DEF Next, Cycle, Dispatch, Stopped, Alive

\* Only a signal and the additions after it change toReady.
LEMMA ToReadyComesFromAnEvent ==
    ASSUME [Next]_vars
    PROVE  \/ UNCHANGED toReady
           \/ AddProcess
           \/ \E p \in Procs, e \in EventIds : SignalEvent(p, e)
<1> USE DEF eventVars
<1>1. ASSUME NEW p \in Procs, Computes(p) \/ Schedules(p) \/ Terminates(p)
      PROVE  UNCHANGED toReady
  BY <1>1 DEF Computes, Step, Fault, MemoryBlock, MemoryFatal, WritePidReg, Schedules, Sleep,
     SetPriority, Terminates, Exit, NobodyToKill, TerminateProcess, TerminateProcessThrows
<1>2. ASSUME NEW p \in Procs, Synchronizes(p)
      PROVE  UNCHANGED toReady \/ \E e \in EventIds : SignalEvent(p, e)
  BY <1>2 DEF Synchronizes, AcquireLock, WaitForLock, ReleaseLock, WaitEvent
<1>3. CASE NoRunningProcess \/ ReleaseHeldLock \/ FinishExit \/ Callback \/ WakeUp
           \/ NextCycleOfRun
  BY <1>3 DEF NoRunningProcess, ReleaseHeldLock, FinishExit, Callback, WakeUp, NextCycleOfRun
<1>4. CASE Dispatch
  BY <1>4 DEF Dispatch, Halt, DropTerminated, DispatchIdle, DispatchNobody, DispatchUser, LoadBlocks,
     LoadFatal
<1>5. CASE HandleFlag
  BY <1>5 DEF HandleFlag, HandlePreemption, HandleSleep, HandleTerminated, HandleLockWait,
     HandleEventWait, HandleExpired, HandleBlocked, HandleWaiting
<1>6. CASE (\E p \in Users : LoadProcess(p)) \/ Stopped \/ UNCHANGED vars
  BY <1>6 DEF LoadProcess, Stopped, vars
<1> QED
  BY <1>1, <1>2, <1>3, <1>4, <1>5, <1>6 DEF Next, Cycle

\* The idle process enters no event's queue.
LEMMA IdleNeverWaitsStep ==
    ASSUME PlaceInv, [Next]_vars
    PROVE  IdleNeverWaits'
<1>1. /\ \A e \in EventIds : eventWaitQueues[e] \in Seq(Procs) /\ ~In(Idle, eventWaitQueues[e])
      /\ toReady \in Seq(Procs) /\ ~In(Idle, toReady)
      /\ eventWaitQueues \in [EventIds -> Seq(Procs)]
  BY DEF PlaceInv, TypeOK, IdleNeverWaits
<1>2. \A e \in EventIds : ~In(Idle, eventWaitQueues'[e])
  <2>1. ASSUME NEW p \in Procs, NEW e \in EventIds, SignalEvent(p, e)
        PROVE  \A d \in EventIds : ~In(Idle, eventWaitQueues'[d])
    <3>1. \A d \in EventIds : eventWaitQueues'[d] = IF d = e THEN <<>> ELSE eventWaitQueues[d]
      BY <1>1, <2>1 DEF SignalEvent
    <3>2. ~In(Idle, <<>>)
      BY DEF In, Positions
    <3> QED
      BY <1>1, <3>1, <3>2
  <2>2. ASSUME NEW p \in Procs, NEW e \in EventIds, WaitEvent(p, e)
        PROVE  \A d \in EventIds : ~In(Idle, eventWaitQueues'[d])
    <3>1. p # Idle
      BY <2>2, IdleOnlySteps, NAssumption DEF WaitEvent, Users, Idle
    <3>2. \A d \in EventIds : \/ eventWaitQueues'[d] = eventWaitQueues[d]
                              \/ eventWaitQueues'[d] = Append(eventWaitQueues[d], p)
      BY <1>1, <2>2 DEF WaitEvent
    <3>3. \A q \in Seq(Procs) : ~In(Idle, q) => ~In(Idle, Append(q, p))
      BY <3>1 DEF In, Positions
    <3> QED
      BY <1>1, <3>2, <3>3
  <2> QED
    BY <1>1, <2>1, <2>2, EventSteps
<1>3. ~In(Idle, toReady')
  <2>1. CASE AddProcess
    <3>1. toReady' = Tail(toReady) /\ toReady # <<>> /\ toReady' \in Seq(Procs)
      BY <1>1, <2>1 DEF AddProcess
    <3>2. Copies(Idle, toReady) = 0 /\ Copies(Idle, toReady') \in Nat
      BY <1>1, <3>1, CopiesNat
    <3>3. Copies(Idle, toReady') = 0
      BY <1>1, <3>1, <3>2, CopiesTail
    <3> QED
      BY <1>1, <3>1, <3>3, CopiesNat
  <2>2. ASSUME NEW p \in Procs, NEW e \in EventIds, SignalEvent(p, e)
        PROVE  ~In(Idle, toReady')
    BY <1>1, <2>2 DEF SignalEvent
  <2> QED
    BY <1>1, <2>1, <2>2, ToReadyComesFromAnEvent
<1> QED
  BY <1>2, <1>3 DEF IdleNeverWaits

\* A lock handed over makes one user process Ready at most.
LEMMA HandOverWakes ==
    ASSUME PlaceInv, NEW l \in LockIds, HandOver(l)
    PROVE  \/ UNCHANGED state
           \/ \E x \in Procs \ {Idle} : state' = [state EXCEPT ![x] = "Ready"]
<1>1. lockWaitQueues[l] \in Seq(Procs)
  BY DEF PlaceInv, TypeOK
<1>2. \A i \in 1..Len(lockWaitQueues[l]) : lockWaitQueues[l][i] \in Procs \ {Idle}
  BY <1>1 DEF PlaceInv, IdleTakesNoLock
<1> QED
  BY <1>2 DEF HandOver

\* Where programs sleep nobody is terminated.
LEMMA NobodyDiesStep ==
    ASSUME PlaceInv, CalmWorkload, [Next]_vars, Alive'
    PROVE  NobodyDies'
<1> SUFFICES ASSUME "sleep" \in Opcodes
             PROVE  /\ \A p \in Procs : state'[p] # "Terminated"
                    /\ pc' # "boot" => processList' = Procs
                    /\ "sleep" \in flags' /\ pc' = "dispatch" =>
                           \E u \in Users : In(u, readyQueue')
  BY DEF NobodyDies
<1> USE DEF pcbVars
<1>1. /\ Alive /\ state \in [Procs -> States]
      /\ \A p \in Procs : state[p] # "Terminated"
      /\ pc # "boot" => processList = Procs
      /\ "sleep" \in flags /\ pc = "dispatch" => \E u \in Users : In(u, readyQueue)
      /\ flags \subseteq {"preempt", "sleep", "expired"}
  BY AliveBefore DEF PlaceInv, TypeOK, NobodyDies, OneRequest
<1>2. "block" \notin Opcodes /\ "terminate" \notin Opcodes /\ "wait" \notin Opcodes
      /\ "acquire" \notin Opcodes
  BY DEF CalmWorkload
<1>3. ASSUME NEW p \in Procs, NEW s \in States \ {"Terminated"}, state' = [state EXCEPT ![p] = s]
      PROVE  \A q \in Procs : state'[q] # "Terminated"
  BY <1>1, <1>3
<1>4. ASSUME NEW p \in Procs, Computes(p) \/ Schedules(p) \/ Synchronizes(p) \/ Terminates(p)
      PROVE  /\ \A q \in Procs : state'[q] # "Terminated"
             /\ processList' = processList
  <2>1. ~Terminates(p) \/ Exit(p)
    BY <1>2 DEF Terminates, NobodyToKill, TerminateProcess, TerminateProcessThrows, Kills, Executes
  <2>2. CASE Computes(p) \/ Schedules(p) \/ Exit(p)
    BY <1>1, <2>2 DEF Computes, Schedules, Step, Fault, MemoryBlock, MemoryFatal, WritePidReg, Sleep,
       SetPriority, Exit
  <2>3. ASSUME NEW l \in LockIds, ReleaseLock(p, l)
        PROVE  /\ \A q \in Procs : state'[q] # "Terminated"
               /\ processList' = processList
    <3>1. state' = state \/ \E x \in Procs : state' = [state EXCEPT ![x] = "Ready"]
      BY <2>3, HandOverWakes DEF ReleaseLock
    <3> QED
      BY <1>1, <2>3, <3>1 DEF ReleaseLock
  <2>4. ASSUME NEW e \in EventIds, SignalEvent(p, e)
        PROVE  /\ \A q \in Procs : state'[q] # "Terminated"
               /\ processList' = processList
    BY <1>1, <2>4 DEF SignalEvent
  <2>5. CASE Synchronizes(p)
    BY <1>2, <2>3, <2>4, <2>5 DEF Synchronizes, AcquireLock, WaitForLock, WaitEvent, Executes
  <2> QED
    BY <1>4, <2>1, <2>2, <2>5
<1>5. CASE Cycle
  <2>1. InRun /\ (InRun' \/ pc' = "crashed")
    BY <1>5, CycleRuns DEF PlaceInv
  <2>2. (\A q \in Procs : state'[q] # "Terminated") /\ processList' = processList
    <3>1. CASE NoRunningProcess \/ FinishExit \/ AddProcess \/ Callback \/ NextCycleOfRun
      BY <1>1, <3>1 DEF NoRunningProcess, FinishExit, AddProcess, Callback, NextCycleOfRun
    <3>2. CASE ReleaseHeldLock
      <4>1. state' = state \/ \E x \in Procs : state' = [state EXCEPT ![x] = "Ready"]
        BY <3>2, HandOverWakes DEF ReleaseHeldLock, PlaceInv, TypeOK
      <4> QED
        BY <1>1, <3>2, <4>1 DEF ReleaseHeldLock
    <3>3. CASE WakeUp
      <4>1. \E x \in waking : state' = [state EXCEPT ![x] = "Ready"]
        BY <3>3 DEF WakeUp
      <4> QED
        BY <1>1, <3>3, <4>1 DEF WakeUp
    <3> QED
      BY <1>4, <1>5, <3>1, <3>2, <3>3 DEF Cycle
  <2> QED
    BY <1>1, <2>1, <2>2 DEF InRun, Alive
<1>6. CASE Dispatch
  <2>1. ASSUME NEW p \in Users
        PROVE  ~LoadBlocks(p)
    BY <1>2 DEF LoadBlocks, MayBlock
  <2>2. ~DropTerminated
    <3>1. readyQueue # <<>> => Top(readyQueue) \in Procs
      BY TopType DEF PlaceInv, TypeOK
    <3> QED
      BY <1>1, <3>1 DEF DropTerminated, Runnable
  <2>3. /\ pc = "dispatch" /\ pc' = "execute" /\ processList' = processList
        /\ \E p \in Procs : state' = [state EXCEPT ![p] = "Running"]
    BY <1>6, <2>1, <2>2, SomebodyToRun, ProcsFacts DEF Dispatch, Halt, DispatchIdle, DispatchUser,
       LoadFatal, RunsIdle, EntersRun, Dispatches, Alive
  <2> QED
    BY <1>1, <2>3
<1>7. CASE HandleFlag
  <2>1. /\ ~HandleTerminated /\ ~HandleLockWait /\ ~HandleEventWait /\ ~HandleBlocked
    BY <1>1 DEF HandleTerminated, HandleLockWait, HandleEventWait, HandleBlocked, HandleWaiting,
       Handles
  <2>2. PICK c \in Procs : c = Current
    BY CurrentType DEF PlaceInv
  <2>3. /\ pc = "cycleEnd" /\ processList' = processList
        /\ \E s \in {"Ready", "Sleeping"} : state' = [state EXCEPT ![c] = s]
    BY <1>7, <2>1, <2>2 DEF HandleFlag, HandlePreemption, HandleSleep, HandleExpired, Handles, Requeues
  <2>4. ASSUME "sleep" \in flags'
        PROVE  \E u \in Users : In(u, readyQueue')
    <3>1. HandlePreemption /\ "sleep" \in flags
      BY <1>7, <2>1, <2>4 DEF HandleFlag, HandlePreemption, HandleSleep, HandleExpired, Handles, FlagRank
    <3>2. readyQueue' = Push(readyQueue, c, priority)
      BY <2>2, <3>1 DEF HandlePreemption, Requeues
    <3>3. InRun /\ Current = runningProcess
      BY <3>1, WhoIsServed DEF HandlePreemption
    <3>4. c \in Users
      BY <1>1, <2>2, <3>1, <3>3 DEF PlaceInv, RunnerKnown, Procs
    <3> QED
      BY <3>2, <3>4, InPush DEF PlaceInv, TypeOK
  <2> QED
    BY <1>1, <2>3, <2>4
<1>8. ASSUME NEW p \in Users, LoadProcess(p)
      PROVE  /\ \A q \in Procs : state'[q] # "Terminated"
             /\ pc' # "boot" => processList' = Procs
             /\ "sleep" \notin flags'
  <2>1. /\ pc = "boot" /\ UNCHANGED <<state, flags>> /\ processList' = processList \cup {p}
        /\ pc' # "boot" => p = N
        /\ Users \cap processList = 1..(p - 1)
    BY <1>8 DEF LoadProcess
  <2>2. flags = {} /\ Idle \in processList /\ processList \subseteq Procs
    BY <1>1, <2>1 DEF PlaceInv, Booting, TypeOK
  <2>3. ASSUME p = N
        PROVE  processList' = Procs
    <3>1. 1..N = 1..(N - 1) \cup {N}
      BY NAssumption
    <3>2. Users \subseteq processList'
      BY <2>1, <2>3, <3>1 DEF Users
    <3> QED
      BY <2>1, <2>2, <3>2, ProcsFacts DEF Procs
  <2> QED
    BY <1>1, <2>1, <2>2, <2>3
<1>9. CASE UNCHANGED vars
  BY <1>1, <1>9 DEF vars
<1> QED
  BY <1>1, <1>5, <1>6, <1>7, <1>8, <1>9 DEF Next, Stopped, Alive

\* The steps that leave the idle process what it is.
LEMMA IdleUntouched ==
    ASSUME PlaceInv, Alive, state'[Idle] = state[Idle], isBlocked'[Idle] = isBlocked[Idle],
           Idle \in processList' <=> Idle \in processList,
           pc # "boot" => pc' # "boot",
           Idle \notin processList => ~(InRun' /\ runningProcess' = Idle)
    PROVE  IdleStates'
BY DEF PlaceInv, IdleStates

\* What unblockProcesses does to the idle process, when another is killed.
LEMMA UnblocksIdle ==
    ASSUME PlaceInv, Alive, NEW t \in Procs, processList' = processList \ {t},
           \/ Unblocks(processList', Killed(t))
           \/ UnblockThrows(processList', Killed(t)),
           pc \notin {"boot"}, pc' # "boot",
           InRun' /\ runningProcess' = Idle => Idle \in processList'
    PROVE  IdleStates'
<1>1. /\ state \in [Procs -> States] /\ isBlocked \in [Procs -> BOOLEAN]
      /\ Killed(t) \in [Procs -> States] /\ Killed(t)[t] = "Terminated"
      /\ \A q \in Procs \ {t} : Killed(t)[q] = state[q]
      /\ Idle \in Procs
  BY KilledType, ProcsFacts DEF PlaceInv, TypeOK, Killed
<1>2. \/ state'[Idle] = Killed(t)[Idle] /\ isBlocked'[Idle] = isBlocked[Idle]
      \/ state'[Idle] = "Ready" /\ ~isBlocked'[Idle] /\ Idle \in processList'
  <2>1. CASE state' = Killed(t) /\ UNCHANGED isBlocked
    BY <2>1
  <2>2. ASSUME NEW x \in Procs, x \in processList',
               state' = [Killed(t) EXCEPT ![x] = "Ready"],
               isBlocked' = [isBlocked EXCEPT ![x] = FALSE]
        PROVE  \/ state'[Idle] = Killed(t)[Idle] /\ isBlocked'[Idle] = isBlocked[Idle]
               \/ state'[Idle] = "Ready" /\ ~isBlocked'[Idle] /\ Idle \in processList'
    BY <1>1, <2>2
  <2> QED
    BY <2>1, <2>2 DEF Unblocks, UnblockThrows, HighestBlocked, BlockedOnMemory
<1>3. CASE t = Idle
  BY <1>1, <1>2, <1>3 DEF IdleStates
<1>4. CASE t # Idle
  BY <1>1, <1>2, <1>4 DEF PlaceInv, IdleStates
<1> QED
  BY <1>3, <1>4

\* No instruction lets the idle process wait.
LEMMA InstructionIdle ==
    ASSUME PlaceInv, Alive',
           NEW p \in Procs, Computes(p) \/ Schedules(p) \/ Synchronizes(p) \/ Terminates(p)
    PROVE  IdleStates'
<1> USE DEF pcbVars
<1>1. /\ pc = "execute" /\ runningProcess = p /\ pc' # "boot" /\ UNCHANGED runningProcess
      /\ InRun /\ Alive
  BY InstructionRuns DEF InRun, Alive
<1>2. Idle \notin processList => ~(InRun' /\ runningProcess' = Idle)
  BY <1>1 DEF PlaceInv, IdleStates
<1>3. state \in [Procs -> States] /\ Idle \in Procs /\ Idle \notin Users
  BY NAssumption, ProcsFacts DEF PlaceInv, TypeOK, Users, Idle
<1>4. ASSUME state'[Idle] = state[Idle], UNCHANGED <<isBlocked, processList>>
      PROVE  IdleStates'
  BY <1>1, <1>2, <1>4, IdleUntouched
<1>5. CASE Computes(p) \/ Schedules(p)
  <2>1. UNCHANGED <<state, isBlocked, processList>>
    BY <1>5 DEF Computes, Schedules, Step, Fault, MemoryBlock, MemoryFatal, WritePidReg, Sleep,
       SetPriority
  <2> QED
    BY <1>4, <2>1
<1>6. ASSUME NEW l \in LockIds, AcquireLock(p, l) \/ WaitForLock(p, l)
      PROVE  IdleStates'
  <2>1. p # Idle
    BY <1>3, <1>6, IdleOnlySteps DEF AcquireLock, WaitForLock
  <2> QED
    BY <1>3, <1>4, <1>6, <2>1 DEF AcquireLock, WaitForLock
<1>7. ASSUME NEW l \in LockIds, ReleaseLock(p, l)
      PROVE  IdleStates'
  <2>1. UNCHANGED state \/ \E x \in Procs \ {Idle} : state' = [state EXCEPT ![x] = "Ready"]
    BY <1>7, HandOverWakes DEF ReleaseLock
  <2> QED
    BY <1>3, <1>4, <1>7, <2>1 DEF ReleaseLock
<1>8. ASSUME NEW e \in EventIds, SignalEvent(p, e)
      PROVE  IdleStates'
  <2>1. ~In(Idle, eventWaitQueues[e])
    BY DEF PlaceInv, IdleNeverWaits
  <2>2. state'[Idle] = state[Idle]
    BY <1>3, <1>8, <2>1 DEF SignalEvent, In, Positions
  <2> QED
    BY <1>4, <1>8, <2>2 DEF SignalEvent
<1>9. ASSUME NEW e \in EventIds, WaitEvent(p, e)
      PROVE  IdleStates'
  <2>1. p # Idle
    BY <1>3, <1>9, IdleOnlySteps DEF WaitEvent
  <2> QED
    BY <1>3, <1>4, <1>9, <2>1 DEF WaitEvent
<1>10. CASE Exit(p) \/ \E t \in Targets : NobodyToKill(p, t)
  BY <1>4, <1>10 DEF Exit, NobodyToKill
<1>11. ASSUME NEW t \in Targets, TerminateProcess(p, t) \/ TerminateProcessThrows(p, t)
       PROVE  IdleStates'
  <2>1. p # Idle
    BY <1>3, <1>11, IdleOnlySteps DEF TerminateProcess, TerminateProcessThrows, Kills
  <2>2. /\ processList' = processList \ {t}
        /\ \/ Unblocks(processList', Killed(t))
           \/ UnblockThrows(processList', Killed(t))
    BY <1>11 DEF TerminateProcess, TerminateProcessThrows, Kills
  <2>3. t \in Procs
    BY OperandAssumption
  <2> QED
    BY <1>1, <2>1, <2>2, <2>3, UnblocksIdle
<1> QED
  BY <1>5, <1>6, <1>7, <1>8, <1>9, <1>10, <1>11 DEF Synchronizes, Terminates

\* While it lives the idle process is New, Ready or Running.
LEMMA IdleStatesStep ==
    ASSUME PlaceInv, [Next]_vars, Alive'
    PROVE  IdleStates'
<1> USE DEF pcbVars
<1>1. /\ Alive /\ IdleStates /\ state \in [Procs -> States] /\ isBlocked \in [Procs -> BOOLEAN]
      /\ Idle \in Procs /\ Idle \notin Users /\ Users \subseteq Procs
  BY AliveBefore, NAssumption, ProcsFacts DEF PlaceInv, TypeOK, Users, Idle
<1>2. ASSUME InRun, UNCHANGED <<runningProcess, isBlocked, processList>>, pc' # "boot",
             state'[Idle] = state[Idle]
      PROVE  IdleStates'
  BY <1>1, <1>2, IdleUntouched DEF IdleStates
<1>3. CASE NoRunningProcess \/ FinishExit \/ AddProcess \/ Callback \/ NextCycleOfRun
  <2>1. InRun /\ UNCHANGED <<runningProcess, isBlocked, processList, state>> /\ pc' # "boot"
    BY <1>3 DEF NoRunningProcess, FinishExit, AddProcess, Callback, NextCycleOfRun, InRun, PlaceInv,
       AddedInTime
  <2> QED
    BY <1>2, <2>1
<1>4. CASE ReleaseHeldLock
  <2>1. UNCHANGED state \/ \E x \in Procs \ {Idle} : state' = [state EXCEPT ![x] = "Ready"]
    BY <1>4, HandOverWakes DEF ReleaseHeldLock, PlaceInv, TypeOK
  <2>2. InRun /\ UNCHANGED <<runningProcess, isBlocked, processList, pc>> /\ pc # "boot"
    BY <1>4 DEF ReleaseHeldLock, unchangedByCpu, InRun
  <2> QED
    BY <1>1, <1>2, <2>1, <2>2
<1>5. CASE WakeUp
  <2>1. PICK x \in waking : state' = [state EXCEPT ![x] = "Ready"]
    BY <1>5 DEF WakeUp
  <2>2. InRun /\ UNCHANGED <<runningProcess, isBlocked, processList, pc>> /\ pc # "boot"
    BY <1>5 DEF WakeUp, InRun
  <2>3. x \in processList /\ state[x] = "Sleeping"
    BY <1>1, <2>1 DEF PlaceInv, SleepersWake
  <2>4. x # Idle
    BY <1>1, <2>3 DEF IdleStates
  <2> QED
    BY <1>1, <1>2, <2>1, <2>2, <2>4
<1>6. CASE DispatchIdle
  <2>1. /\ Runnable(Idle) /\ state' = [state EXCEPT ![Idle] = "Running"]
        /\ UNCHANGED <<isBlocked, processList>>
    BY <1>6 DEF DispatchIdle, Dispatches
  <2> QED
    BY <1>1, <2>1 DEF IdleStates, Runnable
<1>7. ASSUME NEW p \in Users, DispatchUser(p) \/ LoadBlocks(p)
      PROVE  IdleStates'
  <2>1. /\ \E s \in {"Running", "Waiting"} : state' = [state EXCEPT ![p] = s]
        /\ UNCHANGED processList /\ runningProcess' = p /\ pc' # "boot"
        /\ UNCHANGED isBlocked \/ isBlocked' = [isBlocked EXCEPT ![p] = TRUE]
    BY <1>7 DEF DispatchUser, LoadBlocks, Dispatches, EntersRun
  <2> QED
    BY <1>1, <2>1, IdleUntouched
<1>8. CASE DropTerminated
  BY <1>1, <1>8, IdleUntouched DEF DropTerminated, InRun
<1>9. CASE HandleFlag
  <2>1. PICK c \in Procs : c = Current
    BY CurrentType DEF PlaceInv
  <2>2. PICK f \in flags : Handles(f)
    BY <1>9 DEF HandleFlag, HandlePreemption, HandleSleep, HandleTerminated, HandleLockWait,
       HandleEventWait, HandleExpired, HandleBlocked, HandleWaiting, Handles
  <2>3. InRun /\ c = runningProcess /\ pc # "boot" /\ pc' = "dispatch"
    BY <1>9, <2>1, <2>2, WhoIsServed, HandleFlagRuns DEF Alive
  <2>4. c = Idle => flags \subseteq {"expired", "preempt"} /\ Idle \in processList
    BY <1>1, <2>3 DEF PlaceInv, RunnerKnown, IdleStates
  <2>5. CASE HandlePreemption \/ HandleExpired
    <3>1. state' = [state EXCEPT ![c] = "Ready"] /\ UNCHANGED <<isBlocked, processList>>
      BY <2>1, <2>5 DEF HandlePreemption, HandleExpired, Requeues
    <3> QED
      BY <1>1, <2>3, <3>1 DEF IdleStates, InRun
  <2>6. CASE HandleSleep \/ HandleLockWait \/ HandleEventWait \/ HandleBlocked
    <3>1. c # Idle
      BY <2>4, <2>6 DEF HandleSleep, HandleLockWait, HandleEventWait, HandleBlocked, HandleWaiting,
         Handles
    <3>2. /\ \E s \in {"Sleeping", "Waiting"} : state' = [state EXCEPT ![c] = s]
          /\ UNCHANGED processList
          /\ UNCHANGED isBlocked \/ isBlocked' = [isBlocked EXCEPT ![c] = TRUE]
      BY <2>1, <2>6 DEF HandleSleep, HandleLockWait, HandleEventWait, HandleBlocked, HandleWaiting
    <3> QED
      BY <1>1, <2>3, <3>1, <3>2, IdleUntouched DEF InRun
  <2>7. CASE HandleTerminated
    <3>1. processList' = processList \ {c} /\ Unblocks(processList', Killed(c))
      BY <2>1, <2>7 DEF HandleTerminated, Alive
    <3> QED
      BY <1>1, <2>3, <3>1, UnblocksIdle DEF InRun
  <2> QED
    BY <1>9, <2>5, <2>6, <2>7 DEF HandleFlag
<1>10. ASSUME NEW p \in Users, LoadProcess(p)
       PROVE  IdleStates'
  <2>1. UNCHANGED <<state, isBlocked>> /\ pc = "boot" /\ processList' = processList \cup {p}
    BY <1>10 DEF LoadProcess
  <2> QED
    BY <1>1, <2>1 DEF IdleStates
<1>11. CASE UNCHANGED vars
  BY <1>1, <1>11 DEF vars, IdleStates, InRun
<1> QED
  BY <1>1, <1>3, <1>4, <1>5, <1>6, <1>7, <1>8, <1>9, <1>10, <1>11, InstructionIdle, SomebodyToRun
     DEF Next, Cycle, Dispatch, Stopped, Alive, Halt, LoadFatal

\* The place invariant holds at the start.
LEMMA PlaceInit == Init => PlaceInv
<1> SUFFICES ASSUME Init PROVE PlaceInv
  OBVIOUS
<1> USE DEF Init
<1>1. TypeOK
  BY InitType
<1>2. Idle \in Procs /\ Idle \notin Users /\ \A u \in Users : u <= 31
  BY NAssumption, ProcsFacts DEF Users, Idle
<1>3. \A p \in Procs : Copies(p, readyQueue) = IF p = Idle THEN 1 ELSE 0
  <2>1. Positions(Idle, <<Idle>>) = {1}
    BY DEF Positions
  <2>2. \A p \in Procs \ {Idle} : Positions(p, <<Idle>>) = {}
    BY DEF Positions
  <2> QED
    BY <2>1, <2>2, FS_EmptySet, FS_Singleton DEF Copies
<1>4. \A p \in Procs : ReadyEntries(p) = (IF p = Idle THEN 1 ELSE 0) /\ WaitsNowhere(p)
  <2>1. \A p \in Procs : ReadyEntries(p) = IF p = Idle THEN 1 ELSE 0
    BY <1>3, CopiesEmpty DEF ReadyEntries
  <2>2. \A p \in Procs : WaitsNowhere(p)
    BY CopiesEmpty, IdsFacts DEF WaitsNowhere, WaitsFor
  <2> QED
    BY <2>1, <2>2
<1>5. OnePlace
  BY <1>2, <1>4 DEF OnePlace, Settled, Executing, InRun, Nowhere, InReady, WantsReady
<1>6. Booting
  BY <1>4 DEF Booting, Nowhere
<1>7. OneRequest /\ WaitsToBeServed /\ SleepersWake /\ RunnerKnown
  BY DEF OneRequest, OneOf, WaitsToBeServed, Waits, SleepersWake, RunnerKnown, InRun
<1>8. IdleStates /\ NobodyDies
  BY <1>2 DEF IdleStates, NobodyDies
<1>9. AddedInTime /\ IdleTakesNoLock /\ UsersAboveIdle /\ IdleNeverWaits
  BY <1>2, ProcsFacts DEF AddedInTime, IdleTakesNoLock, UsersAboveIdle, UpperFirst, IdleNeverWaits,
     In, Positions
<1>10. IdleIsLowest
  BY <1>2, ProcsFacts DEF IdleIsLowest, InitialPriority, Users
<1> QED
  BY <1>1, <1>5, <1>6, <1>7, <1>8, <1>9, <1>10 DEF PlaceInv

\* Every step keeps the place invariant.
LEMMA PlaceInvStep ==
    ASSUME PlaceInv, CalmWorkload, [Next]_vars
    PROVE  PlaceInv'
<1>1. TypeOK' /\ AddedInTime' /\ IdleIsLowest' /\ IdleTakesNoLock' /\ UsersAboveIdle'
  BY NextType, AddedInTimeStep, IdleIsLowestStep, IdleTakesNoLockStep, UsersAboveIdleStep
     DEF PlaceInv
<1> QED
  BY <1>1, IdleNeverWaitsStep, PlaceStep, BootingStep, OneRequestStep, WaitsToBeServedStep,
     SleepersWakeStep, RunnerKnownStep, IdleStatesStep, NobodyDiesStep DEF PlaceInv

(***************************************************************************)
(* The places of all processes, for the workloads described above.         *)
(***************************************************************************)
THEOREM EveryoneHasAPlace == CalmWorkload => (Spec => []PlaceInv)
<1>1. ASSUME CalmWorkload
      PROVE  Spec => []PlaceInv
  <2>1. PlaceInv /\ [Next]_vars => PlaceInv'
    BY <1>1, PlaceInvStep
  <2> QED
    BY <2>1, PlaceInit, PTL DEF Spec
<1> QED
  BY <1>1

-----------------------------------------------------------------------------
(***************************************************************************)
(* From places to the counts of InItsPlace.                                *)
(***************************************************************************)
EntriesIn(queues, Ids, p) == UNION {{<<k, i>> : i \in Positions(p, queues[k])} : k \in Ids}

\* One copy in one of several queues is one entry of them all.
LEMMA EntriesOfQueues ==
    ASSUME NEW Ids, NEW queues \in [Ids -> Seq(Procs)], NEW p, NEW id,
           \A k \in Ids : Copies(p, queues[k]) = IF k = id THEN 1 ELSE 0
    PROVE  Cardinality(EntriesIn(queues, Ids, p)) = IF id \in Ids THEN 1 ELSE 0
<1> DEFINE all == EntriesIn(queues, Ids, p)
<1>1. \A k \in Ids : IsFiniteSet(Positions(p, queues[k]))
  BY PositionsFinite
<1>2. \A k \in Ids \ {id} : Positions(p, queues[k]) = {}
  BY <1>1, FS_EmptySet DEF Copies
<1>3. CASE id \notin Ids
  <2>1. all = {}
    BY <1>2, <1>3 DEF EntriesIn
  <2> QED
    BY <1>3, <2>1, FS_EmptySet
<1>4. CASE id \in Ids
  <2>1. PICK i : Positions(p, queues[id]) = {i}
    BY <1>1, <1>4, FS_Singleton DEF Copies
  <2>2. all = {<<id, i>>}
    BY <1>2, <1>4, <2>1 DEF EntriesIn
  <2> HIDE DEF all
  <2>3. Cardinality(all) = 1
    BY <2>2, FS_Singleton
  <2> QED
    BY <1>4, <2>3 DEF all
<1> QED
  BY <1>3, <1>4

\* WaitingCopies counts what the place invariant says.
LEMMA WaitingCount ==
    ASSUME TypeOK, NEW p
    PROVE  /\ WaitsNowhere(p) => WaitingCopies(p) = 0
           /\ WaitsOnce(p) => WaitingCopies(p) = 1
<1> DEFINE L == Cardinality(EntriesIn(lockWaitQueues, LockIds, p))
           E == Cardinality(EntriesIn(eventWaitQueues, EventIds, p))
<1>1. lockWaitQueues \in [LockIds -> Seq(Procs)] /\ eventWaitQueues \in [EventIds -> Seq(Procs)]
  BY DEF TypeOK
<1>2. ASSUME NEW l, NEW e, WaitsFor(p, l, e)
      PROVE  /\ L = IF l \in LockIds THEN 1 ELSE 0
             /\ E = IF e \in EventIds THEN 1 ELSE 0
  BY <1>1, <1>2, EntriesOfQueues DEF WaitsFor
<1>3. WaitingCopies(p) = L + E
  BY DEF WaitingCopies, EntriesIn
<1>4. NoId \notin LockIds /\ NoId \notin EventIds
  BY IdsFacts
<1> HIDE DEF L, E
<1> QED
  BY <1>2, <1>3, <1>4 DEF WaitsNowhere, WaitsOnce

(***************************************************************************)
(* Each living process is in exactly the place its state says, whenever    *)
(* start() chooses the next one: for every number of programs, and for     *)
(* every workload in which a request cannot outlive its process.           *)
(***************************************************************************)
THEOREM EveryoneInPlace == CalmWorkload => (Spec => []InItsPlace)
<1>1. ASSUME PlaceInv, pc = "dispatch", NEW p \in processList
      PROVE  \/ /\ state[p] \in {"New", "Ready"}
                /\ ReadyCopies(p) = 1 /\ WaitingCopies(p) = 0
             \/ /\ state[p] = "Waiting" /\ ~isBlocked[p]
                /\ ReadyCopies(p) = 0 /\ WaitingCopies(p) = 1
             \/ /\ state[p] = "Sleeping" \/ (state[p] = "Waiting" /\ isBlocked[p])
                /\ ReadyCopies(p) = 0 /\ WaitingCopies(p) = 0
  <2>1. p \in Procs /\ Alive /\ ~Executing(p) /\ TypeOK
    BY <1>1 DEF PlaceInv, TypeOK, Alive, Executing, InRun
  <2>2. Settled(p)
    BY <1>1, <2>1 DEF PlaceInv, OnePlace
  <2>3. ReadyEntries(p) = ReadyCopies(p)
    <3>1. toReady = <<>>
      BY <1>1 DEF PlaceInv, AddedInTime
    <3>2. Copies(p, readyQueue) \in Nat /\ Copies(p, toReady) = 0
      BY <2>1, <3>1, CopiesNat, CopiesEmpty DEF TypeOK
    <3>3. Copies(p, readyQueue) = ReadyCopies(p)
      BY DEF Copies, ReadyCopies
    <3> QED
      BY <3>2, <3>3 DEF ReadyEntries
  <2> QED
    BY <2>1, <2>2, <2>3, WaitingCount DEF Settled, Nowhere, InReady, InWait, WantsReady
<1>2. PlaceInv => InItsPlace
  BY <1>1 DEF InItsPlace
<1> QED
  BY <1>2, EveryoneHasAPlace, PTL

-----------------------------------------------------------------------------
(***************************************************************************)
(* start() does not give up.  The idle process is dispatched when no user  *)
(* process is ready; everyone being in its place, all of them then sleep   *)
(* or wait, and that is just what start() asks.  Only a program that kills *)
(* the idle process, whose pid is 999, takes that away.                    *)
(***************************************************************************)
IdleSpared == "terminate" \in Opcodes => Idle \notin Targets

IdleLives == Idle \in processList

\* The idle process stays in processList.
LEMMA IdleLivesStep ==
    ASSUME PlaceInv, IdleSpared, IdleLives, [Next]_vars
    PROVE  IdleLives'
<1>1. ASSUME NEW p \in Procs, Computes(p) \/ Schedules(p) \/ Synchronizes(p)
      PROVE  UNCHANGED processList
  BY <1>1 DEF Computes, Schedules, Synchronizes, Step, Fault, MemoryBlock, MemoryFatal, WritePidReg,
     Sleep, SetPriority, AcquireLock, WaitForLock, ReleaseLock, SignalEvent, WaitEvent, pcbVars
<1>2. ASSUME NEW p \in Procs, Terminates(p)
      PROVE  IdleLives'
  BY <1>2 DEF Terminates, Exit, NobodyToKill, TerminateProcess, TerminateProcessThrows, Kills,
     Executes, IdleSpared, IdleLives
<1>3. CASE NoRunningProcess \/ ReleaseHeldLock \/ FinishExit \/ AddProcess \/ Callback \/ WakeUp
           \/ NextCycleOfRun
  BY <1>3 DEF NoRunningProcess, ReleaseHeldLock, FinishExit, AddProcess, Callback, WakeUp,
     NextCycleOfRun, IdleLives
<1>4. CASE Dispatch
  BY <1>4 DEF Dispatch, Halt, DropTerminated, DispatchIdle, DispatchNobody, DispatchUser, LoadBlocks,
     LoadFatal, IdleLives
<1>5. CASE HandleTerminated
  <2>1. Alive /\ InRun /\ Current = runningProcess /\ "terminated" \in flags
    BY <1>5, WhoIsServed DEF HandleTerminated, Handles
  <2>2. Current # Idle
    BY <2>1 DEF PlaceInv, RunnerKnown
  <2> QED
    BY <1>5, <2>2 DEF HandleTerminated, IdleLives
<1>6. CASE HandlePreemption \/ HandleSleep \/ HandleLockWait \/ HandleEventWait \/ HandleExpired
           \/ HandleBlocked
  BY <1>6 DEF HandlePreemption, HandleSleep, HandleLockWait, HandleEventWait, HandleExpired,
     HandleBlocked, HandleWaiting, IdleLives
<1>7. CASE (\E p \in Users : LoadProcess(p)) \/ Stopped \/ UNCHANGED vars
  BY <1>7 DEF LoadProcess, Stopped, vars, IdleLives
<1> QED
  BY <1>1, <1>2, <1>3, <1>4, <1>5, <1>6, <1>7 DEF Next, Cycle, HandleFlag, IdleLives

\* When the idle process is dispatched, everybody else sleeps or waits.
LEMMA IdleMeansAllBlocked ==
    ASSUME PlaceInv, DispatchIdle
    PROVE  AllBlocked
<1>1. pc = "dispatch" /\ toReady = <<>> /\ Alive /\ ~InRun
  BY DEF DispatchIdle, Dispatches, PlaceInv, AddedInTime, Alive, InRun
<1>2. ASSUME NEW p \in processList \ {Idle}
      PROVE  state[p] \in {"Sleeping", "Waiting"}
  <2>1. p \in Users /\ p \in Procs
    BY DEF PlaceInv, TypeOK, Procs
  <2>2. Settled(p)
    BY <1>1, <2>1 DEF PlaceInv, OnePlace, Executing
  <2>3. ~InReady(p)
    <3>1. Copies(p, readyQueue) \in Nat /\ (Copies(p, readyQueue) # 0 <=> In(p, readyQueue))
      BY CopiesNat DEF PlaceInv, TypeOK
    <3>2. Copies(p, toReady) = 0
      BY <1>1, CopiesEmpty
    <3>3. ~In(p, readyQueue)
      BY <2>1, IdleWaitsForUsers
    <3> QED
      BY <3>1, <3>2, <3>3 DEF InReady, ReadyEntries
  <2> QED
    BY <2>2, <2>3 DEF Settled
<1> QED
  BY <1>2 DEF AllBlocked

\* start() does not give up.
LEMMA HaltStep ==
    ASSUME PlaceInv, IdleLives, HaltOnlyWhenDone, [Next]_vars
    PROVE  HaltOnlyWhenDone'
<1> SUFFICES ASSUME pc' = "halted" PROVE OnlyIdleRemains'
  BY DEF HaltOnlyWhenDone
<1>1. CASE Cycle
  BY <1>1, CycleRuns DEF PlaceInv, InRun
<1>2. CASE HandleFlag
  BY <1>2, HandleFlagRuns
<1>3. ASSUME NEW p \in Users, LoadProcess(p)
      PROVE  FALSE
  BY <1>3 DEF LoadProcess
<1>4. CASE Stopped \/ UNCHANGED vars
  BY <1>4 DEF Stopped, vars, HaltOnlyWhenDone, OnlyIdleRemains
<1>5. CASE Halt
  BY <1>5 DEF Halt, OnlyIdleRemains
<1>6. ~DispatchIdle
  BY IdleMeansAllBlocked DEF DispatchIdle, RunsIdle, EntersRun
<1>7. ~DispatchNobody
  BY SomebodyToRun DEF IdleLives
<1>8. CASE DropTerminated \/ \E p \in Users : DispatchUser(p) \/ LoadBlocks(p) \/ LoadFatal(p)
  BY <1>8 DEF DropTerminated, DispatchUser, LoadBlocks, LoadFatal, EntersRun, Dispatches
<1> QED
  BY <1>1, <1>2, <1>3, <1>4, <1>5, <1>6, <1>7, <1>8 DEF Next, Dispatch

(***************************************************************************)
(* start() returns only when every user process has terminated, provided   *)
(* no program kills the idle process: "No more processes to run" is never  *)
(* printed with living processes left.                                     *)
(***************************************************************************)
THEOREM StartDoesNotGiveUp == CalmWorkload /\ IdleSpared => (Spec => []HaltOnlyWhenDone)
<1>1. ASSUME CalmWorkload, IdleSpared
      PROVE  Spec => []HaltOnlyWhenDone
  <2>1. Init => IdleLives /\ HaltOnlyWhenDone
    BY DEF Init, IdleLives, HaltOnlyWhenDone
  <2>2. PlaceInv /\ IdleLives /\ HaltOnlyWhenDone /\ [Next]_vars
        => IdleLives' /\ HaltOnlyWhenDone'
    BY <1>1, IdleLivesStep, HaltStep
  <2>3. Spec => []PlaceInv
    BY <1>1, EveryoneHasAPlace
  <2> QED
    BY <2>1, <2>2, <2>3, PTL DEF Spec
<1> QED
  BY <1>1

-----------------------------------------------------------------------------
(***************************************************************************)
(* The heap stays in order where no process waits for a lock: SetPriority  *)
(* changes the priority of the process that executes it, which is in no    *)
(* queue, and nothing else changes one.                                    *)
(***************************************************************************)
InOrder == IsHeap(readyQueue, priority)

\* The ready queue stays a heap.
LEMMA InOrderStep ==
    ASSUME PlaceInv, "acquire" \notin Opcodes, InOrder, [Next]_vars
    PROVE  InOrder'
<1>1. /\ readyQueue \in Seq(Procs) /\ priority \in [Procs -> Int]
  BY RanksAreIntegers DEF PlaceInv, TypeOK
<1>2. CASE QueuePushes
  BY <1>1, <1>2, PushHeap DEF QueuePushes, InOrder
<1>3. CASE QueuePops
  BY <1>1, <1>3, PopHeap DEF QueuePops, InOrder
<1>4. CASE QueueUntouched
  <2>1. \A p \in Procs : In(p, readyQueue) => priority'[p] = priority[p]
    <3>1. ASSUME NEW p \in Procs, NEW v \in PrioArgs, SetPriority(p, v)
          PROVE  \A q \in Procs : In(q, readyQueue) => priority'[q] = priority[q]
      <4>1. pc = "execute" /\ runningProcess = p
        BY <3>1 DEF SetPriority, Executes, Fetches
      <4>2. ReadyEntries(p) = 0
        BY <4>1, RunsInOnePlace DEF HasProcessor, Nowhere
      <4>3. /\ Copies(p, readyQueue) \in Nat /\ Copies(p, toReady) \in Nat
            /\ Copies(p, readyQueue) # 0 <=> In(p, readyQueue)
        BY CopiesNat DEF PlaceInv, TypeOK
      <4>4. ~In(p, readyQueue)
        BY <4>2, <4>3 DEF ReadyEntries
      <4> QED
        BY <1>1, <3>1, <4>4 DEF SetPriority
    <3>2. \A p \in Procs, l \in LockIds : ~WaitForLock(p, l)
      BY DEF WaitForLock, Executes
    <3> QED
      BY <3>1, <3>2, PrioritySteps
  <2> QED
    BY <1>1, <1>4, <2>1, HeapOfQueued DEF QueueUntouched, InOrder
<1> QED
  BY <1>2, <1>3, <1>4, QueueSteps DEF QueueStep, PlaceInv

(***************************************************************************)
(* The scheduler dispatches a process of the highest priority in the ready *)
(* queue, although the programs change their priorities as they like:      *)
(* where no program acquires a lock.                                       *)
(***************************************************************************)
THEOREM HighestRunsFirst ==
    CalmWorkload /\ "acquire" \notin Opcodes => (Spec => DispatchesHighest)
<1>1. ASSUME CalmWorkload, "acquire" \notin Opcodes
      PROVE  Spec => DispatchesHighest
  <2>1. Init => InOrder
    BY DEF Init, InOrder, IsHeap
  <2>2. PlaceInv /\ InOrder /\ [Next]_vars => InOrder'
    BY <1>1, InOrderStep
  <2>3. PlaceInv /\ InOrder =>
            \A p \in Procs : Dispatches(p) =>
                \A i \in 1..Len(readyQueue) : priority[readyQueue[i]] <= priority[p]
    <3>1. TypeOK => readyQueue \in Seq(Procs) /\ priority \in [Procs -> Int]
      BY RanksAreIntegers DEF TypeOK
    <3> QED
      BY <3>1, HeapTop DEF PlaceInv, InOrder, Dispatches
  <2>4. Spec => []PlaceInv
    BY <1>1, EveryoneHasAPlace
  <2> QED
    BY <2>1, <2>2, <2>3, <2>4, PTL DEF Spec, DispatchesHighest
<1> QED
  BY <1>1

=============================================================================
