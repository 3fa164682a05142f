----------------------------- MODULE PriorityBag -----------------------------
(***************************************************************************)
(* What the ready queue promises, without the heap: a bag of processes in  *)
(* which nothing is lost and nothing appears by itself, and which gives    *)
(* out a process of the highest rank as long as its order is exact.        *)
(*                                                                         *)
(* The order is exact until the rank of a process changes while it is in   *)
(* the bag; it may then be wrong until the bag is empty.  The rank of a    *)
(* process outside the bag may change at any time and spoils nothing.  The *)
(* kernel's readyQueue implements it (KernelProperties).                   *)
(***************************************************************************)
EXTENDS Integers

CONSTANT
    Members     \* the processes

VARIABLES
    copies,     \* copies[m]: how often m is in the bag
    rank,       \* rank[m]: how urgent m is
    exact       \* whether what is taken next has the highest rank

bagVars == <<copies, rank, exact>>

Holds(m) == copies[m] > 0

\* The bag begins with one process in it.
Init ==
    /\ \E first \in Members : copies = [m \in Members |-> IF m = first THEN 1 ELSE 0]
    /\ rank \in [Members -> Int]
    /\ exact = TRUE

-----------------------------------------------------------------------------
Add(m) ==
    /\ copies' = [copies EXCEPT ![m] = @ + 1]
    /\ UNCHANGED rank
    /\ exact => exact'

Take(m) ==
    /\ Holds(m)
    /\ copies' = [copies EXCEPT ![m] = @ - 1]
    /\ UNCHANGED rank
    /\ exact => exact' /\ \A o \in Members : Holds(o) => rank[o] <= rank[m]

Rerank ==
    /\ UNCHANGED copies
    /\ rank' \in [Members -> Int]
    /\ (\A m \in Members : Holds(m) => rank'[m] = rank[m]) => exact' = exact

-----------------------------------------------------------------------------
Next ==
    /\ \/ \E m \in Members : Add(m) \/ Take(m)
       \/ Rerank
    /\ (\A m \in Members : copies'[m] = 0) => exact'

Spec == Init /\ [][Next]_bagVars

=============================================================================
