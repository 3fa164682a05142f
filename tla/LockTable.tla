------------------------------ MODULE LockTable ------------------------------
(***************************************************************************)
(* What the lock instructions promise, without the processor, the          *)
(* scheduler or the programs: a table of locks, each with an owner and the *)
(* processes waiting for it.                                               *)
(*                                                                         *)
(* Only a free lock is taken; whoever finds a lock owned by another waits; *)
(* only the process that runs gives up a lock it owns, which passes in the *)
(* same step to a waiter of the highest rank, and is free only when nobody *)
(* waits for it.  The kernel implements it (KernelProperties).             *)
(***************************************************************************)
EXTENDS Integers, Sequences

CONSTANTS
    Locks,      \* the locks
    Processes,  \* the processes
    Nobody      \* the owner of a free lock

VARIABLES
    owner,      \* owner[l]: the owner of lock l, or Nobody
    waiters,    \* waiters[l]: those waiting for lock l, in order of arrival
    rank,       \* rank[p]: how urgent process p is; it may change at any time
    runner      \* the process that runs, or Nobody

tableVars == <<owner, waiters, rank, runner>>

Init ==
    /\ owner = [l \in Locks |-> Nobody]
    /\ waiters = [l \in Locks |-> <<>>]
    /\ rank \in [Processes -> Nat]
    /\ runner = Nobody

-----------------------------------------------------------------------------
Take(l, p) ==
    /\ runner = p
    /\ owner[l] = Nobody
    /\ waiters[l] = <<>>
    /\ owner' = [owner EXCEPT ![l] = p]
    /\ UNCHANGED waiters

Enqueue(l, p) ==
    /\ runner = p
    /\ owner[l] \notin {Nobody, p}
    /\ waiters' = [waiters EXCEPT ![l] = Append(@, p)]
    /\ UNCHANGED owner

\* The lock goes to the i-th waiter.
Grant(l, i) ==
    /\ runner = owner[l]
    /\ \A j \in 1..Len(waiters[l]) : rank[waiters[l][j]] <= rank[waiters[l][i]]
    /\ owner' = [owner EXCEPT ![l] = waiters[l][i]]
    /\ waiters' = [waiters EXCEPT ![l] =
                      [j \in 1..(Len(@) - 1) |-> IF j < i THEN @[j] ELSE @[j + 1]]]

Free(l) ==
    /\ runner = owner[l]
    /\ waiters[l] = <<>>
    /\ owner' = [owner EXCEPT ![l] = Nobody]
    /\ UNCHANGED waiters

-----------------------------------------------------------------------------
Next ==
    /\ \/ UNCHANGED <<owner, waiters>>
       \/ \E l \in Locks :
             \/ \E p \in Processes : Take(l, p) \/ Enqueue(l, p)
             \/ \E i \in 1..Len(waiters[l]) : Grant(l, i)
             \/ Free(l)
    /\ rank' \in [Processes -> Nat]
    /\ runner' \in Processes \cup {Nobody}

Spec == Init /\ [][Next]_tableVars

=============================================================================
