------------------------------ MODULE MCKernel ------------------------------
(***************************************************************************)
(* The kernel on the workloads of the K*.cfg and V*.cfg files: two or      *)
(* three programs made of a few kinds of instruction.                      *)
(*                                                                         *)
(* Where the workload lets a process stand in several queues at once (a    *)
(* stale `terminated` or an abrupt kill leaves its entries behind), the    *)
(* queues can grow for ever: CopiesBound stops such behaviours at          *)
(* MaxCopies entries over all queues.  A workload without that uses no     *)
(* constraint.                                                             *)
(***************************************************************************)
EXTENDS KernelClaims, FiniteSetsExt

CONSTANT
    MaxCopies   \* the queue entries, over all queues, a state may have

\* The entries of all queues together.
Queued == Len(readyQueue) + Len(toReady)
          + FoldSet(LAMBDA l, n : n + Len(lockWaitQueues[l]), 0, LockIds)
          + FoldSet(LAMBDA e, n : n + Len(eventWaitQueues[e]), 0, EventIds)

CopiesBound == Queued <= MaxCopies

=============================================================================
