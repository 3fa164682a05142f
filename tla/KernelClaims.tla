---------------------------- MODULE KernelClaims ----------------------------
(***************************************************************************)
(* What the repository says of the kernel and the code does not do.  Each  *)
(* property below is checked by a run that is expected to find it          *)
(* violated; README.md tells the counterexamples.                          *)
(***************************************************************************)
EXTENDS KernelProperties

(***************************************************************************)
(* "Illegal memory access results in process termination"                  *)
(* (docs/README.md:83): the process terminated is the one that faulted,    *)
(* which still stands at the faulting instruction.  A preemption leaves    *)
(* the terminated flag up for the process that runs next.                  *)
(***************************************************************************)
TerminatesTheFaulty ==
    [][HandleTerminated => redo[Current].op = "fault"]_vars

(***************************************************************************)
(* The system "Blocks processes that can't proceed due to lack of memory   *)
(* and resumes them when possible." (docs/README.md:48)  Not all living    *)
(* processes are blocked on memory: nobody would be left to release any.   *)
(***************************************************************************)
NotAllBlockedOnMemory ==
    pc = "dispatch" /\ ~OnlyIdleRemains =>
        \E p \in processList \ {Idle} : ~(state[p] = "Waiting" /\ isBlocked[p])

=============================================================================
