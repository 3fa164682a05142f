-------------------------- MODULE MachineProperties --------------------------
(***************************************************************************)
(* What programs may rely on when they share the processor, and what the   *)
(* heap and the stack checks keep apart.  MachineProofs proves these for   *)
(* all programs and sizes.                                                 *)
(***************************************************************************)
EXTENDS Machine

Blocks == [addr : Words, size : Words, used : BOOLEAN]

MachineStates == [reg : [Registers -> Words], sign : BOOLEAN, zero : BOOLEAN]

\* The type invariant of the machine.
MachineTypeOK ==
    /\ cpu \in MachineStates
    /\ pcb \in [Procs -> MachineStates]
    /\ current \in Procs \cup {NoProc}
    /\ leaving \in {"no", "yields", "terminated"}
    /\ jumped \in BOOLEAN
    /\ heapEnd \in [Procs -> Words]
    /\ blocks \in [Procs -> Seq(Blocks)]
    /\ ended \subseteq Procs
    /\ compared \in [Procs -> {"nothing", "less", "equal", "greater"}]

\* The machine of process p, wherever it is.
MachineOf(p) == IF p = current THEN cpu ELSE pcb[p]

(***************************************************************************)
(* A conditional jump follows the last comparison of its own process,      *)
(* however many processes have compared since: after "less" Jlt jumps and  *)
(* Jgt does not, after "equal" Je jumps, after "greater" only Jgt does.    *)
(* (The code promises no more: a flag the comparison does not set may be   *)
(* an older one.)                                                          *)
(***************************************************************************)
JumpsTakeTheOutcome ==
    \A p \in Procs \ ended :
        /\ compared[p] = "less" => Taken(MachineOf(p), "Jlt") /\ ~Taken(MachineOf(p), "Jgt")
        /\ compared[p] = "equal" => Taken(MachineOf(p), "Je")
        /\ compared[p] = "greater" =>
              /\ Taken(MachineOf(p), "Jgt")
              /\ ~Taken(MachineOf(p), "Jlt") /\ ~Taken(MachineOf(p), "Je")

(***************************************************************************)
(* Each process has a machine of its own: nobody changes the registers and *)
(* flags of a process but the process itself while it runs, except that a  *)
(* dispatch sets register 12 to its pid.                                   *)
(***************************************************************************)
OwnMachine ==
    [][\A p \in Procs \ ended' :
          \/ current = p /\ current' = p
          \/ MachineOf(p)' \in {MachineOf(p), Restored(p)}]_machineVars

(***************************************************************************)
(* A process cannot tell that it shares the processor: whatever the others *)
(* do between its turns, each step it sees (of its registers, flags, stack *)
(* pointer, heap and jumps, until it ends) is one of a machine that is its *)
(* own, with no other process on it, and the steps of the others it does   *)
(* not see.  saveState and restoreState have to get everything across.     *)
(***************************************************************************)
Solo(p) == INSTANCE Machine WITH
    Procs        <- {p},
    Instructions <- [q \in {p} |-> Instructions[p]],
    cpu          <- MachineOf(p),
    pcb          <- [q \in {p} |-> pcb[p]],
    current      <- IF current = p THEN p ELSE NoProc,
    leaving      <- IF current = p THEN leaving ELSE "no",
    jumped       <- current = p /\ jumped,
    heapEnd      <- [q \in {p} |-> heapEnd[p]],
    blocks       <- [q \in {p} |-> blocks[p]],
    ended        <- ended \cap {p},
    compared     <- [q \in {p} |-> compared[p]]

AsIfAlone ==
    [][\A p \in Procs \ ended' :
          UNCHANGED Solo(p)!machineVars \/ Solo(p)!Next]_machineVars

(***************************************************************************)
(* The blocks Alloc has returned to a process never overlap and lie below  *)
(* heapEnd, over any sequence of allocations and frees.  They begin where  *)
(* the heap segment ends.                                                  *)
(***************************************************************************)
EndOf(block) == block.addr + block.size

BlocksDisjoint ==
    \A p \in Procs :
        \A i \in 1..Len(blocks[p]) :
            /\ FirstHeapEnd <= blocks[p][i].addr
            /\ EndOf(blocks[p][i]) <= heapEnd[p]
            /\ \A j \in 1..(i - 1) : EndOf(blocks[p][j]) <= blocks[p][i].addr

(***************************************************************************)
(* A push or call that passes the stack check stores above every block of  *)
(* the heap, wherever pops, retried instructions and allocations have left *)
(* the stack pointer.                                                      *)
(***************************************************************************)
PushesMissTheHeap ==
    [][\A p \in Procs, calls \in BOOLEAN :
          Push(p, calls) => \A i \in 1..Len(blocks[p]) :
                                EndOf(blocks[p][i]) <= cpu'.reg[StackPointer]]_machineVars

=============================================================================
