------------------------------ MODULE MCMachine ------------------------------
(***************************************************************************)
(* The machine on words of three bits: program 1 uses everything, program  *)
(* 2 only moves and compares, in turns with it.                            *)
(***************************************************************************)
EXTENDS MachineProperties

MCInstructions == <<{"move", "compare", "stack", "heap"}, {"move", "compare"}>>

\* Two states that differ only in a register file that will be overwritten
\* before it is read (the PCB of the process that runs or has ended, the CPU
\* when nobody runs) are explored once.
Nothing == <<>>

Live ==
    <<IF current = NoProc THEN Nothing ELSE <<cpu>>,
      [p \in Procs |-> IF p = current \/ p \in ended THEN Nothing ELSE <<pcb[p]>>],
      current, leaving, jumped, heapEnd, blocks, ended, compared>>

=============================================================================
