------------------------------- MODULE Machine -------------------------------
(***************************************************************************)
(* The virtual machine a program sees: registers, the two comparison       *)
(* flags, the stack and the heap (cpu.cpp), and how the processes share    *)
(* the one set of registers and flags: saveState and restoreState (pcb.cpp)*)
(* around every run().                                                     *)
(*                                                                         *)
(* A process may execute any instruction at any time, so the behaviours    *)
(* are those of all programs.  When it leaves the processor is left open:  *)
(* a quantum, a sleep, a wait or a waking sleeper may end its run after    *)
(* any instruction.  What the memory holds is not here but in Paging.      *)
(***************************************************************************)
EXTENDS Integers, Sequences

CONSTANTS
    Procs,         \* the pids
    Registers,     \* the registers the programs name, within 0..14
    Destinations,  \* those they write
    Inputs,        \* the words they name, read from memory or are given
    Instructions,  \* the kinds of instruction of each process's program
    WordSize,      \* 2^32, one more than the largest register value
    CodeSize,      \* PCB::codeSize
    HeapStart,     \* PCB::heapStart, the bytes of code and data
    HeapSize,      \* PCB::heapSize
    StackSize,     \* PCB::stackSize
    MaxBlocks      \* bound: the allocations of one process

PidRegister  == 12
StackPointer == 13
Words        == 0..(WordSize - 1)

\* PCB::PCB: the stack lies above the heap and its pointer on its last byte.
FirstHeapEnd      == HeapStart + HeapSize
FirstStackPointer == FirstHeapEnd + StackSize - 1

ASSUME MachineAssumption ==
    /\ WordSize \in Nat \ {0}
    /\ Procs \subseteq Words
    /\ Registers \subseteq 0..14 /\ {PidRegister, StackPointer} \subseteq Registers
    /\ Destinations \subseteq Registers
    /\ Inputs \subseteq Words
    /\ Instructions \in [Procs -> SUBSET {"move", "compare", "stack", "heap"}]
    /\ CodeSize \in Words /\ HeapStart \in Nat /\ HeapSize \in Nat /\ StackSize \in Nat \ {0}
    /\ MaxBlocks \in Nat
    /\ FirstHeapEnd < WordSize /\ FirstStackPointer < WordSize

VARIABLES
    cpu,       \* the CPU's registers and flags
    pcb,       \* what saveState put into each PCB
    current,   \* the process start() has dispatched, or NoProc
    leaving,   \* why run() will return: "no", "yields", "terminated"
    jumped,    \* ~shouldIncrementIP after the last instruction
    heapEnd,   \* PCB::heapEnd
    blocks,    \* PCB::heapAllocations
    ended,     \* the processes that have terminated
    compared   \* history: the outcome of each process's last comparison

machineVars == <<cpu, pcb, current, leaving, jumped, heapEnd, blocks, ended, compared>>

NoProc == -1

MachineState(r, s, z) == [reg |-> r, sign |-> s, zero |-> z]

\* The registers of a new PCB: the constructor sets two (and register 11), the
\* others hold whatever was there.
General == Registers \ {PidRegister, StackPointer}

NewRegisters(garbage) ==
    [r \in Registers |-> IF r = PidRegister THEN CodeSize
                         ELSE IF r = StackPointer THEN FirstStackPointer ELSE garbage[r]]

\* The CPU's own registers are overwritten before they are read.
Init ==
    /\ cpu = MachineState([r \in Registers |-> 0], FALSE, FALSE)
    /\ \E garbage \in [Procs -> [General -> Words]] :
          pcb = [p \in Procs |-> MachineState(NewRegisters(garbage[p]), FALSE, FALSE)]
    /\ current  = NoProc
    /\ leaving  = "no"
    /\ jumped   = FALSE
    /\ heapEnd  = [p \in Procs |-> FirstHeapEnd]
    /\ blocks   = [p \in Procs |-> <<>>]
    /\ ended    = {}
    /\ compared = [p \in Procs |-> "nothing"]

-----------------------------------------------------------------------------
(***************************************************************************)
(* Context switches.                                                       *)
(***************************************************************************)

\* Mutant of Restored: the comparison flags are not copied.
RegistersRestored(p) == [cpu EXCEPT !.reg = [pcb[p].reg EXCEPT ![PidRegister] = p]]

\* restoreState and setRegister(12, pid), before run().
Restored(p) == [pcb[p] EXCEPT !.reg[PidRegister] = p]

Dispatch(p) ==
    /\ current = NoProc
    /\ p \notin ended
    /\ current' = p
    /\ cpu' = Restored(p)
    /\ UNCHANGED <<pcb, leaving, jumped, heapEnd, blocks, ended, compared>>

\* Mutant of Saved: the registers are not copied.
SavedFlagsOnly(p) == [pcb EXCEPT ![p].sign = cpu.sign, ![p].zero = cpu.zero]

Saved(p) == [pcb EXCEPT ![p] = cpu]

\* The six handlers of start() that let the process go on later.  A process
\* that faults in the cycle of a preemption is one of them.
Leave(p) ==
    /\ current = p
    /\ pcb' = Saved(p)
    /\ current' = NoProc
    /\ leaving' = "no"
    /\ jumped' = FALSE
    /\ UNCHANGED <<cpu, heapEnd, blocks, ended, compared>>

\* The handler of `terminated`, raised by a fault, by Exit or in the cycle of
\* an earlier process, saves nothing.
End(p) ==
    /\ current = p
    /\ ended' = ended \cup {p}
    /\ current' = NoProc
    /\ leaving' = "no"
    /\ jumped' = FALSE
    /\ UNCHANGED <<cpu, pcb, heapEnd, blocks, compared>>

-----------------------------------------------------------------------------
(***************************************************************************)
(* Registers, comparisons and jumps.                                       *)
(***************************************************************************)
Executes(p, kind) == current = p /\ leaving = "no" /\ kind \in Instructions[p]

\* The instruction has written x to register r and goes on.
Writes(r, x) ==
    /\ cpu' = [cpu EXCEPT !.reg[r] = x]
    /\ jumped' = FALSE
    /\ UNCHANGED leaving

\* Incr, Addi, Addr, Movi, Movr, Movmr, Input and Inputc.
Move(p, r, x) ==
    /\ Executes(p, "move")
    /\ Writes(r, x)
    /\ UNCHANGED <<pcb, current, heapEnd, blocks, ended, compared>>

Operands == Inputs \cup {cpu.reg[r] : r \in Registers}

Moves(p, r) ==
    \/ \E x \in Operands : Move(p, r, x)
    \/ \E x \in Operands \cup {1} : Move(p, r, (cpu.reg[r] + x) % WordSize)

Outcome(a, b) == IF a < b THEN "less" ELSE IF a = b THEN "equal" ELSE "greater"

\* Mutant of Flags: "greater" resets one flag only.
FlagsWithoutReset(outcome) ==
    CASE outcome = "less"    -> [cpu EXCEPT !.sign = TRUE]
      [] outcome = "equal"   -> [cpu EXCEPT !.zero = TRUE]
      [] outcome = "greater" -> [cpu EXCEPT !.sign = FALSE]

\* Cmpi and Cmpr.  Only "greater" resets a flag.
Flags(outcome) ==
    CASE outcome = "less"    -> [cpu EXCEPT !.sign = TRUE]
      [] outcome = "equal"   -> [cpu EXCEPT !.zero = TRUE]
      [] outcome = "greater" -> [cpu EXCEPT !.sign = FALSE, !.zero = FALSE]

Compare(p, r, x) ==
    /\ Executes(p, "compare")
    /\ cpu' = Flags(Outcome(cpu.reg[r], x))
    /\ compared' = [compared EXCEPT ![p] = Outcome(cpu.reg[r], x)]
    /\ jumped' = FALSE
    /\ UNCHANGED <<pcb, current, leaving, heapEnd, blocks, ended>>

Jumps == {"always", "Jlt", "Jgt", "Je"}

\* Whether the jump is taken on a machine in state m.
Taken(m, jump) ==
    CASE jump = "always" -> TRUE
      [] jump = "Jlt"    -> m.sign
      [] jump = "Jgt"    -> ~m.sign
      [] jump = "Je"     -> m.zero

Jump(p, jump) ==
    /\ Executes(p, "compare")
    /\ jumped' = Taken(cpu, jump)
    /\ UNCHANGED <<cpu, pcb, current, leaving, heapEnd, blocks, ended, compared>>

-----------------------------------------------------------------------------
(***************************************************************************)
(* The stack.  The pointer has moved when it is checked, and it has moved  *)
(* when an access to the stack finds no free page: the process leaves, and *)
(* executes the instruction again, from where the pointer is now.          *)
(***************************************************************************)
\* Mutant of Below: registers are signed.
BelowSigned == cpu.reg[StackPointer] - 4

Below == (cpu.reg[StackPointer] - 4) % WordSize
Above == (cpu.reg[StackPointer] + 4) % WordSize

\* Mutant of Overflows: it is the pointer before the move that is checked.
OverflowsBefore(p, sp) == cpu.reg[StackPointer] < heapEnd[p]

Overflows(p, sp) == sp < heapEnd[p]

\* The stack pointer becomes sp, then the check.
StackTo(p, sp) ==
    /\ Executes(p, "stack")
    /\ cpu' = [cpu EXCEPT !.reg[StackPointer] = sp]
    /\ UNCHANGED <<pcb, current, heapEnd, blocks, ended, compared>>

\* The check fails; or, in Call and the pops, the page is another process's.
StackFault(p, sp) ==
    /\ StackTo(p, sp)
    /\ leaving' = "terminated"
    /\ jumped' = FALSE

\* Pushr, Pushi and Callm; Call once its page is there.
Push(p, calls) ==
    /\ StackTo(p, Below)
    /\ ~Overflows(p, Below)
    /\ jumped' = calls
    /\ UNCHANGED leaving

\* Popr reads the word above the top, x, into register to.
Popr(p, to, x) ==
    /\ Executes(p, "stack")
    /\ ~Overflows(p, Above)
    /\ cpu' = [cpu EXCEPT !.reg = [@ EXCEPT ![StackPointer] = Above, ![to] = x]]
    /\ jumped' = FALSE
    /\ UNCHANGED <<pcb, current, leaving, heapEnd, blocks, ended, compared>>

\* Popm stores that word elsewhere.
Popm(p) ==
    /\ StackTo(p, Above)
    /\ ~Overflows(p, Above)
    /\ jumped' = FALSE
    /\ UNCHANGED leaving

\* Call, Popr or Popm finds no free page.
StackBlocks(p, sp) ==
    /\ StackTo(p, sp)
    /\ ~Overflows(p, sp)
    /\ leaving' = "yields"
    /\ jumped' = FALSE

\* Ret checks first and moves the pointer last.
Ret(p) ==
    /\ StackTo(p, Above)
    /\ ~Overflows(p, cpu.reg[StackPointer])
    /\ jumped' = TRUE
    /\ UNCHANGED leaving

\* Ret with a stack pointer below the heap's end; a bad register or address.
Fault(p) ==
    /\ current = p /\ leaving = "no"
    /\ leaving' = "terminated"
    /\ jumped' = FALSE
    /\ UNCHANGED <<cpu, pcb, current, heapEnd, blocks, ended, compared>>

-----------------------------------------------------------------------------
(***************************************************************************)
(* The heap.                                                               *)
(***************************************************************************)
Block(addr, size, used) == [addr |-> addr, size |-> size, used |-> used]

\* Mutant of NextBlock: allocation restarts below the end of the heap.
AtHeapStart(p) == FirstHeapEnd

NextBlock(p) == heapEnd[p]

\* No more than MaxBlocks times, and never so often that heapEnd wraps around
\* (with 2^32 bytes and heaps of 512, eight million times).
Alloc(p, size, to) ==
    /\ Executes(p, "heap")
    /\ size <= HeapSize
    /\ Len(blocks[p]) < MaxBlocks
    /\ NextBlock(p) + size < WordSize
    /\ Writes(to, NextBlock(p))
    /\ blocks' = [blocks EXCEPT ![p] = Append(@, Block(NextBlock(p), size, TRUE))]
    /\ heapEnd' = [heapEnd EXCEPT ![p] = NextBlock(p) + size]
    /\ UNCHANGED <<pcb, current, ended, compared>>

AllocFails(p, size, to) ==
    /\ Executes(p, "heap")
    /\ size > HeapSize
    /\ Writes(to, 0)
    /\ UNCHANGED <<pcb, current, heapEnd, blocks, ended, compared>>

\* The first used block at addr, if addr is in the heap.
Freed(p, addr) ==
    {i \in 1..Len(blocks[p]) :
        /\ addr >= HeapStart /\ addr < heapEnd[p]
        /\ blocks[p][i].addr = addr /\ blocks[p][i].used
        /\ \A j \in 1..(i - 1) : ~(blocks[p][j].addr = addr /\ blocks[p][j].used)}

FreeMemory(p, addr) ==
    /\ Executes(p, "heap")
    /\ blocks' = [blocks EXCEPT ![p] =
                     [i \in 1..Len(@) |-> IF i \in Freed(p, addr) THEN [@[i] EXCEPT !.used = FALSE]
                                          ELSE @[i]]]
    /\ jumped' = FALSE
    /\ UNCHANGED <<cpu, pcb, current, leaving, heapEnd, ended, compared>>

-----------------------------------------------------------------------------
Computes(p) ==
    \/ \E r \in Destinations : Moves(p, r)
    \/ \E r \in Registers, x \in Operands : Compare(p, r, x)
    \/ \E jump \in Jumps : Jump(p, jump)
    \/ Fault(p)

UsesStack(p) ==
    \/ \E calls \in BOOLEAN : Push(p, calls)
    \/ \E to \in Destinations, x \in Operands : Popr(p, to, x)
    \/ \E sp \in {Below, Above} : StackFault(p, sp) \/ StackBlocks(p, sp)
    \/ Popm(p) \/ Ret(p)

UsesHeap(p) ==
    \E r \in Registers :
        \/ \E to \in Destinations : Alloc(p, cpu.reg[r], to) \/ AllocFails(p, cpu.reg[r], to)
        \/ FreeMemory(p, cpu.reg[r])

\* All programs have ended: not a deadlock of the model.
Done == ended = Procs /\ UNCHANGED machineVars

Next ==
    \/ \E p \in Procs : \/ Dispatch(p) \/ Leave(p) \/ End(p)
                        \/ Computes(p) \/ UsesStack(p) \/ UsesHeap(p)
    \/ Done

Spec == Init /\ [][Next]_machineVars

=============================================================================
