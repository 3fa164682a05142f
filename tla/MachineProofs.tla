---------------------------- MODULE MachineProofs ----------------------------
(***************************************************************************)
(* For every set of processes, every program, every word size and every    *)
(* layout of code, heap and stack: the type invariant of the machine,      *)
(* jumps that follow their own process's comparison, blocks that never     *)
(* overlap, pushes that miss them, and processes that keep each their own  *)
(* registers and run as if they were alone.                                *)
(***************************************************************************)
EXTENDS MachineProperties, TLAPS

LEMMA Constants ==
    /\ WordSize \in Nat \ {0} /\ Procs \subseteq Words
    /\ Words \subseteq Nat
    /\ Registers \subseteq Nat /\ {12, 13} \subseteq Registers
    /\ Destinations \subseteq Registers /\ Inputs \subseteq Words
    /\ 0 \in Words
    /\ CodeSize \in Words /\ FirstHeapEnd \in Words /\ FirstStackPointer \in Words
    /\ NoProc \notin Procs
    /\ HeapSize \in Nat
BY MachineAssumption DEF Words, FirstHeapEnd, FirstStackPointer, NoProc, PidRegister, StackPointer

\* A remainder is a word.
LEMMA Remainder == ASSUME NEW x \in Int PROVE x % WordSize \in Words
BY Constants DEF Words

\* Sums of words, the stack pointer's moves among them, wrap around.
LEMMA Sums ==
    ASSUME NEW x \in Words, NEW y \in Words \cup {1}
    PROVE  (x + y) % WordSize \in Words
<1>1. x \in Int /\ y \in Int
  BY Constants
<1> QED
  BY <1>1, Remainder

LEMMA StackMoves ==
    ASSUME NEW x \in Words
    PROVE  (x - 4) % WordSize \in Words /\ (x + 4) % WordSize \in Words
<1>1. x \in Int
  BY Constants
<1> QED
  BY <1>1, Remainder

LEMMA OneMore == ASSUME NEW S, NEW s \in Seq(S), NEW e \in S PROVE Append(s, e) \in Seq(S)
OBVIOUS

LEMMA Longer ==
    ASSUME NEW S, NEW s \in Seq(S), NEW e
    PROVE  /\ Len(s) \in Nat /\ Len(Append(s, e)) = Len(s) + 1
           /\ Append(s, e)[Len(s) + 1] = e
           /\ \A i \in 1..Len(s) : Append(s, e)[i] = s[i]
OBVIOUS

LEMMA OperandsAreWords == ASSUME cpu \in MachineStates PROVE Operands \subseteq Words
BY Constants DEF Operands, MachineStates

-----------------------------------------------------------------------------
\* Writing a word into a register file keeps it one.
LEMMA RegisterWrite ==
    ASSUME NEW m \in MachineStates, NEW r \in Registers, NEW x \in Words
    PROVE  [m EXCEPT !.reg[r] = x] \in MachineStates
BY DEF MachineStates

LEMMA InitType == ASSUME Init PROVE MachineTypeOK
<1>1. cpu \in MachineStates
  BY Constants DEF Init, MachineState, MachineStates
<1>2. pcb \in [Procs -> MachineStates]
  <2>1. PICK garbage \in [Procs -> [General -> Words]] :
           pcb = [p \in Procs |-> MachineState(NewRegisters(garbage[p]), FALSE, FALSE)]
    BY DEF Init
  <2>2. ASSUME NEW p \in Procs PROVE NewRegisters(garbage[p]) \in [Registers -> Words]
    BY Constants DEF NewRegisters, General
  <2> QED
    BY <2>1, <2>2 DEF MachineState, MachineStates
<1>3. blocks \in [Procs -> Seq(Blocks)]
  BY DEF Init
<1>4. current \in Procs \cup {NoProc} /\ ended \subseteq Procs /\ heapEnd \in [Procs -> Words]
  BY Constants DEF Init
<1>5. compared \in [Procs -> {"nothing", "less", "equal", "greater"}]
  BY DEF Init
<1> QED
  BY <1>1, <1>2, <1>3, <1>4, <1>5 DEF Init, MachineTypeOK

\* Dispatch, Leave and End.
LEMMA SwitchType ==
    ASSUME MachineTypeOK, NEW p \in Procs, Dispatch(p) \/ Leave(p) \/ End(p)
    PROVE  MachineTypeOK'
<1>1. CASE Dispatch(p)
  <2>1. Restored(p) \in MachineStates
    BY Constants, RegisterWrite DEF Restored, MachineTypeOK, PidRegister
  <2> QED
    BY <1>1, <2>1 DEF Dispatch, MachineTypeOK
<1>2. CASE Leave(p)
  BY <1>2 DEF Leave, Saved, MachineTypeOK
<1>3. CASE End(p)
  BY <1>3 DEF End, MachineTypeOK
<1> QED
  BY <1>1, <1>2, <1>3

\* Moves, comparisons, jumps and faults.
LEMMA ComputesType ==
    ASSUME MachineTypeOK, NEW p \in Procs, Computes(p)
    PROVE  MachineTypeOK'
<1> USE DEF MachineTypeOK
<1>1. ASSUME NEW r \in Destinations, Moves(p, r) PROVE MachineTypeOK'
  <2>1. PICK x \in Words : Move(p, r, x)
    <3>1. ASSUME NEW y \in Operands \cup {1}
          PROVE (cpu.reg[r] + y) % WordSize \in Words
      <4>1. cpu.reg[r] \in Words
        BY Constants DEF MachineStates
      <4>2. y \in Words \cup {1}
        BY OperandsAreWords
      <4> QED
        BY <4>1, <4>2, Sums
    <3> QED
      BY <1>1, <3>1, OperandsAreWords DEF Moves
  <2> QED
    BY <2>1, RegisterWrite, Constants DEF Move, Writes
<1>2. ASSUME NEW r \in Registers, NEW x \in Operands, Compare(p, r, x) PROVE MachineTypeOK'
  <2>1. Outcome(cpu.reg[r], x) \in {"less", "equal", "greater"}
    BY DEF Outcome
  <2>2. Flags(Outcome(cpu.reg[r], x)) \in MachineStates
    BY <2>1 DEF Flags, MachineStates
  <2> QED
    BY <1>2, <2>1, <2>2 DEF Compare
<1>3. ASSUME NEW jump \in Jumps, Jump(p, jump) PROVE MachineTypeOK'
  <2>1. Taken(cpu, jump) \in BOOLEAN
    BY DEF Taken, Jumps, MachineStates
  <2> QED
    BY <1>3, <2>1 DEF Jump
<1>4. CASE Fault(p)
  BY <1>4 DEF Fault
<1> QED
  BY <1>1, <1>2, <1>3, <1>4 DEF Computes

LEMMA StackType ==
    ASSUME MachineTypeOK, NEW p \in Procs, UsesStack(p)
    PROVE  MachineTypeOK'
<1> USE DEF MachineTypeOK
<1>1. Below \in Words /\ Above \in Words
  <2>1. cpu.reg[StackPointer] \in Words
    BY Constants DEF MachineStates, StackPointer
  <2> QED
    BY <2>1, StackMoves DEF Below, Above
<1>2. ASSUME NEW sp \in Words, StackTo(p, sp), leaving' \in {"no", "yields", "terminated"},
             jumped' \in BOOLEAN
      PROVE  MachineTypeOK'
  BY <1>2, RegisterWrite, Constants DEF StackTo, StackPointer
<1>3. ASSUME NEW to \in Destinations, NEW x \in Operands, Popr(p, to, x) PROVE MachineTypeOK'
  <2>1. [cpu EXCEPT !.reg = [@ EXCEPT ![StackPointer] = Above, ![to] = x]] \in MachineStates
    BY <1>1, Constants, OperandsAreWords DEF MachineStates, StackPointer
  <2> QED
    BY <1>3, <2>1 DEF Popr
<1>4. ASSUME NEW sp \in {Below, Above}, StackFault(p, sp) \/ StackBlocks(p, sp)
      PROVE MachineTypeOK'
  BY <1>1, <1>2, <1>4 DEF StackFault, StackBlocks
<1>5. ASSUME NEW calls \in BOOLEAN, Push(p, calls) PROVE MachineTypeOK'
  BY <1>1, <1>2, <1>5 DEF Push
<1>6. CASE Popm(p) \/ Ret(p)
  BY <1>1, <1>2, <1>6 DEF Popm, Ret
<1> QED
  BY <1>3, <1>4, <1>5, <1>6 DEF UsesStack

LEMMA HeapType ==
    ASSUME MachineTypeOK, NEW p \in Procs, UsesHeap(p)
    PROVE  MachineTypeOK'
<1> USE DEF MachineTypeOK
<1>1. PICK r \in Registers :
         \/ \E to \in Destinations : Alloc(p, cpu.reg[r], to) \/ AllocFails(p, cpu.reg[r], to)
         \/ FreeMemory(p, cpu.reg[r])
  BY DEF UsesHeap
<1> DEFINE size == cpu.reg[r]
<1>2. size \in Words /\ heapEnd[p] \in Words
  BY DEF MachineStates
<1>3. ASSUME NEW to \in Destinations, Alloc(p, size, to) PROVE MachineTypeOK'
  <2>1. heapEnd[p] + size \in Words
    BY <1>2, <1>3, Constants DEF Alloc, NextBlock, Words
  <2>2. Append(blocks[p], Block(heapEnd[p], size, TRUE)) \in Seq(Blocks)
    <3>1. Block(heapEnd[p], size, TRUE) \in Blocks
      BY <1>2 DEF Block, Blocks
    <3>2. blocks[p] \in Seq(Blocks)
      OBVIOUS
    <3> HIDE DEF MachineTypeOK, size
    <3> QED
      BY <3>1, <3>2, OneMore
  <2>3. cpu' \in MachineStates
    BY <1>2, <1>3, RegisterWrite, Constants DEF Alloc, Writes, NextBlock
  <2> QED
    BY <1>3, <2>1, <2>2, <2>3 DEF Alloc, Writes, NextBlock
<1>4. ASSUME NEW to \in Destinations, AllocFails(p, size, to) PROVE MachineTypeOK'
  BY <1>4, RegisterWrite, Constants DEF AllocFails, Writes
<1>5. CASE FreeMemory(p, size)
  <2> DEFINE freed == [i \in 1..Len(blocks[p]) |->
                          IF i \in Freed(p, size) THEN [blocks[p][i] EXCEPT !.used = FALSE]
                          ELSE blocks[p][i]]
  <2>1. blocks[p] \in Seq(Blocks)
    OBVIOUS
  <2>2. ASSUME NEW i \in 1..Len(blocks[p]) PROVE freed[i] \in Blocks
    <3>1. blocks[p][i] \in Blocks
      BY <2>1
    <3>2. [blocks[p][i] EXCEPT !.used = FALSE] \in Blocks
      BY <3>1 DEF Blocks
    <3> QED
      BY <3>1, <3>2
  <2>3. freed \in Seq(Blocks)
    BY <2>1, <2>2
  <2>4. blocks' = [blocks EXCEPT ![p] = freed]
    BY <1>5 DEF FreeMemory
  <2>5. blocks' \in [Procs -> Seq(Blocks)]
    BY <2>3, <2>4
  <2> QED
    BY <1>5, <2>5 DEF FreeMemory
<1> QED
  BY <1>1, <1>3, <1>4, <1>5

LEMMA TypeStep == MachineTypeOK /\ [Next]_machineVars => MachineTypeOK'
<1> SUFFICES ASSUME MachineTypeOK, [Next]_machineVars PROVE MachineTypeOK'
  OBVIOUS
<1>1. ASSUME NEW p \in Procs, Dispatch(p) \/ Leave(p) \/ End(p) PROVE MachineTypeOK'
  BY <1>1, SwitchType
<1>2. ASSUME NEW p \in Procs, Computes(p) PROVE MachineTypeOK'
  BY <1>2, ComputesType
<1>3. ASSUME NEW p \in Procs, UsesStack(p) PROVE MachineTypeOK'
  BY <1>3, StackType
<1>4. ASSUME NEW p \in Procs, UsesHeap(p) PROVE MachineTypeOK'
  BY <1>4, HeapType
<1>5. CASE UNCHANGED machineVars
  BY <1>5 DEF machineVars, MachineTypeOK
<1> QED
  BY <1>1, <1>2, <1>3, <1>4, <1>5 DEF Next, Done

\* Every reachable state of the machine is well typed: registers stay within
\* a word although the stack pointer moves before it is checked.
THEOREM MachineTypeCorrect == Spec => []MachineTypeOK
<1>1. Init => MachineTypeOK
  BY InitType
<1> QED
  BY <1>1, TypeStep, PTL DEF Spec

-----------------------------------------------------------------------------
(***************************************************************************)
(* Each step is a context switch, or the process that runs computes.       *)
(***************************************************************************)
Runs(p) == current = p /\ UNCHANGED <<pcb, current, ended>>

\* ... and compares nothing.
KeepsFlags ==
    /\ cpu'.sign = cpu.sign /\ cpu'.zero = cpu.zero
    /\ UNCHANGED <<pcb, current, ended, compared>>

LEMMA ComputesRuns ==
    ASSUME NEW p \in Procs, Computes(p) \/ UsesStack(p) \/ UsesHeap(p)
    PROVE  Runs(p)
<1>1. CASE Computes(p)
  BY <1>1 DEF Computes, Moves, Move, Compare, Jump, Fault, Executes, Runs
<1>2. CASE UsesStack(p)
  BY <1>2 DEF UsesStack, Push, Popr, StackFault, StackBlocks, Popm, Ret, StackTo, Executes, Runs
<1>3. CASE UsesHeap(p)
  BY <1>3 DEF UsesHeap, Alloc, AllocFails, FreeMemory, Executes, Runs
<1> QED
  BY <1>1, <1>2, <1>3

\* Writing a register keeps the flags.
LEMMA RegistersOnly ==
    ASSUME NEW m \in MachineStates, NEW regs
    PROVE  /\ [m EXCEPT !.reg = regs].sign = m.sign
           /\ [m EXCEPT !.reg = regs].zero = m.zero
BY DEF MachineStates

LEMMA OneRegister ==
    ASSUME NEW m \in MachineStates, NEW r, NEW x
    PROVE  /\ [m EXCEPT !.reg[r] = x].sign = m.sign
           /\ [m EXCEPT !.reg[r] = x].zero = m.zero
BY DEF MachineStates

LEMMA OnlyCompareSetsFlags ==
    ASSUME MachineTypeOK, NEW p \in Procs, Computes(p) \/ UsesStack(p) \/ UsesHeap(p)
    PROVE  KeepsFlags \/ \E r \in Registers, x \in Operands : Compare(p, r, x)
<1>1. cpu \in MachineStates
  BY DEF MachineTypeOK
<1>2. CASE Computes(p)
  <2>1. ASSUME NEW r, NEW x, Move(p, r, x) PROVE KeepsFlags
    BY <1>1, <2>1, OneRegister DEF Move, Writes, KeepsFlags
  <2>2. ASSUME NEW jump, Jump(p, jump) PROVE KeepsFlags
    BY <2>2 DEF Jump, KeepsFlags
  <2>3. CASE Fault(p)
    BY <2>3 DEF Fault, KeepsFlags
  <2> QED
    BY <1>2, <2>1, <2>2, <2>3 DEF Computes, Moves
<1>3. CASE UsesStack(p)
  <2>1. ASSUME NEW sp, StackTo(p, sp) PROVE KeepsFlags
    BY <1>1, <2>1, OneRegister DEF StackTo, KeepsFlags
  <2>2. ASSUME NEW to, NEW x, Popr(p, to, x) PROVE KeepsFlags
    BY <1>1, <2>2, RegistersOnly DEF Popr, KeepsFlags
  <2> QED
    BY <1>3, <2>1, <2>2 DEF UsesStack, Push, StackFault, StackBlocks, Popm, Ret
<1>4. CASE UsesHeap(p)
  <2>1. ASSUME NEW size, NEW to, Alloc(p, size, to) PROVE KeepsFlags
    BY <1>1, <2>1, OneRegister DEF Alloc, Writes, KeepsFlags
  <2>2. ASSUME NEW size, NEW to, AllocFails(p, size, to) PROVE KeepsFlags
    BY <1>1, <2>2, OneRegister DEF AllocFails, Writes, KeepsFlags
  <2>3. ASSUME NEW addr, FreeMemory(p, addr) PROVE KeepsFlags
    BY <2>3 DEF FreeMemory, KeepsFlags
  <2> QED
    BY <1>4, <2>1, <2>2, <2>3 DEF UsesHeap
<1> QED
  BY <1>2, <1>3, <1>4

\* The dispatch changes no flag.
LEMMA RestoredFlags ==
    ASSUME MachineTypeOK, NEW p \in Procs
    PROVE  Restored(p).sign = pcb[p].sign /\ Restored(p).zero = pcb[p].zero
<1>1. pcb[p] \in MachineStates
  BY DEF MachineTypeOK
<1> QED
  BY <1>1, OneRegister DEF Restored

-----------------------------------------------------------------------------
\* The flags of a machine say what the last comparison found.
Agrees(m, outcome) ==
    /\ outcome = "less" => m.sign
    /\ outcome = "equal" => m.zero
    /\ outcome = "greater" => ~m.sign /\ ~m.zero

LEMMA JumpsAgree ==
    JumpsTakeTheOutcome <=> \A p \in Procs \ ended : Agrees(MachineOf(p), compared[p])
BY DEF JumpsTakeTheOutcome, Taken, Agrees

LEMMA CompareAgrees ==
    ASSUME MachineTypeOK, NEW outcome \in {"less", "equal", "greater"}
    PROVE  Agrees(Flags(outcome), outcome)
<1>1. cpu \in MachineStates
  BY DEF MachineTypeOK
<1>2. CASE outcome = "less"
  BY <1>1, <1>2 DEF Flags, Agrees, MachineStates
<1>3. CASE outcome = "equal"
  BY <1>1, <1>3 DEF Flags, Agrees, MachineStates
<1>4. CASE outcome = "greater"
  BY <1>1, <1>4 DEF Flags, Agrees, MachineStates
<1> QED
  BY <1>2, <1>3, <1>4

LEMMA JumpsStep ==
    ASSUME MachineTypeOK, JumpsTakeTheOutcome, [Next]_machineVars
    PROVE  JumpsTakeTheOutcome'
<1> DEFINE Same(q) == /\ MachineOf(q)'.sign = MachineOf(q).sign
                      /\ MachineOf(q)'.zero = MachineOf(q).zero
                      /\ compared'[q] = compared[q]
<1>1. SUFFICES ASSUME NEW q \in Procs, q \notin ended'
               PROVE  Agrees(MachineOf(q)', compared'[q])
  BY DEF JumpsTakeTheOutcome, Taken, Agrees
<1>2. ASSUME q \notin ended, Same(q) PROVE Agrees(MachineOf(q)', compared'[q])
  BY <1>2, JumpsAgree DEF Agrees
<1>3. NoProc # q
  BY Constants
<1>4. ASSUME NEW p \in Procs, Dispatch(p) PROVE Same(q) /\ q \notin ended
  BY <1>1, <1>3, <1>4, RestoredFlags DEF Dispatch, MachineOf
<1>5. ASSUME NEW p \in Procs, Leave(p) PROVE Same(q) /\ q \notin ended
  BY <1>1, <1>3, <1>5 DEF Leave, Saved, MachineOf, MachineTypeOK
<1>6. ASSUME NEW p \in Procs, End(p) PROVE Same(q) /\ q \notin ended
  BY <1>1, <1>3, <1>6 DEF End, MachineOf
<1>7. ASSUME KeepsFlags PROVE Same(q) /\ q \notin ended
  BY <1>1, <1>7 DEF KeepsFlags, MachineOf
<1>8. ASSUME NEW p \in Procs, NEW r \in Registers, NEW x \in Operands, Compare(p, r, x)
      PROVE  Agrees(MachineOf(q)', compared'[q])
  <2>1. CASE q = p
    <3>1. MachineOf(q)' = Flags(Outcome(cpu.reg[r], x)) /\ compared'[q] = Outcome(cpu.reg[r], x)
      BY <1>8, <2>1 DEF Compare, Executes, MachineOf, MachineTypeOK
    <3>2. Outcome(cpu.reg[r], x) \in {"less", "equal", "greater"}
      BY DEF Outcome
    <3> QED
      BY <3>1, <3>2, CompareAgrees
  <2>2. CASE q # p
    <3>1. Same(q) /\ q \notin ended
      BY <1>1, <1>8, <2>2 DEF Compare, Executes, MachineOf, MachineTypeOK
    <3> QED
      BY <3>1, <1>2
  <2> QED
    BY <2>1, <2>2
<1>9. CASE UNCHANGED machineVars
  <2>1. Same(q) /\ q \notin ended
    BY <1>1, <1>9 DEF machineVars, MachineOf
  <2> QED
    BY <2>1, <1>2
<1> QED
  BY <1>2, <1>4, <1>5, <1>6, <1>7, <1>8, <1>9, OnlyCompareSetsFlags DEF Next, Done

\* A conditional jump follows the last comparison of its own process,
\* whatever the others execute between the two.
THEOREM JumpsFollowComparisons == Spec => []JumpsTakeTheOutcome
<1>1. Init => MachineTypeOK /\ JumpsTakeTheOutcome
  BY InitType DEF Init, JumpsTakeTheOutcome
<1>2. MachineTypeOK /\ JumpsTakeTheOutcome /\ [Next]_machineVars
         => MachineTypeOK' /\ JumpsTakeTheOutcome'
  BY TypeStep, JumpsStep
<1> QED
  BY <1>1, <1>2, PTL DEF Spec

-----------------------------------------------------------------------------
\* One step of OwnMachine.
LEMMA OwnStep ==
    ASSUME MachineTypeOK, [Next]_machineVars, NEW q \in Procs, q \notin ended'
    PROVE  \/ current = q /\ current' = q
           \/ MachineOf(q)' \in {MachineOf(q), Restored(q)}
<1>1. NoProc # q
  BY Constants
<1>2. ASSUME NEW p \in Procs, Dispatch(p)
      PROVE  MachineOf(q)' \in {MachineOf(q), Restored(q)}
  BY <1>1, <1>2 DEF Dispatch, MachineOf
<1>3. ASSUME NEW p \in Procs, Leave(p) PROVE MachineOf(q)' = MachineOf(q)
  BY <1>1, <1>3 DEF Leave, Saved, MachineOf, MachineTypeOK
<1>4. ASSUME NEW p \in Procs, End(p) PROVE MachineOf(q)' = MachineOf(q)
  BY <1>1, <1>4 DEF End, MachineOf
<1>5. ASSUME NEW p \in Procs, Runs(p)
      PROVE  \/ current = q /\ current' = q
             \/ MachineOf(q)' = MachineOf(q)
  BY <1>5 DEF Runs, MachineOf
<1>6. CASE UNCHANGED machineVars
  BY <1>6 DEF machineVars, MachineOf
<1> QED
  BY <1>2, <1>3, <1>4, <1>5, <1>6, ComputesRuns DEF Next, Done

\* Nobody changes the registers and flags of a process but the process itself
\* while it runs; a dispatch sets its register 12.
THEOREM MachinesAreOwn == Spec => OwnMachine
<1>1. MachineTypeOK /\ [Next]_machineVars
         => [\A p \in Procs \ ended' :
                \/ current = p /\ current' = p
                \/ MachineOf(p)' \in {MachineOf(p), Restored(p)}]_machineVars
  BY OwnStep
<1> QED
  BY <1>1, MachineTypeCorrect, PTL DEF Spec, OwnMachine

-----------------------------------------------------------------------------
(***************************************************************************)
(* The machine that p has for itself.  While p runs it is the CPU, with    *)
(* p's part of the rest.                                                   *)
(***************************************************************************)
LEMMA SoloView ==
    ASSUME MachineTypeOK, MachineTypeOK', NEW p \in Procs, current = p, current' = p
    PROVE  /\ MachineOf(p) = cpu /\ (MachineOf(p))' = cpu'
           /\ (current = p /\ jumped) = jumped /\ (current = p /\ jumped)' = jumped'
           /\ Solo(p)!Operands = Operands /\ Solo(p)!Below = Below /\ Solo(p)!Above = Above
           /\ \A kind : Executes(p, kind) => Solo(p)!Executes(p, kind)
<1>1. MachineOf(p) = cpu /\ (MachineOf(p))' = cpu'
  BY DEF MachineOf
<1>2. (current = p /\ jumped) = jumped /\ (current = p /\ jumped)' = jumped'
  BY DEF MachineTypeOK
<1> QED
  BY <1>1, <1>2 DEF Operands, Solo!Operands, Below, Solo!Below, Above, Solo!Above, Executes, Solo!Executes,
     StackPointer, Solo!StackPointer

\* What a step leaves alone it leaves alone for p.
LEMMA SoloKeeps ==
    ASSUME NEW p \in Procs
    PROVE  /\ pcb' = pcb => UNCHANGED [q \in {p} |-> pcb[p]]
           /\ heapEnd' = heapEnd => UNCHANGED [q \in {p} |-> heapEnd[p]]
           /\ blocks' = blocks => UNCHANGED [q \in {p} |-> blocks[p]]
           /\ compared' = compared => UNCHANGED [q \in {p} |-> compared[p]]
           /\ ended' = ended => UNCHANGED (ended \cap {p})
  OBVIOUS

\* Each action of p is the same action of p's own machine.
LEMMA SoloComputes ==
    ASSUME MachineTypeOK, MachineTypeOK', NEW p \in Procs, Computes(p)
    PROVE  Solo(p)!Computes(p)
<1>0. current = p /\ current' = p
  BY DEF Computes, Moves, Move, Compare, Jump, Fault, Executes
<1>1. ASSUME NEW r, NEW x, Move(p, r, x)
      PROVE  Solo(p)!Move(p, r, x)
  BY <1>0, <1>1, SoloView, SoloKeeps DEF Move, Solo!Move, Writes, Solo!Writes
<1>2. ASSUME NEW r \in Destinations, Moves(p, r)
      PROVE  Solo(p)!Moves(p, r)
  <2>1. Solo(p)!Operands = Operands /\ MachineOf(p) = cpu
    BY <1>0, SoloView
  <2>2. CASE \E x \in Operands : Move(p, r, x)
    BY <1>1, <2>1, <2>2 DEF Solo!Moves
  <2>3. CASE \E x \in Operands \cup {1} : Move(p, r, (cpu.reg[r] + x) % WordSize)
    <3>1. PICK x \in Operands \cup {1} : Move(p, r, (cpu.reg[r] + x) % WordSize)
      BY <2>3
    <3>2. (MachineOf(p).reg[r] + x) % WordSize = (cpu.reg[r] + x) % WordSize
      BY <2>1
    <3>3. Solo(p)!Move(p, r, (MachineOf(p).reg[r] + x) % WordSize)
      BY <1>0, <3>1, <3>2, SoloView, SoloKeeps DEF Move, Solo!Move, Writes, Solo!Writes
    <3> QED
      BY <2>1, <3>3 DEF Solo!Moves
  <2> QED
    BY <1>2, <2>2, <2>3 DEF Moves
<1>3. ASSUME NEW r \in Registers, NEW x \in Operands, Compare(p, r, x)
      PROVE  Solo(p)!Compare(p, r, x)
  <2>1. Solo(p)!Flags(Outcome(cpu.reg[r], x)) = Flags(Outcome(cpu.reg[r], x))
    BY <1>0, SoloView DEF Flags, Solo!Flags
  <2>2. [q \in {p} |-> compared[p]]' = [[q \in {p} |-> compared[p]] EXCEPT ![p] = Outcome(cpu.reg[r], x)]
    BY <1>3 DEF Compare, MachineTypeOK
  <2> QED
    BY <1>0, <1>3, <2>1, <2>2, SoloView, SoloKeeps DEF Compare, Solo!Compare, Outcome, Solo!Outcome
<1>4. ASSUME NEW jump \in Jumps, Jump(p, jump)
      PROVE  Solo(p)!Jump(p, jump)
  <2>1. Solo(p)!Taken(cpu, jump) = Taken(cpu, jump)
    BY DEF Taken, Solo!Taken
  <2> QED
    BY <1>0, <1>4, <2>1, SoloView, SoloKeeps DEF Jump, Solo!Jump
<1>5. Fault(p) => Solo(p)!Fault(p)
  BY <1>0, SoloView, SoloKeeps DEF Fault, Solo!Fault
<1> QED
  BY <1>0, <1>2, <1>3, <1>4, <1>5, SoloView DEF Computes, Solo!Computes, Jumps, Solo!Jumps

LEMMA SoloUsesStack ==
    ASSUME MachineTypeOK, MachineTypeOK', NEW p \in Procs, UsesStack(p)
    PROVE  Solo(p)!UsesStack(p)
<1>0. current = p /\ current' = p
  BY DEF UsesStack, Push, Popr, StackFault, StackBlocks, Popm, Ret, StackTo, Executes
<1>1. Solo(p)!StackPointer = StackPointer
  BY DEF StackPointer, Solo!StackPointer
<1>2. \A sp : Overflows(p, sp) <=> Solo(p)!Overflows(p, sp)
  BY DEF Overflows, Solo!Overflows
<1>3. ASSUME NEW sp, StackTo(p, sp)
      PROVE  Solo(p)!StackTo(p, sp)
  BY <1>0, <1>1, <1>3, SoloView, SoloKeeps DEF StackTo, Solo!StackTo
<1>4. ASSUME NEW calls \in BOOLEAN, Push(p, calls)
      PROVE  Solo(p)!Push(p, calls)
  BY <1>0, <1>2, <1>3, <1>4, SoloView DEF Push, Solo!Push
<1>5. ASSUME NEW to \in Destinations, NEW x \in Operands, Popr(p, to, x)
      PROVE  Solo(p)!Popr(p, to, x)
  BY <1>0, <1>1, <1>2, <1>5, SoloView, SoloKeeps DEF Popr, Solo!Popr
<1>6. ASSUME NEW sp \in {Below, Above}, StackFault(p, sp) \/ StackBlocks(p, sp)
      PROVE  Solo(p)!StackFault(p, sp) \/ Solo(p)!StackBlocks(p, sp)
  BY <1>0, <1>2, <1>3, <1>6, SoloView DEF StackFault, Solo!StackFault, StackBlocks, Solo!StackBlocks
<1>7. Popm(p) => Solo(p)!Popm(p)
  BY <1>0, <1>2, <1>3, SoloView DEF Popm, Solo!Popm
<1>8. Ret(p) => Solo(p)!Ret(p)
  BY <1>0, <1>1, <1>2, <1>3, SoloView DEF Ret, Solo!Ret
<1>9. Solo(p)!Operands = Operands /\ Solo(p)!Below = Below /\ Solo(p)!Above = Above
  BY <1>0, SoloView
<1> QED
  BY <1>4, <1>5, <1>6, <1>7, <1>8, <1>9 DEF UsesStack, Solo!UsesStack

LEMMA SoloUsesHeap ==
    ASSUME MachineTypeOK, MachineTypeOK', NEW p \in Procs, UsesHeap(p)
    PROVE  Solo(p)!UsesHeap(p)
<1>0. current = p /\ current' = p
  BY DEF UsesHeap, Alloc, AllocFails, FreeMemory, Executes
<1>1. Solo(p)!NextBlock(p) = NextBlock(p)
  BY DEF NextBlock, Solo!NextBlock
<1>2. ASSUME NEW r, NEW x, Writes(r, x)
      PROVE  Solo(p)!Writes(r, x)
  BY <1>0, <1>2, SoloView DEF Writes, Solo!Writes
<1>3. ASSUME NEW size, NEW to, Alloc(p, size, to)
      PROVE  Solo(p)!Alloc(p, size, to)
  <2>1. /\ [q \in {p} |-> heapEnd[p]]'
              = [[q \in {p} |-> heapEnd[p]] EXCEPT ![p] = NextBlock(p) + size]
        /\ [q \in {p} |-> blocks[p]]'
              = [[q \in {p} |-> blocks[p]] EXCEPT
                    ![p] = Append(@, Solo(p)!Block(NextBlock(p), size, TRUE))]
    BY <1>3 DEF Alloc, MachineTypeOK, Block, Solo!Block
  <2> QED
    BY <1>0, <1>1, <1>2, <1>3, <2>1, SoloView, SoloKeeps DEF Alloc, Solo!Alloc
<1>4. ASSUME NEW size, NEW to, AllocFails(p, size, to)
      PROVE  Solo(p)!AllocFails(p, size, to)
  BY <1>0, <1>2, <1>4, SoloView, SoloKeeps DEF AllocFails, Solo!AllocFails
<1>5. ASSUME NEW addr, FreeMemory(p, addr)
      PROVE  Solo(p)!FreeMemory(p, addr)
  <2>1. Solo(p)!Freed(p, addr) = Freed(p, addr)
    BY DEF Freed, Solo!Freed
  <2>2. [q \in {p} |-> blocks[p]]'
           = [[q \in {p} |-> blocks[p]] EXCEPT
                 ![p] = [i \in 1..Len(@) |-> IF i \in Freed(p, addr) THEN [@[i] EXCEPT !.used = FALSE]
                                             ELSE @[i]]]
    BY <1>5 DEF FreeMemory, MachineTypeOK
  <2> QED
    BY <1>0, <1>5, <2>1, <2>2, SoloView, SoloKeeps DEF FreeMemory, Solo!FreeMemory
<1>6. MachineOf(p) = cpu
  BY <1>0, SoloView
<1> QED
  BY <1>3, <1>4, <1>5, <1>6 DEF UsesHeap, Solo!UsesHeap

\* A dispatched process starts with no flag raised.
Fresh == current = NoProc => leaving = "no" /\ ~jumped

LEMMA FreshStep == Fresh /\ [Next]_machineVars => Fresh'
<1> SUFFICES ASSUME Fresh, [Next]_machineVars PROVE Fresh'
  OBVIOUS
<1>1. CASE UNCHANGED machineVars
  BY <1>1 DEF Fresh, machineVars
<1>2. ASSUME NEW p \in Procs, Dispatch(p) \/ Leave(p) \/ End(p) \/ Computes(p) \/ UsesStack(p) \/ UsesHeap(p)
      PROVE  Fresh'
  <2>1. p # NoProc
    BY Constants
  <2>2. CASE Leave(p) \/ End(p)
    BY <2>2 DEF Leave, End, Fresh
  <2>3. CASE Dispatch(p)
    BY <2>1, <2>3 DEF Dispatch, Fresh
  <2>4. CASE Computes(p) \/ UsesStack(p) \/ UsesHeap(p)
    <3>1. current' = p
      BY <2>4 DEF Computes, Moves, Move, Compare, Jump, Fault, UsesStack, Push, Popr, StackFault, StackBlocks,
         Popm, Ret, StackTo, UsesHeap, Alloc, AllocFails, FreeMemory, Executes
    <3> QED
      BY <2>1, <3>1 DEF Fresh
  <2> QED
    BY <1>2, <2>2, <2>3, <2>4
<1> QED
  BY <1>1, <1>2 DEF Next, Done

LEMMA SoloSwitches ==
    ASSUME MachineTypeOK, MachineTypeOK', Fresh, NEW p \in Procs, p \notin ended'
    PROVE  (Dispatch(p) => Solo(p)!Dispatch(p)) /\ (Leave(p) => Solo(p)!Leave(p)) /\ ~End(p)
<1>0. p # NoProc
  BY Constants
<1>1. ASSUME Dispatch(p) PROVE Solo(p)!Dispatch(p)
  <2>1. Solo(p)!Restored(p) = Restored(p)
    BY DEF Restored, Solo!Restored, PidRegister, Solo!PidRegister
  <2> QED
    BY <1>0, <1>1, <2>1, SoloKeeps DEF Dispatch, Solo!Dispatch, MachineOf, Solo!NoProc, NoProc, Fresh
<1>2. ASSUME Leave(p) PROVE Solo(p)!Leave(p)
  <2>1. [q \in {p} |-> pcb[p]]' = Solo(p)!Saved(p)
    BY <1>2 DEF Leave, Saved, Solo!Saved, MachineOf, MachineTypeOK
  <2>2. MachineOf(p) = cpu /\ (MachineOf(p))' = cpu
    BY <1>0, <1>2 DEF Leave, Saved, MachineOf, MachineTypeOK
  <2> QED
    BY <1>0, <1>2, <2>1, <2>2, SoloKeeps DEF Leave, Solo!Leave, Solo!NoProc, NoProc
<1>3. ~End(p)
  BY DEF End
<1> QED
  BY <1>1, <1>2, <1>3

\* Nobody else's step touches what p sees.
LEMMA SoloStutters ==
    ASSUME MachineTypeOK, MachineTypeOK', NEW p \in Procs, NEW o \in Procs, o # p,
           Dispatch(o) \/ Leave(o) \/ End(o) \/ Computes(o) \/ UsesStack(o) \/ UsesHeap(o)
    PROVE  UNCHANGED Solo(p)!machineVars
<1>0. p # NoProc /\ o # NoProc
  BY Constants
<1>1. current # p /\ current' # p
  BY <1>0 DEF Dispatch, Leave, End, Computes, Moves, Move, Compare, Jump, Fault, UsesStack, Push, Popr,
     StackFault, StackBlocks, Popm, Ret, StackTo, UsesHeap, Alloc, AllocFails, FreeMemory, Executes
<1>2. pcb'[p] = pcb[p]
  BY DEF Dispatch, Leave, End, Computes, Moves, Move, Compare, Jump, Fault, UsesStack, Push, Popr,
     StackFault, StackBlocks, Popm, Ret, StackTo, UsesHeap, Alloc, AllocFails, FreeMemory, Saved, MachineTypeOK
<1>3. heapEnd'[p] = heapEnd[p] /\ blocks'[p] = blocks[p]
  BY DEF Dispatch, Leave, End, Computes, Moves, Move, Compare, Jump, Fault, UsesStack, Push, Popr,
     StackFault, StackBlocks, Popm, Ret, StackTo, UsesHeap, Alloc, AllocFails, FreeMemory, MachineTypeOK
<1>4. compared'[p] = compared[p] /\ ended' \cap {p} = ended \cap {p}
  BY DEF Dispatch, Leave, End, Computes, Moves, Move, Compare, Jump, Fault, UsesStack, Push, Popr,
     StackFault, StackBlocks, Popm, Ret, StackTo, UsesHeap, Alloc, AllocFails, FreeMemory, MachineTypeOK
<1>5. MachineOf(p) = pcb[p] /\ (MachineOf(p))' = pcb'[p]
  BY <1>1 DEF MachineOf
<1> QED
  BY <1>1, <1>2, <1>3, <1>4, <1>5 DEF Solo!machineVars

(***************************************************************************)
(* Sharing the processor is invisible: every process that has not ended    *)
(* sees the steps of a machine with no other process on it.                *)
(***************************************************************************)
THEOREM EachRunsAsIfAlone == Spec => AsIfAlone
<1>1. ASSUME MachineTypeOK, MachineTypeOK', Fresh, [Next]_machineVars, NEW p \in Procs \ ended'
      PROVE  UNCHANGED Solo(p)!machineVars \/ Solo(p)!Next
  <2>1. CASE Dispatch(p) \/ Leave(p) \/ End(p) \/ Computes(p) \/ UsesStack(p) \/ UsesHeap(p)
    BY <1>1, <2>1, SoloSwitches, SoloComputes, SoloUsesStack, SoloUsesHeap DEF Solo!Next
  <2>2. CASE \E o \in Procs \ {p} : Dispatch(o) \/ Leave(o) \/ End(o) \/ Computes(o) \/ UsesStack(o) \/ UsesHeap(o)
    BY <1>1, <2>2, SoloStutters
  <2>3. CASE UNCHANGED machineVars
    BY <2>3 DEF machineVars, Solo!machineVars, MachineOf
  <2> QED
    BY <1>1, <2>1, <2>2, <2>3 DEF Next, Done
<1>2. MachineTypeOK /\ MachineTypeOK' /\ Fresh /\ [Next]_machineVars
        => [\A p \in Procs \ ended' : UNCHANGED Solo(p)!machineVars \/ Solo(p)!Next]_machineVars
  BY <1>1
<1>3. Init => Fresh
  BY DEF Init, Fresh
<1> QED
  BY <1>2, <1>3, FreshStep, MachineTypeCorrect, PTL DEF Spec, AsIfAlone

-----------------------------------------------------------------------------
(***************************************************************************)
(* The heap: heapEnd only grows, and each block begins where it was.       *)
(***************************************************************************)
HeapInv == BlocksDisjoint /\ \A p \in Procs : FirstHeapEnd <= heapEnd[p]

LEMMA OthersKeepTheHeap ==
    ASSUME NEW p \in Procs,
           Dispatch(p) \/ Leave(p) \/ End(p) \/ Computes(p) \/ UsesStack(p)
    PROVE  UNCHANGED <<heapEnd, blocks>>
<1>1. CASE Dispatch(p) \/ Leave(p) \/ End(p)
  BY <1>1 DEF Dispatch, Leave, End
<1>2. CASE Computes(p)
  BY <1>2 DEF Computes, Moves, Move, Compare, Jump, Fault
<1>3. CASE UsesStack(p)
  BY <1>3 DEF UsesStack, Push, Popr, StackFault, StackBlocks, Popm, Ret, StackTo
<1> QED
  BY <1>1, <1>2, <1>3

\* The blocks of one process, in a list that ends at e.
Stacked(list, e) ==
    \A i \in 1..Len(list) :
        /\ FirstHeapEnd <= list[i].addr
        /\ EndOf(list[i]) <= e
        /\ \A j \in 1..(i - 1) : EndOf(list[j]) <= list[i].addr

LEMMA BlocksStacked ==
    BlocksDisjoint <=> \A p \in Procs : Stacked(blocks[p], heapEnd[p])
BY DEF BlocksDisjoint, Stacked

LEMMA BlockEnds == ASSUME NEW b \in Blocks PROVE EndOf(b) \in Nat /\ b.addr \in Nat
<1>1. b.addr \in Nat /\ b.size \in Nat
  BY Constants DEF Blocks
<1> QED
  BY <1>1 DEF EndOf

LEMMA AppendStacked ==
    ASSUME NEW list \in Seq(Blocks), NEW e \in Nat, NEW size \in Nat,
           FirstHeapEnd <= e, Stacked(list, e)
    PROVE  Stacked(Append(list, Block(e, size, TRUE)), e + size)
<1> DEFINE b == Block(e, size, TRUE)
           longer == Append(list, b)
<1>1. b.addr = e /\ EndOf(b) = e + size
  BY DEF Block, EndOf
<1>2. /\ Len(list) \in Nat /\ Len(longer) = Len(list) + 1
      /\ longer[Len(list) + 1] = b
      /\ \A i \in 1..Len(list) : longer[i] = list[i]
  BY Longer
<1>3. \A i \in 1..Len(list) : EndOf(list[i]) \in Nat
  <2>1. \A i \in 1..Len(list) : list[i] \in Blocks
    OBVIOUS
  <2> QED
    BY <2>1, BlockEnds
<1> HIDE DEF longer, b
<1>4. ASSUME NEW i \in 1..Len(longer)
      PROVE  /\ FirstHeapEnd <= longer[i].addr
             /\ EndOf(longer[i]) <= e + size
             /\ \A j \in 1..(i - 1) : EndOf(longer[j]) <= longer[i].addr
  <2>1. CASE i = Len(list) + 1
    BY <1>1, <1>2, <1>3, <2>1 DEF Stacked
  <2>2. CASE i # Len(list) + 1
    <3>1. i \in 1..Len(list) /\ longer[i] = list[i]
      BY <1>2, <2>2
    <3>2. \A j \in 1..(i - 1) : longer[j] = list[j]
      BY <1>2, <3>1
    <3>3. EndOf(list[i]) <= e /\ EndOf(list[i]) \in Nat
      BY <3>1, <1>3 DEF Stacked
    <3> QED
      BY <3>1, <3>2, <3>3 DEF Stacked
  <2> QED
    BY <2>1, <2>2
<1> QED
  BY <1>4 DEF Stacked, longer, b

LEMMA HeapStep ==
    ASSUME MachineTypeOK, HeapInv, [Next]_machineVars
    PROVE  HeapInv'
<1>1. ASSUME UNCHANGED <<heapEnd, blocks>> PROVE HeapInv'
  BY <1>1 DEF HeapInv, BlocksDisjoint
<1>2. ASSUME NEW p \in Procs, NEW r \in Registers, NEW to \in Destinations,
             Alloc(p, cpu.reg[r], to)
      PROVE  HeapInv'
  <2> DEFINE size == cpu.reg[r]
  <2>1. size \in Nat /\ heapEnd[p] \in Nat /\ blocks[p] \in Seq(Blocks)
    BY Constants DEF MachineTypeOK, MachineStates
  <2>2. /\ blocks' = [blocks EXCEPT ![p] = Append(@, Block(heapEnd[p], size, TRUE))]
        /\ heapEnd' = [heapEnd EXCEPT ![p] = heapEnd[p] + size]
    BY <1>2 DEF Alloc, NextBlock
  <2>3. /\ blocks'[p] = Append(blocks[p], Block(heapEnd[p], size, TRUE))
        /\ heapEnd'[p] = heapEnd[p] + size
        /\ \A q \in Procs \ {p} : blocks'[q] = blocks[q] /\ heapEnd'[q] = heapEnd[q]
    BY <2>2 DEF MachineTypeOK
  <2> HIDE DEF size
  <2>4. Stacked(blocks'[p], heapEnd'[p])
    BY <2>1, <2>3, AppendStacked, BlocksStacked DEF HeapInv
  <2>5. FirstHeapEnd <= heapEnd'[p]
    <3>1. FirstHeapEnd \in Nat /\ FirstHeapEnd <= heapEnd[p]
      BY Constants DEF HeapInv
    <3> QED
      BY <3>1, <2>1, <2>3
  <2>6. \A q \in Procs : Stacked(blocks'[q], heapEnd'[q]) /\ FirstHeapEnd <= heapEnd'[q]
    BY <2>3, <2>4, <2>5, BlocksStacked DEF HeapInv
  <2> QED
    BY <2>6 DEF HeapInv, BlocksDisjoint, Stacked
<1>3. ASSUME NEW p \in Procs, NEW addr, FreeMemory(p, addr) PROVE HeapInv'
  <2> DEFINE freed == [i \in 1..Len(blocks[p]) |->
                          IF i \in Freed(p, addr) THEN [blocks[p][i] EXCEPT !.used = FALSE]
                          ELSE blocks[p][i]]
  <2>1. blocks' = [blocks EXCEPT ![p] = freed] /\ heapEnd' = heapEnd
    BY <1>3 DEF FreeMemory
  <2>2. blocks[p] \in Seq(Blocks)
    BY DEF MachineTypeOK
  <2>3. Len(freed) = Len(blocks[p])
    BY <2>2
  <2>4. ASSUME NEW i \in 1..Len(blocks[p])
        PROVE  freed[i].addr = blocks[p][i].addr /\ freed[i].size = blocks[p][i].size
    <3>1. blocks[p][i] \in Blocks
      BY <2>2
    <3>2. /\ [blocks[p][i] EXCEPT !.used = FALSE].addr = blocks[p][i].addr
          /\ [blocks[p][i] EXCEPT !.used = FALSE].size = blocks[p][i].size
      BY <3>1 DEF Blocks
    <3> QED
      BY <3>2
  <2>5. /\ blocks'[p] = freed
        /\ \A q \in Procs \ {p} : blocks'[q] = blocks[q]
    BY <2>1 DEF MachineTypeOK
  <2> HIDE DEF freed
  <2>6. Stacked(freed, heapEnd[p])
    <3>1. Stacked(blocks[p], heapEnd[p])
      BY BlocksStacked DEF HeapInv
    <3>2. \A i \in 1..Len(blocks[p]) : \A j \in 1..(i - 1) : j \in 1..Len(blocks[p])
      BY <2>2
    <3> QED
      BY <2>3, <2>4, <3>1, <3>2 DEF Stacked, EndOf
  <2>7. \A q \in Procs : Stacked(blocks'[q], heapEnd'[q]) /\ FirstHeapEnd <= heapEnd'[q]
    BY <2>1, <2>5, <2>6, BlocksStacked DEF HeapInv
  <2> QED
    BY <2>7 DEF HeapInv, BlocksDisjoint, Stacked
<1>4. ASSUME NEW p \in Procs, UsesHeap(p) PROVE HeapInv'
  BY <1>1, <1>2, <1>3, <1>4 DEF UsesHeap, AllocFails
<1> QED
  BY <1>1, <1>4, OthersKeepTheHeap DEF Next, Done, machineVars

LEMMA HeapAlways == Spec => [](MachineTypeOK /\ HeapInv)
<1>1. Init => MachineTypeOK /\ HeapInv
  <2>1. ASSUME Init PROVE BlocksDisjoint /\ \A p \in Procs : FirstHeapEnd <= heapEnd[p]
    BY <2>1, Constants DEF Init, BlocksDisjoint
  <2> QED
    BY <2>1, InitType DEF HeapInv
<1>2. MachineTypeOK /\ HeapInv /\ [Next]_machineVars => MachineTypeOK' /\ HeapInv'
  BY TypeStep, HeapStep
<1> QED
  BY <1>1, <1>2, PTL DEF Spec

\* The blocks of a process never overlap and lie below its heapEnd.
THEOREM BlocksNeverOverlap == Spec => []BlocksDisjoint
BY HeapAlways, PTL DEF HeapInv

\* A push that passes the check stores above every block.
LEMMA PushAbove ==
    ASSUME MachineTypeOK, HeapInv, NEW p \in Procs, NEW calls \in BOOLEAN, Push(p, calls),
           NEW i \in 1..Len(blocks[p])
    PROVE  EndOf(blocks[p][i]) <= cpu'.reg[StackPointer]
<1>1. cpu'.reg[StackPointer] = Below
  BY Constants DEF Push, StackTo, MachineTypeOK, MachineStates, StackPointer
<1>2. ~(Below < heapEnd[p])
  BY DEF Push, Overflows
<1>3. Below \in Nat
  <2>1. cpu.reg[StackPointer] \in Words
    BY Constants DEF MachineTypeOK, MachineStates, StackPointer
  <2> QED
    BY <2>1, StackMoves, Constants DEF Below
<1>4. heapEnd[p] \in Nat /\ EndOf(blocks[p][i]) \in Nat
  <2>1. blocks[p] \in Seq(Blocks)
    BY DEF MachineTypeOK
  <2>2. blocks[p][i] \in Blocks
    BY <2>1
  <2> QED
    BY <2>2, BlockEnds, Constants DEF MachineTypeOK
<1>5. EndOf(blocks[p][i]) <= heapEnd[p]
  BY DEF HeapInv, BlocksDisjoint
<1> QED
  BY <1>1, <1>2, <1>3, <1>4, <1>5

\* A push or call never stores into a block of the heap.
THEOREM PushesNeverReachTheHeap == Spec => PushesMissTheHeap
<1>1. MachineTypeOK /\ HeapInv
         => [\A p \in Procs, calls \in BOOLEAN :
                Push(p, calls) => \A i \in 1..Len(blocks[p]) :
                                      EndOf(blocks[p][i]) <= cpu'.reg[StackPointer]]_machineVars
  BY PushAbove
<1> QED
  BY <1>1, HeapAlways, PTL DEF PushesMissTheHeap

=============================================================================
