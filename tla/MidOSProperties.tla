--------------------------- MODULE MidOSProperties ---------------------------
(***************************************************************************)
(* What kernel and memory keep together that neither keeps alone.          *)
(***************************************************************************)
EXTENDS MidOS, KernelClaims, FiniteSets

\* The program is one thread, and nothing but its end stops it.
FairSystemSpec == SystemSpec /\ WF_systemVars(SystemNext)

(***************************************************************************)
(* unblockProcesses loads a blocked process outside every try block of     *)
(* start(): if getaddress blocks or refuses that load, the exception ends  *)
(* the program.  It does so only for want of frames: once as many are free *)
(* as the program has pages of code not in memory, they remain enough      *)
(* until the load is done, and nothing throws.  A program of one page      *)
(* always finds its frame; one of two may not, as VUnblock.cfg shows.      *)
(***************************************************************************)
StillToLoad(p) == {v \in ProgramCode(p) : ~Memory!Resident(v)}

HasRoom(p) == Cardinality(StillToLoad(p)) <= Cardinality(freePages)

UnblockNeverThrows ==
    [][\A p \in ToLoad :
          Terminating /\ stage[Current] = "gone" /\ HasRoom(p) /\ access.status # "fatal" =>
              IF pc' = "cycleEnd" THEN HasRoom(p)' ELSE pc' = "dispatch"]_systemVars

(***************************************************************************)
(* The kernel's isLoaded and the memory agree: whoever executes has had    *)
(* its whole program written and not yet freed, also when its first load   *)
(* was blocked half way and a termination loaded it again.  It takes a     *)
(* memory of no more pages than a program.                                 *)
(***************************************************************************)
RunsLoaded == pc = "execute" => stage[Current] = "loaded"

(***************************************************************************)
(* Whenever start() dispatches, each page belongs to a living process: a   *)
(* terminated one leaves nothing behind, be it mapped by its loader,       *)
(* evicted, or touched outside its own range.                              *)
(***************************************************************************)
PagesOfTheLiving ==
    pc = "dispatch" => \A v \in DOMAIN pageTable : pageTable[v].pid \in processList

-----------------------------------------------------------------------------
(***************************************************************************)
(* unblockProcesses: "Unblocks the highest-priority process that is        *)
(* waiting on memory.  Loads the process back into memory and moves it to  *)
(* the ready state." (src/OperatingSystem.cpp:514)  But a program of two   *)
(* pages of code may find one frame: its second page blocks, and the       *)
(* exception leaves start().                                               *)
(***************************************************************************)
UnblockLoads ==
    [][\A p \in ToLoad : Terminated /\ access.status # "fatal" =>
          isLoaded'[p] /\ state'[p] = "Ready"]_systemVars

=============================================================================
