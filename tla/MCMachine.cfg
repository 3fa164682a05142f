CONSTANTS
    Procs = {1, 2}
    Registers = {0, 12, 13}
    Destinations = {0}
    Inputs = {0, 1}
    Instructions <- MCInstructions
    WordSize = 8
    CodeSize = 1
    HeapStart = 1
    HeapSize = 1
    StackSize = 5
    MaxBlocks = 2
SPECIFICATION Spec
VIEW Live
INVARIANTS MachineTypeOK JumpsTakeTheOutcome BlocksDisjoint
PROPERTIES OwnMachine AsIfAlone PushesMissTheHeap
