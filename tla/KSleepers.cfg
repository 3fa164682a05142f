CONSTANTS
    N = 3
    Opcodes = {"step", "sleep", "priority"}
    LockIds = {}
    EventIds = {}
    Durations = {0, 1, 2}
    PrioArgs = {1, 2, 3}
    Targets = {}
    Quantum = 2
    SignBit = 4
    MaxCopies = 3
SPECIFICATION FairSpec
INVARIANTS NoLostReady HaltOnlyWhenDone IdleEndsInTime
PROPERTIES DispatchesHighest SleeperWakes RunReturns
