CONSTANTS
    N = 3
    Opcodes = {"step", "acquire", "release", "signal", "wait", "priority", "exit"}
    LockIds = {1, 2}
    EventIds = {0}
    Durations = {}
    PrioArgs = {1, 3, 40}
    Targets = {}
    Quantum = 2
    SignBit = 4
    MaxCopies = 3
SPECIFICATION Spec
INVARIANTS TypeOK InItsPlace HaltOnlyWhenDone
PROPERTIES IdleOnlyWhenNobodyReady TableSpec BagSpec
