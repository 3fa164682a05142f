CONSTANTS
    N = 2
    Opcodes = {"step", "sleep", "exit", "acquire", "release", "signal", "wait", "terminate", "pidreg"}
    LockIds = {1}
    EventIds = {0}
    Durations = {1, 2}
    PrioArgs = {}
    Targets = {1, 2, 999}
    Quantum = 2
    SignBit = 4
    MaxCopies = 3
SPECIFICATION Spec
INVARIANTS FreeLockHasNoWaiters SignalledEventHasNoWaiters NoLostReady
PROPERTIES IdleOnlyWhenNobodyReady RunAdvances
CONSTRAINT CopiesBound
