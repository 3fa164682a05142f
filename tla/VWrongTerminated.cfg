CONSTANTS
    N = 2
    Opcodes = {"step", "sleep", "fault"}
    LockIds = {}
    EventIds = {}
    Durations = {1, 2}
    PrioArgs = {}
    Targets = {}
    Quantum = 2
    SignBit = 4
    MaxCopies = 5
SPECIFICATION Spec
PROPERTY TerminatesTheFaulty
