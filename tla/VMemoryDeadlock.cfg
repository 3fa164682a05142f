CONSTANTS
    N = 3
    Opcodes = {"step", "sleep", "exit", "block", "fault", "fatal"}
    LockIds = {}
    EventIds = {}
    Durations = {2}
    PrioArgs = {}
    Targets = {}
    Quantum = 2
    SignBit = 4
    PageCount = 2
    ProgramPages = 5
    CodePages = 1
    DataPages = {2, 6}
    Regions = {}
    StoreKinds = {}
    RawFrames = {}
    Values = {0}
    Code = 0
    MaxAccesses = 2
SPECIFICATION SystemSpec
INVARIANT NotAllBlockedOnMemory
