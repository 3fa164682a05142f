CONSTANTS
    N = 4
    Opcodes = {"step", "sleep", "exit", "priority", "block", "fault", "fatal"}
    LockIds = {}
    EventIds = {}
    Durations = {1}
    PrioArgs = {2}
    Targets = {}
    Quantum = 1
    SignBit = 3
    PageCount = 2
    ProgramPages = 5
    CodePages = 2
    DataPages = {}
    Regions = {}
    StoreKinds = {}
    RawFrames = {0}
    Values = {0}
    Code = 0
    MaxAccesses = 2
SPECIFICATION FairSystemSpec
INVARIANTS RunsLoaded PagesOfTheLiving
PROPERTIES UnblockNeverThrows RunReturns
