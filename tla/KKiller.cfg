CONSTANTS
    N = 3
    Opcodes = {"step", "fault", "block", "fatal", "exit", "acquire", "release", "wait", "terminate"}
    LockIds = {1}
    EventIds = {0}
    Durations = {}
    PrioArgs = {}
    Targets = {1, 2, 3}
    Quantum = 2
    SignBit = 4
    MaxCopies = 3
SPECIFICATION Spec
INVARIANTS InItsPlace HaltOnlyWhenDone ExitReleasesItsOwn
PROPERTIES OnlyOwnerReleases TableSpec
