CONSTANTS
    Procs = {1, 2, 3}
    Priorities = {2, 31, 32}
    MaxLen = 7
SPECIFICATION Spec
PROPERTY SameAsLoops
