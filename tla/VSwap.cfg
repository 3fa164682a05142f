CONSTANTS
    Programs = {1, 2}
    Idle = 999
    PageCount = 2
    ProgramPages = 5
    CodePages = 1
    Touched = {0, 256}
    Regions = {1}
    StoreKinds = {"write"}
    RawFrames = {5}
    Ending = {1, 2}
    Values = {0, 1}
    Code = 1
SPECIFICATION Spec
PROPERTY EvictionKeepsData
