SPECIFICATION CommandFairSpec
CONSTANTS
    MaxOutput = 5
    PipeCap = 2
    BufSize = 2
    Timeout = 2
    StillActive = 259
    NoValue = NoValue
INVARIANTS
    OutputWhole
    ProcTruth
    NoneLeft
PROPERTIES
    RunEnds
