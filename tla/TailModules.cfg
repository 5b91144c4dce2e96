SPECIFICATION TailFairSpec
CONSTANTS
    MaxLen = 2
    MaxGen = 1
    MaxFails = 1
    MaxRebuilds = 1
    Debug = FALSE
INVARIANTS
    ReadOnce
PROPERTIES
    AllRead
