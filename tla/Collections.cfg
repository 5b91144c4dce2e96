SPECIFICATION CollFairSpec
CONSTANTS
    Colls = {c1}
    MaxVersion = 3
    NoFile = NoFile
    Empty = Empty
    Short = Short
    NoColl = NoColl
    FileOpsMayFail = TRUE
    MaxReconfigs = 2
    MaxCrashes = 2
INVARIANTS
    DigestMeansContent
PROPERTIES
    Converges
