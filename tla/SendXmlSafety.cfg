SPECIFICATION Spec
CONSTANTS
    Threads = {main, other}
    Main = main
    Docs = {d1, d2, d3}
    Names = {n1, n2}
    Confs <- SafetyConfs
    NoThread = NoThread
    NoDoc = NoDoc
    NoFile = NoFile
    Torn = Torn
    Cut = Cut
    FileOpsMayFail = TRUE
    MaxCrashes = 1
INVARIANTS
    MutualExclusion
    NoSilentLoss
    TornNeverSent
SYMMETRY Symmetry
CONSTRAINT NotRaced
