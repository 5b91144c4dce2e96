SPECIFICATION FairSpec
CONSTANTS
    Threads = {main, other}
    Main = main
    Docs = {d1, d2, d3}
    Names = {n1, n2}
    Confs <- DrainConfs
    NoThread = NoThread
    NoDoc = NoDoc
    NoFile = NoFile
    Torn = Torn
    Cut = Cut
    FileOpsMayFail = FALSE
    MaxCrashes = 1
PROPERTIES
    Drains
CONSTRAINT NotRaced
