SPECIFICATION FairSpec
CONSTANTS
    Servers <- TheServers
    Programs <- ThePrograms
    Pieces = 2
    MaxRekeys = 1
    MaxNoise = 1
    MaxQuestions = 1
INVARIANTS
    KeysAgree
    AuthenticatedByServer
    UploadWhole
PROPERTIES
    Finishes
CHECK_DEADLOCK FALSE
