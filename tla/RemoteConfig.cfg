SPECIFICATION ConfFairSpec
CONSTANTS
    Versions = {v1, v2, v3}
    Enabled = {v1, v2}
    CutOn = CutOn
    CutOff = CutOff
    None = None
    BadMd5 = BadMd5
    TransferMode = "tentacle"
    HealedAtStart = {FALSE}
    FileOpsMayFail = TRUE
    MaxConsoleEdits = 3
    MaxCrashes = 1
INVARIANTS
    MemoryMatchesFile
    NeverTorn
PROPERTIES
    Adopts
CHECK_DEADLOCK FALSE
