SPECIFICATION LoopFairSpec
CONSTANTS
    Wrap = 8
    SleepTimes = {0, 1, 3}
    MaxDuration = 6
    MaxLate = 1
    StopDelay = 2
    MaxReloads = 1
INVARIANTS
    Punctual
PROPERTIES
    KeepsRunning
CHECK_DEADLOCK FALSE
