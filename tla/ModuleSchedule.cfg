SPECIFICATION Spec
CONSTANTS
    plain = plain
    intensive = intensive
    Mods = {plain, intensive}
    IntensiveMods = {intensive}
    CronMods = {intensive}
    ModuleInterval <- One
    Intervals <- SomeIntervals
    BrokerCounts = {0, 1}
    CronOffset = 1
    Start = 3
    MaxJitter = 1
    MaxLag = 2
    MaxOverrun = 1
    MaxForced = 1
    MaxReloads = 1
    ServerIp = TRUE
    NoData = NoData
    Horizon = 7
INVARIANTS
    StatusKnown
    Heartbeat
    NeverStarved
CONSTRAINT Bounded
