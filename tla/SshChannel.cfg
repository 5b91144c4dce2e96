SPECIFICATION FairSpec
CONSTANTS
    WindowDefault = 2
    PacketDefault = 2
    MinAdjust = 2
    StreamId = 2
    Word = 8
    PeerWindow = 1
    PeerPacket = 1
    Programs <- ThePrograms
    MaxChannels = 2
    MaxBytes = 3
    MaxInFlight = 2
INVARIANTS
    FlowControl
    EofMeansAll
    BrigadeSorted
PROPERTIES
    PipeSpec
    CallsReturn
CHECK_DEADLOCK FALSE
