SPECIFICATION Spec
CONSTANTS
    MaxPackets = 3
    MaxInputs = 2
INVARIANTS
    TypeOK
    OnlineOrOnDeadline
    GraceWaited
    FinalCounters
PROPERTIES
    ImplementsBotLife
    NoInputAfterReturn
    NothingLeaks
    BotEnds
    OnlineOrEnded
