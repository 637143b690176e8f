SPECIFICATION Spec
CONSTANTS
    Scenarios = {"walk", "fly"}
    Places <- MCPlaces
    Placeholder <- MCPlaceholder
    BlockSize = 3
    EyeOffset = 2
    WorldBottom <- MCWorldBottom
    WorldTop = 5
    MinAltitude = 1
    MaxAltitude = 2
    AltitudeGain = 1
    ClimbStep = 1
    HistoryLimit = 3
    RetryTicks = 2
    MaxTick = 3
    MaxEvents = 2
INVARIANTS
    TypeOK
    BotIsWhereServerHasIt
    SeedIsNear
    OneRewind
    TeleportNotLost
    RequestsStart
    ProbeIsOneShot
PROPERTY AckStandsStill
