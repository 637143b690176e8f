SPECIFICATION SpecBots
CONSTANT Count = 2
INVARIANT PendingResultStands
PROPERTIES
    OneLaunchAfterSignal
    ShutdownCompletes
    AllOnlineAnnounced
    ImplementsSupervisor
    ImplementsFleet
