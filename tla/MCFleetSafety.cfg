SPECIFICATION Spec
CONSTANT Count = 3
INVARIANTS
    TypeOK
    FleetOnlineMeansAllOnline
    SendsNeverBlock
    EveryBotCollected
    CleanExitMeansSignal
    FirstErrorIsReported
