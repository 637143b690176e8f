SPECIFICATION Spec
CONSTANTS
    Commands <- MCCommands
    Cooldown = 2
    BaseYaws <- MCBaseYaws
    MaxTicks = 18
INVARIANTS
    TypeOK
    FrameShowsScript
    RepeatsExact
    PacketsOnce
    AcceptedRuns
    NamesAligned
    HeadingsSpread
PROPERTIES
    PacketsSpaced
    JumpFlagsPair
    ScriptFinishes
