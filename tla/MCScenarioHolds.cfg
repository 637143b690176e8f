SPECIFICATION SpecHolds
CONSTANTS
    Commands <- MCCommands
    Cooldown = 2
    BaseYaws <- MCBaseYaws
    MaxTicks = 18
PROPERTY HoldLastsItsTicks
