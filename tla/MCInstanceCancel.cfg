SPECIFICATION Spec
CONSTANTS
    MaxPackets = 2
    MaxInputs = 1
INVARIANT CancelEndsCleanly
