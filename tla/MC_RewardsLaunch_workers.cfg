CONSTANTS
    Given <- MCGiven
    IntArg <- MCIntArg
    SlotWidth = 8
    SlotsPerEpoch = 32
    FinTasks = 0
    EpochCap = 1
SPECIFICATION Spec
CHECK_DEADLOCK FALSE
PROPERTY LaunchReturns
