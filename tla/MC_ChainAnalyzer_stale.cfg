CONSTANTS
    SlotsPerEpoch = 2
    EpochsToFinalizedTentative = 1
    InitFinalizedSlot = 2
    DbLastSlots = {0}
    MaxSlot = 7
    MaxReorgs = 1
    SlotWidth = 4
    ChanCap = 1
    TxMetrics = FALSE
    MaxCrashes = 0
    w1 = w1
    w2 = w2
    Workers <- MCTwoWorkers
    NoBlock = NoBlock
    ZeroRoot = ZeroRoot
    Idle = Idle

SPECIFICATION Spec

INVARIANT FinalizedRowsCanonical
