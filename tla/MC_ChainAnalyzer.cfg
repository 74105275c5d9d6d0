CONSTANTS
    SlotsPerEpoch = 2
    EpochsToFinalizedTentative = 1
    InitFinalizedSlot = 2
    DbLastSlots = {0}
    MaxSlot = 5
    MaxReorgs = 1
    SlotWidth = 4
    ChanCap = 1
    TxMetrics = TRUE
    MaxCrashes = 1
    w1 = w1
    w2 = w2
    Workers <- MCWorkers
    NoBlock = NoBlock
    ZeroRoot = ZeroRoot
    Idle = Idle

SPECIFICATION Spec

INVARIANT TypeOK
INVARIANT FinalizedRowsCanonical
INVARIANT FinalizedAnchorCanonical
