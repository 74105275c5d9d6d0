CONSTANTS
    SlotsPerEpoch = 2
    SlotWidth = 4
    InitSlots = {0, 1, 2}
    FinalSlots = {1, 2, 3, 4, 5}
SPECIFICATION Spec
INVARIANT CoversFinalSlot
