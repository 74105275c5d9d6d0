CONSTANTS
    N = 2
    EffBalances = {1, 2}
    MaxEffIncrements = 2
    StateSlots = {1, 2, 3}
    SlotsPerEpoch = 2
    ActivationEpochs = {0, 2}
    FarFutureEpoch = 3

SPECIFICATION Spec

INVARIANT TypeOK
INVARIANT AttestingBalanceMatches
