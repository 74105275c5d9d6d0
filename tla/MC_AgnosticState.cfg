CONSTANTS
    N = 2
    EffBalances = {1, 2}
    RealBalances = {1, 2}
    StateEpochs = {0, 1}
    ActivationEpochs = {0, 1}
    ExitEpochs = {1, 3}
    EpochWidth = 2

SPECIFICATION Spec

INVARIANT TypeOK
INVARIANT AttestationTotals
INVARIANT MissingFlagsAgree
INVARIANT StatusMatchesActivity
