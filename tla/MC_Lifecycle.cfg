CONSTANTS
    Modes = {"historical", "finalized", "hybrid"}
    HistTasks = 2
    FinTasks = 2
    EpochCap = 1
    Workers = {w1, w2}
    w1 = w1
    w2 = w2
SPECIFICATION Spec
CHECK_DEADLOCK FALSE
INVARIANT TypeOK
INVARIANT DrainedBeforeExit
PROPERTY RunReturns
