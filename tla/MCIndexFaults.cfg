SPECIFICATION FairSpec
CONSTANTS
    Files = {f1, f2}
    AppendFiles = {f1}
    MaxVersion = 1
    Faults <- AllFaults
CHECK_DEADLOCK FALSE
INVARIANTS
    TypeOK
    QueueConsistent
    ConcurrentDeltasOnlyAfterFailure
    RestIsFresh
PROPERTY
    SettlesFresh
