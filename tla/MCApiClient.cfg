SPECIFICATION FairSpec
CONSTANTS
    Calls = {c1, c2, c3}
    MaxSpawns = 2
INVARIANTS
    TypeOK
    PendingOfCurrent
    AnswersOfOneProcess
    NoLostCall
PROPERTIES
    EveryCallSettles
    ImplementsRpc
