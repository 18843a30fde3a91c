SPECIFICATION CalmSpec
CONSTANTS
    Symbols <- MCSymbols
    Files <- MCFiles
    FileOf <- MCFileOf
    KindOf <- MCKindOf
    Contents <- ExtractContents
    Drawn = {}
    BatchSize = 1
    MaxSaves = 1
CHECK_DEADLOCK FALSE
INVARIANT
    CallGraphIsExact
