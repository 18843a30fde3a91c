SPECIFICATION Spec
CONSTANTS
    Symbols <- MCSymbols
    Files <- MCFiles
    FileOf <- MCFileOf
    KindOf <- MCKindOf
    Contents <- MCContents
    Drawn <- MCDrawn
    BatchSize = 1
    MaxSaves = 2
INVARIANTS
    TypeOK
    SymbolsMatch
    CallsMatchSource
    NoOrphans
PROPERTY
    ManualKept
