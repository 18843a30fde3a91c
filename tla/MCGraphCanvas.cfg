\* Two renders and two inputs, in any order.
SPECIFICATION CanvasSpec
CONSTANTS
    dir = dir
    file = file
    meth = meth
    NoNode = NoNode
    Ids = {dir, file, meth}
    Graphs <- MCGraphs
    MaxChanges = 2
    MaxInputs = 2
INVARIANTS
    CanvasTypeOK
    CanvasIsGraph
    KeptBesideFollows
PROPERTY
    NoClickAfterExpansion
\* The bounds end a run.
CHECK_DEADLOCK FALSE
