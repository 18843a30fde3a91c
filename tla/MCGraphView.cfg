\* Four events from outside, one failure, three requests in flight.
SPECIFICATION Spec
CONSTANTS
    s1 = s1
    s2 = s2
    v1 = v1
    f = f
    d = d
    Symbols = {s1, s2}
    Vids = {v1}
    VDirs = {v1}
    Files = {f}
    Dirs = {d}
    FileOf <- MCFileOf
    DirOf <- MCDirOf
    Pairs <- MCPairs
    Earlier <- MCEarlier
    MaxSteps = 4
    MaxFails = 1
    MaxQueue = 3
INVARIANTS
    GraphDataInSync
    CanvasInSync
PROPERTIES
    SnapshotIsLive
    ImplementsDaemonGraph
\* The bound on events ends a run.
CHECK_DEADLOCK FALSE
