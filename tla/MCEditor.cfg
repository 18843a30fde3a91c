\* Nine steps of the user and one failure.
SPECIFICATION Spec
CONSTANTS
    Nodes = {v, m}
    Edges = {e}
    Snapshots = {s1, s2}
    Virtual = {v}
    None = None
    Labels = {"a", "b", ""}
    FirstLabel = "a"
    NoLabel = ""
    TypedDirs <- ConstTypedDirs
    MaxSteps = 9
    MaxFails = 1
INVARIANTS
    TypeOK
    DisabledOnlyWhileAwaited
    AskedIsStored
    ShownIsStored
\* The bound on steps ends a run.
CHECK_DEADLOCK FALSE
