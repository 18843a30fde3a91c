SPECIFICATION Spec
CONSTANTS
    Files = {f1, f2}
    AppendFiles = {f1}
    MaxVersion = 1
    Faults <- NoFaults
CHECK_DEADLOCK FALSE
INVARIANT
    OnSaveSuppressedDuringFull
