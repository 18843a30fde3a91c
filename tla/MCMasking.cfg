\* Five events, one failure.
SPECIFICATION FairSpec
CONSTANTS
    Sessions = {s1, s2}
    Runs = {r1, r2}
    MaxEvents = 5
    MaxFails = 1
INVARIANT ValidatedParses
PROPERTIES
    ForgetsOnlyValidated
    ValidationEnds
\* The bound on events ends a run.
CHECK_DEADLOCK FALSE
