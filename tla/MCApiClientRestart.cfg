SPECIFICATION CrashSpec
CONSTANTS
    Calls = {c1, c2}
    MaxSpawns = 2
INVARIANT
    RestartStartsClean
