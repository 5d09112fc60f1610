CONSTANTS
    Procs = {p1, p2}
    Keys = {k1}
    Contents = {answer}
    MaxEntries = 1
    TTL = 1
    MaxTime = 3
    MaxClears = 1
    MaxBusy = 2
    MaxCall = 1
    Faults = {"save", "torn", "scan"}
    None = None
SPECIFICATION DirSpec
SYMMETRY Symmetry
INVARIANTS DirTypeOK ClearLeavesOnlyLate
PROPERTIES GoesBackOnlyToLate
