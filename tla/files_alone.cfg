CONSTANTS
    Procs = {p1}
    Keys = {k1, k2}
    Contents = {answer}
    MaxEntries = 1
    TTL = 1
    MaxTime = 4
    MaxClears = 2
    MaxBusy = 1
    MaxCall = 0
    Faults = {"save", "torn", "scan"}
    None = None
SPECIFICATION AloneSpec
SYMMETRY Symmetry
PROPERTY ImplementsCache
