CONSTANTS
    Procs = {p1}
    Keys = {k1}
    Contents = {answer}
    MaxEntries = 1
    TTL = 1
    MaxTime = 2
    MaxClears = 0
    Faults = {}
    None = None
SPECIFICATION Spec
SYMMETRY Symmetry
INVARIANT ServedWithinTTL
