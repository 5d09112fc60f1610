CONSTANTS
    Procs = {p1, p2}
    Keys = {k1, k2}
    Contents = {answer}
    MaxEntries = 1
    TTL = 1
    MaxTime = 3
    MaxClears = 1
    Faults = {"save", "torn"}
    None = None
SPECIFICATION Spec
SYMMETRY Symmetry
INVARIANTS UniqueKeys CreationOrder ServedWithinTwoTTL ClearIsFinal HitNeedsFile
PROPERTIES NeverGoesBack SetRespectsLimit
