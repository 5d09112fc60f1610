CONSTANTS
    Procs = {p1}
    Keys = {k1, k2, k3}
    Contents = {answer}
    MaxEntries = 2
    TTL = 1
    MaxTime = 3
    MaxClears = 1
    Faults = {"alloc", "unlink", "scan"}
    None = None
SPECIFICATION Spec
SYMMETRY Symmetry
INVARIANTS TypeOK ServedWithinTwoTTL ClearIsFinal
PROPERTIES ReplaceKeepsOthers EvictsOldest
