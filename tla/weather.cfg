CONSTANTS
    Procs = {p1, p2}
    Keys = {k1}
    Contents = {"answer", "refused", "cut"}
    MaxEntries = 1
    TTL = 1
    MaxTime = 4
    MaxClears = 1
    MaxCall = 1
    Faults = {}
    None = None
SPECIFICATION WeatherSpec
SYMMETRY Symmetry
INVARIANTS StoresItsOwn OnlyAnswersCached AnswerAge
PROPERTIES AnswersGoBackOneCall
