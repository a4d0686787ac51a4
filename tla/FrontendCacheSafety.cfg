\* Two keys, three requests of which two fit into the Map; entries live for two ticks.
SPECIFICATION Spec
CONSTANTS
    Keys = {k1, k2}
    NoKey = NoKey
    Paths = {p1, p2, p3}
    TTL = 2
    AutoRefresh = 2
    RetryDelay = 1
    MaxItems = 2
    MaxFlights = 1
    MaxTime = 3
    MaxClears = 1
SYMMETRY Symmetry
INVARIANTS
    ServedIsValid
    TiersAgree
    RefreshInTime
