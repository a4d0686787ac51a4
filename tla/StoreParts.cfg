\* Events at four times in three minutes of two milliseconds, two at a time and three in all, health
\* buckets of two minutes; two requests, two cleanups and a change of the settings; three queries,
\* two writers of prices and two connections.
SPECIFICATION Spec
CONSTANTS
    Models = {m1, m2}
    Minute = 2
    Times = {2, 3, 5, 8}
    Bounds = {0, 1, 2, 3, 4, 5, 6, 7, 8, 9}
    Health = 2
    Slots = 2
    Trends = {2, 4}
    Weekly = 4
    Offset = 4
    WeekOffset = 2
    Sparse = 2
    Nows = {8, 12}
    PageSizes = {1, 3}
    MaxPage = 3
    MaxOffset = 4
    MaxEvents = 2
    MaxId = 3
    Windows <- MCWindows
    Idle = Idle
    Inquirers = {q1, q2}
    Changes = {c1, c2}
    Settings = {s1}
    None = None
    MaxSampled = 3
    Readers = {q1, q2, q3}
    Writers = {w1, w2}
    Nobody = Nobody
    Connections = 2
    MaxReplaced = 3
    Parts = {"rollups", "status", "prices"}
SYMMETRY Symmetry
INVARIANTS
    RollupsAreSums
    QueriesAreExact
    AnswersAreBetween
    StatusIsHonest
    PricesAreConfirmed
    PoolNeverStarves
\* Writes and changes are bounded, so everybody may come to rest.
CHECK_DEADLOCK FALSE
