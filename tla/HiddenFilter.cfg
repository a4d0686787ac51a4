\* Expected to fail: see the findings in README.md.
SPECIFICATION Spec
CONSTANTS
    Ranges = {r1, r2}
    DefaultRange = r1
    Queries = {q1}
    Models = {m1}
    FilterUpstreams = {u1}
    Upstreams = {u1, u2}
    Empty = Empty
    NoSlot = NoSlot
    None = None
    Skeleton = Skeleton
    Cells = 2
    MaxWindow = 1
    MaxPages = 2
    LastDay = 4
    DaysPerMonth = 2
    SecondsPerDay = 2
    Ms = 2
    Offset = 1
    NoDay = NoDay
    BadTime = BadTime
    NoRange = NoRange
    Events = {e1, e2}
    Nothing = Nothing
    MaxRequests = 2
    Figures = {v1, v2}
    Between = Between
    Blank = Blank
    Duration = 2
    Trends <- MCTrends
    Dims = {tokens, rate}
    Widths = {600, 900}
    StartWidth = 600
    Fallback = 780
    Plot = 4
    Beside = Beside
    Away = Away
    NoTip = NoTip
    FilterClicks = 4
    CalendarClicks = 8
    DrawerClicks = 6
    ChartEvents = 5
    Parts = {"filters"}
\* What the user does is bounded, so a part stops once everything is answered.
CHECK_DEADLOCK FALSE
INVARIANTS
    UpstreamFieldFollows
