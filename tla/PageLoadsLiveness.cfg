\* One range and one filter; answers, frames and timers are fair.
SPECIFICATION FairSpec
CONSTANTS
    Ranges = {r1}
    Filters = {f0}
    NoFilter = f0
    Keys = {k1, k2}
    NoKey = NoKey
    None = None
    Skeleton = Skeleton
    MaxClicks = 3
\* A tab left on the settings page, hidden or without a key waits for its user.
CHECK_DEADLOCK FALSE
PROPERTIES
    RefreshRecurs
