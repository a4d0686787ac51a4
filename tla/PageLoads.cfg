\* Two ranges, filters and keys; four things the user does.
SPECIFICATION Spec
CONSTANTS
    Ranges = {r1, r2}
    Filters = {f0, f1}
    NoFilter = f0
    Keys = {k1, k2}
    NoKey = NoKey
    None = None
    Skeleton = Skeleton
    MaxClicks = 4
\* A tab left on the settings page, hidden or without a key waits for its user.
CHECK_DEADLOCK FALSE
SYMMETRY PageSymmetry
INVARIANTS
    FreshShowsCurrent
    ControlsAreHonest
PROPERTIES
    NoStaleRender
