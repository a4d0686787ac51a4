\* Two hand-overs and a shutdown, with a settings update and a restore in the way.
SPECIFICATION FairSpec
CONSTANTS
    MaxRuntimes = 2
    Updates = {u1}
    Restores = {s1}
    Days = {1, 2}
    None = None
INVARIANTS
    TypeOK
    DatabaseIsExclusive
PROPERTIES
    KeepsRowsWithinOneRuntime
    HandoverEnds
\* After the last shutdown the requests that are left find no runtime.
CHECK_DEADLOCK FALSE
