\* Two prices, one of them over the limit when raised; two saves at a time.
SPECIFICATION Spec
CONSTANTS
    Order <- MCOrder
    Fold <- MCFold
    CopyOf <- MCCopyOf
    MaxPrice = 1
    Files <- MCFiles
    Called <- MCCalled
    Blank = Blank
    Closed = Closed
    Gone = Gone
    Idle = Idle
    Slots = {s1, s2}
    MaxRows = 3
    MaxClicks = 4
SYMMETRY MCSymmetry
INVARIANTS
    TableIsHonest
PROPERTIES
    OnlyDroppedVanish
    SavableStays
\* Clicks are bounded, so the system stops once everything is answered.
CHECK_DEADLOCK FALSE
