\* Three requests for three keys; room for two entries or three bytes.
SPECIFICATION Spec
CONSTANTS
    Readers = {r1, r2, r3}
    Writers = {w1}
    Keys = {k1, k2, k3}
    Sizes = {1, 3, 4}
    MaxItems = 2
    MaxBytes = 3
    MaxVersion = 3
    None = None
SYMMETRY Symmetry
INVARIANTS
    TypeOK
    WithinLimits
    FreshAfterClear
    FlightsAreSound
