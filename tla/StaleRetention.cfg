\* A settings update while the next runtime is being configured.
SPECIFICATION Spec
CONSTANTS
    MaxRuntimes = 2
    Updates = {u1}
    Restores = {}
    Days = {1, 2}
    None = None
PROPERTIES
    KeepsPromisedRows
CHECK_DEADLOCK FALSE
