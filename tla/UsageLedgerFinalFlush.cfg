CONSTANTS
    None = None
    Connections = {c1}
    Threshold = 2
    MaxBytes = 3
    LastDay = 0
    MaxFaults = 0
SPECIFICATION Spec
INVARIANTS
    FinalFlushCovers
