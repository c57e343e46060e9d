CONSTANTS
    None = None
    Nodes = {n1, n2}
    Names = {x1, x2}
    Admins = {a1, a2}
    MaxFaults = 1
SPECIFICATION Spec
INVARIANTS
    DeadGoesOffline
