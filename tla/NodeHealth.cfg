CONSTANTS
    None = None
    \* the health loop
    Nodes = {n1, n2}
    Names = {x1, x2}
    Admins = {a1, a2}
    MaxFaults = 1
    \* the start
    Instances = {i1, i2}
    MaxBoots = 2
    StartFaults = {"database", "restart"}
SPECIFICATION ControlSpec
INVARIANTS
    TypeOK
    RowsAreDeployed
    SeededOnce
    ReportedTruly
PROPERTIES
    NoFlap
    UpComesOnline
    StartEnds
CHECK_DEADLOCK FALSE
