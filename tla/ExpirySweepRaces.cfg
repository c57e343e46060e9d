CONSTANTS
    None = None
    Configs = {c1, c2}
    Tests = {}
    Customers = {p1}
    Sweepers = {worker, cron}
    ExpiryDays = {1, 2}
    WarnDays = 1
    LastDay = 1
    KvOutcomes = {"works", "raises"}
    MaxFaults = 1
SPECIFICATION Spec
SYMMETRY Symmetric
INVARIANTS
    TypeOK
    NobodyCutOffEarly
    ToldOncePerSweeper
PROPERTIES
    SweepComplete
