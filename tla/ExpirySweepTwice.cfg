CONSTANTS
    None = None
    Configs = {c1}
    Tests = {}
    Customers = {p1}
    Sweepers = {worker, cron}
    ExpiryDays = {0}
    WarnDays = 0
    LastDay = 0
    KvOutcomes = {"raises"}
    MaxFaults = 0
SPECIFICATION Spec
INVARIANTS
    ToldOncePerDay
