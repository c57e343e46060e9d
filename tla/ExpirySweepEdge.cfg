CONSTANTS
    None = None
    Configs = {c1, c2}
    Tests = {c1}
    Customers = {p1}
    Sweepers = {worker}
    ExpiryDays = {1, 2}
    WarnDays = 0
    LastDay = 1
    KvOutcomes = {"raises"}
    MaxFaults = 0
SPECIFICATION FairSpec
PROPERTIES
    RevocationReachesEdge
