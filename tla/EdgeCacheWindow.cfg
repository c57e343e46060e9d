CONSTANTS
    Nothing = Nothing
    Credentials = {u1}
    Syncers = {web}
    Sweepers = {worker}
    WriterOutcomes = {"works"}
    MaxSyncs = 1
    MaxFaults = 1
    Isolates = {i1}
    Connections = {l1}
    TTL = 1
    Lag = 1
    Horizon = 4
SPECIFICATION CacheSpec
INVARIANTS
    RevocationBounded
CHECK_DEADLOCK FALSE
