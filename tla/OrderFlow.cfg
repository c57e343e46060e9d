CONSTANTS
    \* the order flow
    None = None
    Orders = {o1, o2}
    Attempts = {a1, a2}
    Configs = {c1, c2}
    Nodes = {n1, n2}
    Handlers = {h1, h2}
    MaxAssignments = 2
    Faults = {"restart", "raised", "no_node", "kv_refused", "kv_misread"}
    SelectorOutcomes = {"node", "raises"}
    KvOutcomes = {"works", "raises"}
    \* the cache
    Nothing = Nothing
    Credentials = {u1}
    Syncers = {web}
    Sweepers = {worker}
    WriterOutcomes = {"works", "raises"}
    MaxSyncs = 1
    MaxFaults = 1
    Isolates = {i1}
    Connections = {l1, l2}
    TTL = 1
    Lag = 1
    Horizon = 3
SPECIFICATION CredentialSpec
SYMMETRY Symmetric
INVARIANTS
    TypeOK
    ActivationSound
    FulfilledHasConfig
    SyncedBeforeFulfilled
    CountNeverOverstates
    CredentialsBacked
    AloneNeverHalfProvisioned
    AloneCapacityKept
    AcceptedWithinWindow
PROPERTIES
    ApproveOnce
CHECK_DEADLOCK FALSE
