CONSTANTS
    \* the device limit
    Connections = {c1, c2, c3, c4, c5}
    Alike = {c1, c2, c3}
    DeviceLimit = 2
    Faults = {"bad_header", "counter_error", "counter_reset", "decr_lost", "stream_error"}
    \* the dialogue of a customer
    None = None
    Plans = {p1, p2}
    Orders = {o1, o2}
    Attempts = {a1}
    Names = {n1}
    StarsName = StarsName
    Ids = {i1}
    Handlers = {h1, h2}
    ChatFaults = {"raised", "restart"}
    MaxMinute = 0
    \* ... and of an admin
    AdminPlans = {p1}
    AdminOrders = {o1}
    AdminNames = {}
    AdminMaxMinute = 1
    \* tests
    Configs = {t1, t2, t3}
    Customers = {u1, u2}
    SelectorOutcomes = {"node", "raises"}
    KvOutcomes = {"works", "raises"}
SPECIFICATION UserSpec
SYMMETRY Symmetric
INVARIANTS
    TypeOK
    LimitHeldUpToStrays
    SlotsAccountedFor
    ChatTypesOK
    DialogHasData
    RepeatsAbsorbed
    TestsBounded
CHECK_DEADLOCK FALSE
