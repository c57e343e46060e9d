CONSTANTS
    None = None
    Orders = {o1}
    Attempts = {a1}
    Configs = {c1}
    Nodes = {n1}
    Handlers = {h1}
    MaxAssignments = 2
    Faults = {}
    SelectorOutcomes = {"raises"}
    KvOutcomes = {"raises"}
SPECIFICATION Spec
INVARIANTS
    StuckIsRetryable
CHECK_DEADLOCK FALSE
