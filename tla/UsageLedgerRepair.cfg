CONSTANTS
    None = None
    \* usage
    Connections = {c1}
    Threshold = 2
    MaxBytes = 3
    LastDay = 1
    MaxFaults = 2
    \* relay
    MaxChunks = 4
    MaxReplies = 3
SPECIFICATION EdgeSpec
INVARIANTS
    TypesOK
    RowsAreSlices
    NeverOverbilled
    AggregateWithinLedger
    OneReplyStream
    CountedAsEmitted
PROPERTIES
    BilledOnce
    EventuallyReconciled
    Finalized
CHECK_DEADLOCK FALSE
