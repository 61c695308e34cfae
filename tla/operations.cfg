SPECIFICATION MCOperationSpec
CONSTANTS
    None = None
    apply = apply
    read1 = read1
    read2 = read2
    identify = identify
    Op = {apply, read1, read2, identify}
    OpKind <- MCKind
    OpResource <- MCResource
    Plan <- MCPlan
    MaxPending = 1
    MaxPendingCells = 2
    MaxPendingSignals = 2
    MaxClosed = 2
    MaxRejections = 2
    SkipBatch = 2
    MaxBusFaults = 1
INVARIANTS TablesAgree RowsTellTheTruth
PROPERTIES EverythingEnds
CHECK_DEADLOCK FALSE
