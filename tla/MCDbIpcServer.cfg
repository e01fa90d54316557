SPECIFICATION AllSpec
CONSTANTS
    MaxConns = 2
    MaxCursors = 2
    MaxTxs = 2
    MaxImports = 1
    MaxWrites = 2
    BatchSizes = {0, 2}
    Lengths = {0, 2, 3}
    Limits <- MCLimits
    FetchSizes = {1, 2}
    StreamIds = {"s1"}
    Databases = {"d1", "d2"}
INVARIANT TypeOK
INVARIANT NoOrphans
INVARIANT NothingLeaks
INVARIANT TransactionFates
INVARIANT ShutdownReleasesAll
INVARIANT CursorDelivers
INVARIANT BatchIsAtomic
INVARIANT ImportsAccounted
INVARIANT StreamsDeliver
CHECK_DEADLOCK FALSE
