SPECIFICATION Spec
CONSTANTS
    log = log
    ledger = ledger
    ledger2 = ledger2
    meter = meter
    Logs = {}
    Ledgers = {}
    Meters = {meter}
    Billed <- Own
    Overlap = 0
    Late = 0
    BatchSize = 1
    MaxAttempts = 2
    QueueLimit = 1
    RowsPerScan = 1
    MaxRecords = 2
    MaxTime = 2
    MaxCrashes = 0
    MaxBroken = 0
    MaxUnsaved = 0
    MaxInFlight = 0
INVARIANTS NothingForgotten
