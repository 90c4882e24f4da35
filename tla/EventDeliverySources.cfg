SPECIFICATION Spec
CONSTANTS
    log = log
    ledger = ledger
    ledger2 = ledger2
    meter = meter
    Logs = {log}
    Ledgers = {}
    Meters = {meter}
    Billed <- Own
    Overlap = 1
    Late = 1
    BatchSize = 1
    MaxAttempts = 2
    QueueLimit = 2
    RowsPerScan = 1
    MaxRecords = 2
    MaxTime = 2
    MaxCrashes = 1
    MaxBroken = 0
    MaxUnsaved = 0
    MaxInFlight = 1
INVARIANTS WatermarksBehind
PROPERTIES LeavesQueueWhenStored ImplementsLedger
