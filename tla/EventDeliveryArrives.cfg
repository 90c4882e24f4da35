SPECIFICATION FairSpec
CONSTANTS
    log = log
    ledger = ledger
    ledger2 = ledger2
    meter = meter
    Logs = {log}
    Ledgers = {ledger}
    Meters = {}
    Billed <- Own
    Overlap = 0
    Late = 0
    BatchSize = 1
    MaxAttempts = 2
    QueueLimit = 1
    RowsPerScan = 1
    MaxRecords = 1
    MaxTime = 1
    MaxCrashes = 1
    MaxBroken = 1
    MaxUnsaved = 0
    MaxInFlight = 1
INVARIANTS NothingSkipped
PROPERTIES EveryUnitArrives
