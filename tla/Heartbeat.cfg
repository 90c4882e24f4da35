SPECIFICATION FairSpec
CONSTANTS
    p1 = p1
    p2 = p2
    Providers = {p1, p2}
    MaxAttempts = 2
    MaxBatches = 2
    QueueLimit = 1
    MaxOrders = 2
    MaxFaults = 2
INVARIANTS UpdatesAccounted OwedIsPlanned
PROPERTIES ProvidersCollected SettingsArrive
