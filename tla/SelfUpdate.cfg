SPECIFICATION Spec
CONSTANTS
    MaxBuild = 3
    MaxFaults = 2
INVARIANTS BackupIsNamed RecoverySucceeds
PROPERTIES ImplementsSlots
CHECK_DEADLOCK FALSE
