SPECIFICATION Spec
CONSTANTS
    Callers = {}
    HistoryRetentionWindow = 2
    ClassicRetention = 1
    SorobanRetention = 2
    CheckpointFrequency = 2
    MaxRetries = 2
    Backfills = {FALSE}
    LoadTests = {0}
    MaxLedger = 4
    MaxFaults = 1
INVARIANTS
    OneFaultIsSurvived
