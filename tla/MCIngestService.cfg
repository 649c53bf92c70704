SPECIFICATION FairSpec
CONSTANTS
    c1 = c1
    Callers = {c1}
    HistoryRetentionWindow = 2
    ClassicRetention = 1
    SorobanRetention = 2
    CheckpointFrequency = 2
    MaxRetries = 2
    Backfills = {FALSE, TRUE}
    LoadTests = {0, 2}
    MaxLedger = 4
    MaxFaults = 2
INVARIANTS
    WindowsTrackDatabase
    FeeStatsCoverLatestLedger
    NoFatalWithoutFault
    
PROPERTIES
    LedgersAreIngested
    CloseReturns
