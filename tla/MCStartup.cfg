SPECIFICATION FairSpec
CONSTANTS
    HistoryRetentionWindow = 3
    MaxLedger = 6
INVARIANTS
    ServingIsIndexed
    ServingIsMigrated
PROPERTIES
    RowsKept
    StartupCompletes
