SPECIFICATION CoreSpec
CONSTANTS
    HistoryRetentionWindow = 2
    PageLimit = 2
    LedgerScanLimit = 2
    ServeFromDatastore = TRUE
    Count <- MCCount
    EventData <- MCEventData
    FilterSets <- MCFilterSets
    SnapshotLedgers = 2
    Keys <- MCKeys
    Exists <- MCExists
    MaxLead = 1
    MaxLedger = 6
INVARIANTS
    TransactionsDeliveredOnce
