SPECIFICATION CoreSpec
CONSTANTS
    HistoryRetentionWindow = 2
    PageLimit = 2
    LedgerScanLimit = 2
    ServeFromDatastore = TRUE
    Count <- MCCount
    EventData <- MCEventData
    FilterSets <- MCFilterSets
    SnapshotLedgers = 2
    Keys <- MCKeys
    Exists <- MCExists
    MaxLead = 2
    MaxLedger = 6
INVARIANTS
    PagesSkipNothing
    DeliveredOnce
    FoundIsCovered
    EntriesOfOneLedger
    SentIsAhead
PROPERTIES
    LatestNeverGoesBack
