SPECIFICATION FairSpec
CONSTANTS
    r1 = r1
    r2 = r2
    Readers = {r1, r2}
    HistoryRetentionWindow = 2
    MaxLedger = 4
INVARIANTS
    CacheCoherent
    TablesAgree
    RetentionWindow
    RangeServable
    FreshLatest
PROPERTIES
    RefinesRetainedLedgers
    CallsReturn
