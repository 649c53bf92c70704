SPECIFICATION FairSpec
CONSTANTS
    HistoryRetentionWindow = 5
    ChunkSize = 2
    CheckpointFrequency = 3
    RefreshPeriod = 1
    OldestInDatastore = 2
    MaxLedger = 11
INVARIANTS
    GaplessWhileBackfilling
    WindowFilled
    ChunksAreNew
PROPERTIES
    BackfillEnds
