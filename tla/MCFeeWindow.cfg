SPECIFICATION FeeSpec
CONSTANTS
    Fees = {1, 2, 4}
    MaxFees = 2
    Content <- MCContent
    Capacity = 3
    MaxLedger = 6
INVARIANTS
    DistributionCurrent
PROPERTIES
    RefinesBoundedWindow
