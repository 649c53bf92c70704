SPECIFICATION FairSpec
CONSTANTS
    r1 = r1
    r2 = r2
    Requests = {r1, r2}
    GlobalLimit = 1
    MethodLimit = 1
INVARIANTS
    SlotsAccounted
    WithinLimits
PROPERTIES
    RequestsAnswered
    NoGoroutineLeft
