CONSTANTS
    r1 = r1
    r2 = r2
    r3 = r3
    Requests <- ThreeRequests
    Workloads <- MCWorkloads
    MaxEntries = 4
    MaxPeriods = 2
    MaxAmount = 1
SPECIFICATION PostingSpec
CHECK_DEADLOCK FALSE
SYMMETRY AllAlike
INVARIANTS
    NumbersGapFree
    ReversedOnce
    LeafMatchesEntry
PROPERTIES
    HistoryStands
