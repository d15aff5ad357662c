CONSTANTS
    Org = Org
    Signer = Signer
    NoBook = NoBook
    w1 = w1
    w2 = w2
    r1 = r1
    Workers <- TwoWorkers
    Requests <- OneRequest
    MAX_SEAL_ATTEMPTS = 1
    seal_max_batch = 2
    PassesApart = FALSE
    MayDisable = TRUE
    MaxLeaves = 2
    MaxRows = 2
    MaxClock = 0
    MaxFaults = 1
SPECIFICATION Spec
CHECK_DEADLOCK FALSE
SYMMETRY WorkersAlike
INVARIANTS
    ConfirmedIsOnChain
    NoLeafStranded
