CONSTANTS
    Org = Org
    Signer = Signer
    NoBook = NoBook
    w1 = w1
    w2 = w2
    r1 = r1
    Workers <- OneWorker
    Requests = {}
    MAX_SEAL_ATTEMPTS = 2
    seal_max_batch = 2
    PassesApart = TRUE
    MayDisable = FALSE
    MaxLeaves = 3
    MaxRows = 4
    MaxClock = 1
    MaxFaults = 3
SPECIFICATION FairSpec
CHECK_DEADLOCK FALSE
INVARIANTS
    LeavesSealedInOrder
    NoOrphan
    OurTurnIsAccepted
PROPERTIES
    FailedNeverLanded
    EventuallySealed
