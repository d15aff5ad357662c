CONSTANTS
    o1 = o1
    a1 = a1
    a2 = a2
    r1 = r1
    r2 = r2
    GENESIS = GENESIS
    NoBook = NoBook
    Orgs <- MCOrgs
    Addresses <- MCAddresses
    Roots <- MCRoots
    MaxSeq = 3
    MaxCount = 2
    MaxPeriod = 2
    MaxTime = 1
SPECIFICATION Spec
SYMMETRY Symmetry
CHECK_DEADLOCK FALSE
INVARIANTS
    ChainContinuous
    WindowsTile
    ReadsAreRight
PROPERTIES
    AppendOnly
