CONSTANTS
    Org = Org
    NoBook = NoBook
    NoKey = NoKey
    r1 = r1
    r2 = r2
    k1 = k1
    g1 = g1
    g2 = g2
    m1 = m1
    Requests <- TwoRequests
    Supplied <- OwnKey
    Generated = {}
    CoSigned <- Multisig
    MaxFaults = 2
SPECIFICATION FairSpec
INVARIANTS
    ReadyCanSeal
PROPERTY
    EventuallyReady
