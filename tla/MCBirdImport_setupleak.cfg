CONSTANTS
    k1 = k1
    k2 = k2
    h1 = h1
    h2 = h2
    h3 = h3
    NoHolder = NoHolder
    Keys <- MCKeys1
    Holders <- MCHolders2
    MaxStreams = 2
    MaxInflight = 1
SPECIFICATION Spec
INVARIANT SetupFailureReleasesConn
CHECK_DEADLOCK FALSE
