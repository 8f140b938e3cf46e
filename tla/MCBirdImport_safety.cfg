CONSTANTS
    k1 = k1
    k2 = k2
    h1 = h1
    h2 = h2
    h3 = h3
    NoHolder = NoHolder
    Keys <- MCKeys1
    Holders <- MCHolders3
    MaxStreams = 2
    MaxInflight = 2
SPECIFICATION Spec
SYMMETRY HolderSymmetry
VIEW ViewWithoutCallOrder
INVARIANT TypeOK
INVARIANT SupersededImportReleased
PROPERTY NoStreamLeakOnReconnect
PROPERTY RegistryRefinement
CHECK_DEADLOCK FALSE
