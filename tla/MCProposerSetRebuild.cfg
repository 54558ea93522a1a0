SPECIFICATION Spec
CONSTANTS
    MaxInt64 = 127
    Addresses = {1, 2, 3}
    Genesis <- MCGenesis
    ChangeSets <- NoChangeSets
    MaxTimes = 1
INVARIANT RebuildsSameSet
