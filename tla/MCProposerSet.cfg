SPECIFICATION FairSpec
CONSTANTS
    MaxInt64 = 127
    Addresses = {1, 2, 3}
    Genesis <- MCGenesis
    ChangeSets <- MCChangeSets
    MaxTimes = 2
INVARIANTS TypeOK TotalIsCurrent Centred NoClipping Window
PROPERTIES ChangesRescale RemovedProposerIsReplaced EveryoneProposes
