SPECIFICATION Spec
CONSTANTS
    WordBits = 24
    HalfBits = 16
    EpochSeconds = 70000
    MaxSeconds = 100000
    NanosPerSecond = 1000
    Nil = Nil
    HashSize = 2
    AddressSize = 2
    MaxSignatureSize = 3
    MaxTotalVotingPower = 1048575
    Signer <- MCSigner
    Signature <- MCSignature
    Key <- MCKey
    Here <- MCHere
    Chains <- MCChains
    Votes <- MCVotes
    Proposals <- MCProposals
    Commits <- MCCommits
    ProposerSets <- MCProposerSets
    UnknownFields <- MCUnknownFields
    Tails <- MCTails
    ByteValues <- MCByteValues
CHECK_DEADLOCK FALSE
INVARIANTS
    Understood TruncationRejected AcceptedWasSigned KnownPanics SignBytesUnambiguous LeavesUnique
