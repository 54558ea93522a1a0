SPECIFICATION ReadySpec
CONSTANTS
    Size = 3
    Power <- Powers221
    a = a
    b = b
    c = c
    Blocks = {a, b}
    Valid = {a, b}
    NilBlock = NilBlock
    NoBlock = NoBlock
    NoVote = NoVote
    NoSig = NoSig
    Peers = {}
    Faulty = {2}
    FaultyMsgs <- Equivocations
    Proposer = 2
    Arg <- MCArg
    MaxCalls = 1
    MayCancel = {1}
CHECK_DEADLOCK FALSE
SYMMETRY BlockSymmetry
INVARIANTS TypeOK Agreement CommitsAreGood
PROPERTY ImplementsConsensus
