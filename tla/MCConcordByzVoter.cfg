SPECIFICATION LiveSpec
CONSTANTS
    Size = 3
    Power <- Powers311
    a = a
    b = b
    c = c
    Blocks = {a, b, c}
    Valid = {a, b}
    NilBlock = NilBlock
    NoBlock = NoBlock
    NoVote = NoVote
    NoSig = NoSig
    Peers = {}
    Faulty = {1}
    FaultyMsgs <- Forgeries
    Proposer = 0
    Arg <- OwnArg
    MaxCalls = 1
    MayCancel = {}
CHECK_DEADLOCK FALSE
INVARIANTS DataMatchesCommit CommitsAreGood
PROPERTIES ImplementsConsensus EveryCallReturns
